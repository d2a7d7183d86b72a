------------------------------ MODULE MCBcache ------------------------------
(***************************************************************************)
(* Instances of Bcache: who asks for which blocks.                         *)
(***************************************************************************)
EXTENDS Bcache, TLC

CONSTANTS p1, p2, p3

TwoProcs   == {p1, p2}
ThreeProcs == {p1, p2, p3}

(* Every process asks for any block.                                       *)
SharedBlocks == [p \in Proc |-> Block]

(* Then the processes can be exchanged.                                    *)
Symmetry == Permutations(ThreeProcs)

(* Each process has two blocks of its own, in two buckets.                 *)
PrivateBlocks == p1 :> {1, 2} @@ p2 :> {3, 4}

(* Two processes that each need a block of another bucket, and one that    *)
(* keeps both buffers busy for a while.                                    *)
OneBlockEach == p1 :> {1} @@ p2 :> {2} @@ p3 :> {3, 4}
=============================================================================
