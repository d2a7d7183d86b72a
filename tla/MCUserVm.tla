------------------------------ MODULE MCUserVm ------------------------------
(***************************************************************************)
(* Instances of UserVm: three slots, up to four two-byte pages each.       *)
(***************************************************************************)
EXTENDS UserVm, TLC

CONSTANTS p1, p2, p3, f1, f2, f3, f4, f5

Procs == {p1, p2, p3}
Frames == {f1, f2, f3, f4, f5}

(* By one byte, by a page, and back by one byte, a page or more.           *)
Steps == {1, 2, -1, -3}

(* The pages and the processes are alike.                                  *)
Symmetry == Permutations(Frames) \cup Permutations(Procs)
=============================================================================
