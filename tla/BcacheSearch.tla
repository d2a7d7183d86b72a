---------------------------- MODULE BcacheSearch ----------------------------
(***************************************************************************)
(* When bget() may give up.  It looks at one bucket at a time, so buffers  *)
(* may be released behind its back in the buckets it has passed.  A        *)
(* history variable beside the state of Bcache tells which buckets had an  *)
(* unused buffer all through a call.                                       *)
(***************************************************************************)
EXTENDS Bcache

VARIABLE
  spare \* per process: the buckets never without an unused buffer since
        \* its bget() began; empty once it has chosen a buffer

searchVars == <<vars, spare>>

(* The buckets with an unused buffer on their list.                        *)
Spare == {h \in Bucket : \E b \in Range(chain[h]) : refcnt[b] = 0}

(* Where bget() has not chosen a buffer yet.                               *)
Searching == {"own", "own_miss", "victim", "victim_miss", "panic"}

SearchInit == Init /\ spare = [p \in Proc |-> {}]

SearchNext ==
  \E p \in Proc :
    \/ /\ \E n \in Block : BgetEnter(p, n)
       /\ spare' = [spare EXCEPT ![p] = Spare]
    \/ /\ CallStep(p) \/ UserStep(p)
       /\ spare' = [q \in Proc |-> IF pc'[q] \in Searching
                                   THEN spare[q] \cap Spare' ELSE {}]

SearchSpec == SearchInit /\ [][SearchNext]_searchVars

-----------------------------------------------------------------------------
(* panic("bget: no buffers") only when each bucket was without an unused   *)
(* buffer at some moment of the call: the search skips no bucket, and a    *)
(* bucket that always has one is not missed, whatever the other processes  *)
(* steal, use and release meanwhile.  It does not promise that no buffer   *)
(* was unused at any one moment.                                           *)
PanicsOnlyIfNoneSpare ==
  \A p \in Proc : pc[p] = "panic" => spare[p] = {}
=============================================================================
