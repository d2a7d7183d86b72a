---------------------------- MODULE KallocSearch ----------------------------
(***************************************************************************)
(* When kalloc() may fail.  Its search looks at one list at a time, each   *)
(* under that list's lock only, so the lists it has passed may fill up     *)
(* again behind it.  A history variable beside the state of Kalloc tells   *)
(* which lists had a page all through a call.                              *)
(***************************************************************************)
EXTENDS Kalloc

VARIABLE
  stocked \* per CPU: the lists never empty since its kalloc() began

searchVars == <<vars, stocked>>

(* The lists with a page on them.                                          *)
Stocked == {l \in CPU : freelist[l] # <<>>}

SearchInit == Init /\ stocked = [c \in CPU |-> {}]

(* A call starts with the lists of that moment, and each step drops the    *)
(* lists it leaves empty.                                                  *)
SearchNext ==
  \E c \in CPU :
    \/ /\ KallocEnter(c)
       /\ stocked' = [stocked EXCEPT ![c] = Stocked]
    \/ /\ \/ \E pa \in Page : KfreeEnter(c, pa)
          \/ CallStep(c)
       /\ stocked' = [d \in CPU |-> IF pc'[d] = "idle" THEN {}
                                    ELSE stocked[d] \cap Stocked']

SearchSpec == SearchInit /\ [][SearchNext]_searchVars

(* A CPU inside the allocator keeps executing (its interrupts are off); no *)
(* fairness is assumed of the spin lock, nor of the callers.               *)
FairSearchSpec == SearchSpec /\ \A c \in CPU : WF_vars(CallStep(c))

-----------------------------------------------------------------------------
(* kalloc() returns 0 only when every list was empty at some moment of the *)
(* call: no list is skipped by the wrap-around of (id + i) % NCPU, and a   *)
(* list that is never empty cannot be missed, whatever the other CPUs take *)
(* and give back meanwhile.  It does not promise that all were empty at    *)
(* once.                                                                   *)
FailsOnlyIfAllRanDry ==
  \A c \in CPU : pc[c] = "return" /\ r[c] = NULL => stocked[c] = {}

(* The lists that the search of CPU c has found empty.                     *)
Passed(c) == {(c + k) % NCPU : k \in 0 .. (IF pc[c] = "miss" THEN i[c] ELSE i[c] - 1)}

(* The inductive invariant: no list already passed counts as stocked.      *)
SearchInv ==
  /\ stocked \in [CPU -> SUBSET CPU]
  /\ \A c \in CPU :
       pc[c] \in {"acquire", "load", "miss"} => stocked[c] \cap Passed(c) = {}
  /\ FailsOnlyIfAllRanDry
=============================================================================
