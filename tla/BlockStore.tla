----------------------------- MODULE BlockStore -----------------------------
(***************************************************************************)
(* What the buffer cache promises, by the head comment of                  *)
(* Lab3/kernel/bio.c: bread() returns the contents of a disk block, and    *)
(* one process at a time uses a block between its bread() and its          *)
(* brelse().                                                               *)
(***************************************************************************)
CONSTANTS
  Proc,  \* the processes
  Block, \* the disk blocks
  Value, \* what a block may contain
  NULL   \* no block

VARIABLES
  user,    \* user[p]: the block p has in use, or NULL
  contents \* contents[n]: what the last writer of n left there

avars == <<user, contents>>

CONSTANT Initial \* the contents of the disk at boot

Init ==
  /\ user = [p \in Proc |-> NULL]
  /\ contents = Initial

(* bread(n) returns: nobody else has n in use.                             *)
Obtain(p, n) ==
  /\ user[p] = NULL
  /\ \A q \in Proc : user[q] # n
  /\ user' = [user EXCEPT ![p] = n]
  /\ UNCHANGED contents

(* The user of a block changes it.                                         *)
Change(p, v) ==
  /\ user[p] # NULL
  /\ contents' = [contents EXCEPT ![user[p]] = v]
  /\ UNCHANGED user

(* brelse()                                                                *)
GiveUp(p) ==
  /\ user[p] # NULL
  /\ user' = [user EXCEPT ![p] = NULL]
  /\ UNCHANGED contents

Next ==
  \E p \in Proc :
    \/ GiveUp(p)
    \/ \E n \in Block : Obtain(p, n)
    \/ \E v \in Value : Change(p, v)

Spec == Init /\ [][Next]_avars
=============================================================================
