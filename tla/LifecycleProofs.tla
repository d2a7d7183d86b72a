--------------------------- MODULE LifecycleProofs ---------------------------
(***************************************************************************)
(* Proofs about Lifecycle, for any size of the process table: fork(),      *)
(* exit(), wait() and kill() keep every process's parent alive, free no    *)
(* process too early, and miss no exit but init's.                         *)
(***************************************************************************)
EXTENDS Lifecycle, TLAPS

-----------------------------------------------------------------------------
(* The inductive invariant                                                 *)

(* From exit()'s copy of the parent until the slot is free.                *)
HasOrig == {"x_parent", "x_self", "x_scan", "x_child", "x_sched", "dead"}

(* The labels at which a thread holds the lock of the parent it remembers, *)
(* and those at which it holds its own.                                    *)
WithParents == {"x_self", "x_scan", "x_child"}
WithOwn     == {"x_scan", "x_child", "x_sched", "w_scan", "w_child"}

(* Where the thread of a process is, given the state of the process.       *)
StateInv ==
  \A s \in Slot :
    /\ pc[s] = "none" <=> state[s] = "UNUSED"
    /\ pc[s] \in {"x_sched", "dead"} <=> state[s] = "ZOMBIE"
    /\ pc[s] = "new" => state[s] = "RUNNABLE"
    /\ pc[s] = "w_sleep" <=> \/ state[s] = "SLEEPING"
                             \/ state[s] = "RUNNABLE" /\ pc[s] # "new"

(* The first process does not exit and has no parent.                      *)
InitprocInv ==
  /\ pc[initproc] \in {"new", "user", "w_lock", "w_scan", "w_child", "w_sleep"}
  /\ parent[initproc] = NULL

(* p->lock is held by its own thread or by an exiting child.               *)
LockInv ==
  \A s, l \in Slot :
    lock[l] = s <=> \/ l = orig[s] /\ pc[s] \in WithParents
                    \/ l = s /\ pc[s] \in WithOwn

(* The parent that exit() remembers is the parent, unless that one has     *)
(* given the process to init since.                                        *)
OrigInv ==
  \A s \in Slot :
    /\ orig[s] # NULL <=> pc[s] \in HasOrig
    /\ orig[s] # s
    /\ orig[s] # NULL /\ orig[s] # parent[s] => parent[s] = initproc

(* An UNUSED slot has no parent.                                           *)
UnusedInv == \A s \in Slot : state[s] = "UNUSED" => parent[s] = NULL

(* There is no circle of parents: some member of any set of processes has  *)
(* no child in it.                                                         *)
NoCircle ==
  \A S \in (SUBSET Slot) \ {{}} : \E s \in S : \A c \in S : parent[c] # s

(* The loops of wait() and reparent() lock a slot of the table.            *)
IndexInv == \A s \in Slot : pc[s] \in {"x_child", "w_child"} => k[s] \in Slot

(* reparent() has no child behind it.                                      *)
ReparentInv ==
  \A s, c \in Slot :
    pc[s] \in {"x_scan", "x_child"} /\ c < k[s] => parent[c] # s

(* wait()'s loop has no zombie behind it but one of the kind that init     *)
(* may miss.                                                               *)
WaitInv ==
  \A s, c \in Slot :
    /\ pc[s] \in {"w_scan", "w_child"} /\ c < k[s]
    /\ parent[c] = s /\ state[c] = "ZOMBIE"
    => s = initproc /\ orig[c] # s

IInv ==
  /\ TypeOK
  /\ StateInv /\ InitprocInv
  /\ LockInv /\ OrigInv
  /\ UnusedInv /\ ParentLives /\ NoCircle
  /\ IndexInv /\ StillMyChild /\ ReparentInv /\ WaitInv
  /\ KilledAwake
-----------------------------------------------------------------------------

(* NULL is no slot; the first process has the first one; loops over the    *)
(* table go from its first slot to the one past its last.                  *)
LEMMA Constants ==
  /\ NULL \notin Slot /\ initproc \in Slot
  /\ 1 \in 1 .. NPROC + 1
  /\ \A l \in Slot : l + 1 \in 1 .. NPROC + 1
BY NULLAssumption, NPROCAssumption DEF Slot, initproc

LEMMA ForkStep ==
  ASSUME IInv, NEW s \in Slot, NEW n \in Slot, Fork(s, n)
  PROVE  IInv'
<1> USE Constants DEF IInv
<1>1. TypeOK'
  BY DEF TypeOK, Labels, States, Fork
<1>2. StateInv'
  BY DEF TypeOK, States, StateInv, LockInv, WithOwn, IndexInv, InitprocInv,
         Fork
<1>3. InitprocInv'
  BY DEF TypeOK, InitprocInv, StateInv, UnusedInv, StillMyChild, Fork
<1>4. LockInv'
  BY DEF TypeOK, StateInv, LockInv, OrigInv, IndexInv, HasOrig, WithParents,
         WithOwn, Fork
<1>5. OrigInv'
  BY DEF TypeOK, StateInv, OrigInv, HasOrig, InitprocInv, ParentLives,
         StillMyChild, UnusedInv, Fork
<1>6. UnusedInv' /\ ParentLives'
  BY DEF TypeOK, StateInv, InitprocInv, UnusedInv, ParentLives, Live,
         ReparentInv, IndexInv, StillMyChild, Fork
<1>7. NoCircle'
  <2>1. \A c \in Slot : parent[c] # n
    BY DEF TypeOK, UnusedInv, ParentLives, InitprocInv, Live, Fork
  <2>2. \A c \in Slot : parent'[c] # n /\ (c # n => parent'[c] = parent[c])
    BY <2>1 DEF TypeOK, StateInv, Fork
  <2> SUFFICES ASSUME NEW S \in (SUBSET Slot) \ {{}},
                      \A q \in S : \E c \in S : parent'[c] = q
               PROVE  FALSE
    BY DEF NoCircle
  <2>3. n \notin S
    BY <2>2
  <2>4. \A q \in S : \E c \in S : parent[c] = q
    BY <2>2, <2>3
  <2> QED BY <2>4 DEF NoCircle
<1>8. IndexInv' /\ StillMyChild' /\ ReparentInv'
  BY DEF TypeOK, StateInv, InitprocInv, UnusedInv, ParentLives, IndexInv,
         StillMyChild, ReparentInv, Fork
<1>9. WaitInv'
  BY DEF TypeOK, StateInv, InitprocInv, LockInv, OrigInv, WithParents, WithOwn,
         HasOrig, WaitInv, Fork
<1>10. KilledAwake'
  BY DEF TypeOK, KilledAwake, Fork
<1> QED BY <1>1, <1>2, <1>3, <1>4, <1>5, <1>6, <1>7, <1>8, <1>9, <1>10

LEMMA ForkFailStep ==
  ASSUME IInv, NEW s \in Slot, NEW n \in Slot, ForkFail(s, n)
  PROVE  IInv'
<1> USE Constants DEF IInv
<1>1. TypeOK'
  BY DEF TypeOK, Labels, States, ForkFail
<1>2. StateInv'
  BY DEF TypeOK, States, StateInv, LockInv, WithOwn, IndexInv, InitprocInv,
         ForkFail
<1>3. InitprocInv'
  BY DEF TypeOK, InitprocInv, StateInv, UnusedInv, StillMyChild, ForkFail
<1>4. LockInv'
  BY DEF TypeOK, StateInv, LockInv, OrigInv, IndexInv, HasOrig, WithParents,
         WithOwn, ForkFail
<1>5. OrigInv'
  BY DEF TypeOK, StateInv, OrigInv, HasOrig, InitprocInv, ParentLives,
         StillMyChild, UnusedInv, ForkFail
<1>6. UnusedInv' /\ ParentLives'
  BY DEF TypeOK, StateInv, InitprocInv, UnusedInv, ParentLives, Live,
         ReparentInv, IndexInv, StillMyChild, ForkFail
<1>7. NoCircle'
  BY DEF NoCircle, ForkFail
<1>8. IndexInv' /\ StillMyChild' /\ ReparentInv'
  BY DEF TypeOK, StateInv, InitprocInv, UnusedInv, ParentLives, IndexInv,
         StillMyChild, ReparentInv, ForkFail
<1>9. WaitInv'
  BY DEF TypeOK, StateInv, InitprocInv, LockInv, OrigInv, WithParents, WithOwn,
         HasOrig, WaitInv, ForkFail
<1>10. KilledAwake'
  BY DEF TypeOK, KilledAwake, ForkFail
<1> QED BY <1>1, <1>2, <1>3, <1>4, <1>5, <1>6, <1>7, <1>8, <1>9, <1>10

LEMMA RunStep ==
  ASSUME IInv, NEW s \in Slot, Run(s)
  PROVE  IInv'
<1> USE Constants DEF IInv
<1>1. TypeOK'
  <2>1. pc' \in [Slot -> Labels] /\ lock' \in [Slot -> Slot \cup {NULL}]
    BY DEF TypeOK, Labels, Run, Goto
  <2>2. k' \in [Slot -> 1 .. NPROC + 1] /\ havekids' \in [Slot -> BOOLEAN]
    BY DEF TypeOK, Run
  <2>3. state' \in [Slot -> States] /\ UNCHANGED <<parent, killed, orig>>
    BY DEF TypeOK, States, Run
  <2> QED BY <2>1, <2>2, <2>3 DEF TypeOK
<1>2. StateInv'
  BY DEF TypeOK, States, StateInv, LockInv, WithOwn, IndexInv, InitprocInv,
         Run, Goto
<1>3. InitprocInv'
  BY DEF TypeOK, InitprocInv, StateInv, UnusedInv, StillMyChild, Run, Goto
<1>4. LockInv'
  BY DEF TypeOK, StateInv, LockInv, OrigInv, IndexInv, HasOrig, WithParents,
         WithOwn, Run, Goto
<1>5. OrigInv'
  BY DEF TypeOK, StateInv, OrigInv, HasOrig, InitprocInv, ParentLives,
         StillMyChild, UnusedInv, Run, Goto
<1>6. UnusedInv' /\ ParentLives'
  BY DEF TypeOK, StateInv, InitprocInv, UnusedInv, ParentLives, Live,
         ReparentInv, IndexInv, StillMyChild, Run, Goto
<1>7. NoCircle'
  BY DEF NoCircle, Run, Goto
<1>8. IndexInv' /\ StillMyChild' /\ ReparentInv'
  BY DEF TypeOK, StateInv, InitprocInv, UnusedInv, ParentLives, IndexInv,
         StillMyChild, ReparentInv, Run, Goto
<1>9. WaitInv'
  <2>1. \A c \in Slot : ~(c < 1)
    BY DEF Slot
  <2> QED BY <2>1 DEF TypeOK, WaitInv, Run, Goto
<1>10. KilledAwake'
  BY DEF TypeOK, KilledAwake, Run, Goto
<1> QED BY <1>1, <1>2, <1>3, <1>4, <1>5, <1>6, <1>7, <1>8, <1>9, <1>10

LEMMA ExitEnterStep ==
  ASSUME IInv, NEW s \in Slot, ExitEnter(s)
  PROVE  IInv'
<1> USE Constants DEF IInv
<1>1. TypeOK'
  BY DEF TypeOK, Labels, States, ExitEnter, Goto
<1>2. StateInv'
  BY DEF TypeOK, States, StateInv, LockInv, WithOwn, IndexInv, InitprocInv,
         ExitEnter, Goto
<1>3. InitprocInv'
  BY DEF TypeOK, InitprocInv, StateInv, UnusedInv, StillMyChild, ExitEnter,
         Goto
<1>4. LockInv'
  BY DEF TypeOK, StateInv, LockInv, OrigInv, IndexInv, HasOrig, WithParents,
         WithOwn, ExitEnter, Goto
<1>5. OrigInv'
  BY DEF TypeOK, StateInv, OrigInv, HasOrig, InitprocInv, ParentLives,
         StillMyChild, UnusedInv, ExitEnter, Goto
<1>6. UnusedInv' /\ ParentLives'
  BY DEF TypeOK, StateInv, InitprocInv, UnusedInv, ParentLives, Live,
         ReparentInv, IndexInv, StillMyChild, ExitEnter, Goto
<1>7. NoCircle'
  BY DEF NoCircle, ExitEnter, Goto
<1>8. IndexInv' /\ StillMyChild' /\ ReparentInv'
  BY DEF TypeOK, StateInv, InitprocInv, UnusedInv, ParentLives, IndexInv,
         StillMyChild, ReparentInv, ExitEnter, Goto
<1>9. WaitInv'
  BY DEF TypeOK, StateInv, InitprocInv, LockInv, OrigInv, WithParents, WithOwn,
         HasOrig, WaitInv, ExitEnter, Goto
<1>10. KilledAwake'
  BY DEF TypeOK, KilledAwake, ExitEnter, Goto
<1> QED BY <1>1, <1>2, <1>3, <1>4, <1>5, <1>6, <1>7, <1>8, <1>9, <1>10

LEMMA ExitWakeInitStep ==
  ASSUME IInv, NEW s \in Slot, ExitWakeInit(s)
  PROVE  IInv'
<1> USE Constants DEF IInv
<1>1. TypeOK'
  BY DEF TypeOK, Labels, States, ExitWakeInit, Goto, wakeup1
<1>2. StateInv'
  BY DEF TypeOK, States, StateInv, LockInv, WithOwn, IndexInv, InitprocInv,
         ExitWakeInit, Goto, wakeup1
<1>3. InitprocInv'
  BY DEF TypeOK, InitprocInv, StateInv, UnusedInv, StillMyChild, ExitWakeInit,
         Goto, wakeup1
<1>4. LockInv'
  BY DEF TypeOK, StateInv, LockInv, OrigInv, IndexInv, HasOrig, WithParents,
         WithOwn, ExitWakeInit, Goto, wakeup1
<1>5. OrigInv'
  BY DEF TypeOK, StateInv, OrigInv, HasOrig, InitprocInv, ParentLives,
         StillMyChild, UnusedInv, ExitWakeInit, Goto, wakeup1
<1>6. UnusedInv' /\ ParentLives'
  BY DEF TypeOK, StateInv, InitprocInv, UnusedInv, ParentLives, Live,
         ReparentInv, IndexInv, StillMyChild, ExitWakeInit, Goto, wakeup1
<1>7. NoCircle'
  BY DEF NoCircle, ExitWakeInit, Goto, wakeup1
<1>8. IndexInv' /\ StillMyChild' /\ ReparentInv'
  BY DEF TypeOK, StateInv, InitprocInv, UnusedInv, ParentLives, IndexInv,
         StillMyChild, ReparentInv, ExitWakeInit, Goto, wakeup1
<1>9. WaitInv'
  BY DEF TypeOK, StateInv, InitprocInv, LockInv, OrigInv, WithParents, WithOwn,
         HasOrig, WaitInv, ExitWakeInit, Goto, wakeup1
<1>10. KilledAwake'
  BY DEF TypeOK, KilledAwake, ExitWakeInit, Goto, wakeup1
<1> QED BY <1>1, <1>2, <1>3, <1>4, <1>5, <1>6, <1>7, <1>8, <1>9, <1>10

LEMMA ExitCopyParentStep ==
  ASSUME IInv, NEW s \in Slot, ExitCopyParent(s)
  PROVE  IInv'
<1> USE Constants DEF IInv
<1>1. TypeOK'
  BY DEF TypeOK, Labels, States, ExitCopyParent, Goto
<1>2. StateInv'
  BY DEF TypeOK, States, StateInv, LockInv, WithOwn, IndexInv, InitprocInv,
         ExitCopyParent, Goto
<1>3. InitprocInv'
  BY DEF TypeOK, InitprocInv, StateInv, UnusedInv, StillMyChild,
         ExitCopyParent, Goto
<1>4. LockInv'
  BY DEF TypeOK, StateInv, LockInv, OrigInv, IndexInv, HasOrig, WithParents,
         WithOwn, ExitCopyParent, Goto
<1>5. OrigInv'
  <2>1. parent[s] # NULL
    BY DEF StateInv, InitprocInv, ParentLives, ExitCopyParent, Goto
  <2>2. parent[s] # s
    <3>1. {s} \in (SUBSET Slot) \ {{}}
      OBVIOUS
    <3> QED BY <3>1 DEF NoCircle
  <2> QED BY <2>1, <2>2 DEF TypeOK, OrigInv, HasOrig, ExitCopyParent, Goto
<1>6. UnusedInv' /\ ParentLives'
  BY DEF TypeOK, StateInv, InitprocInv, UnusedInv, ParentLives, Live,
         ReparentInv, IndexInv, StillMyChild, ExitCopyParent, Goto
<1>7. NoCircle'
  BY DEF NoCircle, ExitCopyParent, Goto
<1>8. IndexInv' /\ StillMyChild' /\ ReparentInv'
  BY DEF TypeOK, StateInv, InitprocInv, UnusedInv, ParentLives, IndexInv,
         StillMyChild, ReparentInv, ExitCopyParent, Goto
<1>9. WaitInv'
  BY DEF TypeOK, StateInv, InitprocInv, LockInv, OrigInv, WithParents, WithOwn,
         HasOrig, WaitInv, ExitCopyParent, Goto
<1>10. KilledAwake'
  BY DEF TypeOK, KilledAwake, ExitCopyParent, Goto
<1> QED BY <1>1, <1>2, <1>3, <1>4, <1>5, <1>6, <1>7, <1>8, <1>9, <1>10

LEMMA ExitLockParentStep ==
  ASSUME IInv, NEW s \in Slot, ExitLockParent(s)
  PROVE  IInv'
<1> USE Constants DEF IInv
<1>1. TypeOK'
  BY DEF TypeOK, Labels, States, ExitLockParent, Goto, acquire
<1>2. StateInv'
  BY DEF TypeOK, States, StateInv, LockInv, WithOwn, IndexInv, InitprocInv,
         ExitLockParent, Goto, acquire
<1>3. InitprocInv'
  BY DEF TypeOK, InitprocInv, StateInv, UnusedInv, StillMyChild,
         ExitLockParent, Goto, acquire
<1>4. LockInv'
  BY DEF TypeOK, StateInv, LockInv, OrigInv, IndexInv, HasOrig, WithParents,
         WithOwn, ExitLockParent, Goto, acquire
<1>5. OrigInv'
  BY DEF TypeOK, StateInv, OrigInv, HasOrig, InitprocInv, ParentLives,
         StillMyChild, UnusedInv, ExitLockParent, Goto, acquire
<1>6. UnusedInv' /\ ParentLives'
  BY DEF TypeOK, StateInv, InitprocInv, UnusedInv, ParentLives, Live,
         ReparentInv, IndexInv, StillMyChild, ExitLockParent, Goto, acquire
<1>7. NoCircle'
  BY DEF NoCircle, ExitLockParent, Goto, acquire
<1>8. IndexInv' /\ StillMyChild' /\ ReparentInv'
  BY DEF TypeOK, StateInv, InitprocInv, UnusedInv, ParentLives, IndexInv,
         StillMyChild, ReparentInv, ExitLockParent, Goto, acquire
<1>9. WaitInv'
  BY DEF TypeOK, StateInv, InitprocInv, LockInv, OrigInv, WithParents, WithOwn,
         HasOrig, WaitInv, ExitLockParent, Goto, acquire
<1>10. KilledAwake'
  BY DEF TypeOK, KilledAwake, ExitLockParent, Goto, acquire
<1> QED BY <1>1, <1>2, <1>3, <1>4, <1>5, <1>6, <1>7, <1>8, <1>9, <1>10

LEMMA ExitLockSelfStep ==
  ASSUME IInv, NEW s \in Slot, ExitLockSelf(s)
  PROVE  IInv'
<1> USE Constants DEF IInv
<1>1. TypeOK'
  BY DEF TypeOK, Labels, States, ExitLockSelf, Goto, acquire
<1>2. StateInv'
  BY DEF TypeOK, States, StateInv, LockInv, WithOwn, IndexInv, InitprocInv,
         ExitLockSelf, Goto, acquire
<1>3. InitprocInv'
  BY DEF TypeOK, InitprocInv, StateInv, UnusedInv, StillMyChild, ExitLockSelf,
         Goto, acquire
<1>4. LockInv'
  BY DEF TypeOK, StateInv, LockInv, OrigInv, IndexInv, HasOrig, WithParents,
         WithOwn, ExitLockSelf, Goto, acquire
<1>5. OrigInv'
  BY DEF TypeOK, StateInv, OrigInv, HasOrig, InitprocInv, ParentLives,
         StillMyChild, UnusedInv, ExitLockSelf, Goto, acquire
<1>6. UnusedInv' /\ ParentLives'
  BY DEF TypeOK, StateInv, InitprocInv, UnusedInv, ParentLives, Live,
         ReparentInv, IndexInv, StillMyChild, ExitLockSelf, Goto, acquire
<1>7. NoCircle'
  BY DEF NoCircle, ExitLockSelf, Goto, acquire
<1>8. IndexInv' /\ StillMyChild' /\ ReparentInv'
  <2>1. \A c \in Slot : ~(c < 1)
    BY DEF Slot
  <2> QED BY <2>1 DEF TypeOK, IndexInv, StillMyChild, ReparentInv,
                      ExitLockSelf, Goto, acquire
<1>9. WaitInv'
  BY DEF TypeOK, StateInv, InitprocInv, LockInv, OrigInv, WithParents, WithOwn,
         HasOrig, WaitInv, ExitLockSelf, Goto, acquire
<1>10. KilledAwake'
  BY DEF TypeOK, KilledAwake, ExitLockSelf, Goto, acquire
<1> QED BY <1>1, <1>2, <1>3, <1>4, <1>5, <1>6, <1>7, <1>8, <1>9, <1>10

LEMMA ReparentCheckStep ==
  ASSUME IInv, NEW s \in Slot, ReparentCheck(s)
  PROVE  IInv'
<1> USE Constants DEF IInv
<1>1. TypeOK'
  BY DEF TypeOK, Labels, States, ReparentCheck, Goto
<1>2. StateInv'
  BY DEF TypeOK, States, StateInv, LockInv, WithOwn, IndexInv, InitprocInv,
         ReparentCheck, Goto
<1>3. InitprocInv'
  BY DEF TypeOK, InitprocInv, StateInv, UnusedInv, StillMyChild, ReparentCheck,
         Goto
<1>4. LockInv'
  BY DEF TypeOK, StateInv, LockInv, OrigInv, IndexInv, HasOrig, WithParents,
         WithOwn, ReparentCheck, Goto
<1>5. OrigInv'
  BY DEF TypeOK, StateInv, OrigInv, HasOrig, InitprocInv, ParentLives,
         StillMyChild, UnusedInv, ReparentCheck, Goto
<1>6. UnusedInv' /\ ParentLives'
  BY DEF TypeOK, StateInv, InitprocInv, UnusedInv, ParentLives, Live,
         ReparentInv, IndexInv, StillMyChild, ReparentCheck, Goto
<1>7. NoCircle'
  BY DEF NoCircle, ReparentCheck, Goto
<1>8. IndexInv' /\ StillMyChild' /\ ReparentInv'
  <2>1. \A c \in Slot : c < k[s] + 1 => c < k[s] \/ c = k[s]
    BY DEF ReparentCheck, Slot
  <2> QED BY <2>1 DEF TypeOK, IndexInv, StillMyChild, ReparentInv,
                      ReparentCheck, Goto
<1>9. WaitInv'
  BY DEF TypeOK, StateInv, InitprocInv, LockInv, OrigInv, WithParents, WithOwn,
         HasOrig, WaitInv, ReparentCheck, Goto
<1>10. KilledAwake'
  BY DEF TypeOK, KilledAwake, ReparentCheck, Goto
<1> QED BY <1>1, <1>2, <1>3, <1>4, <1>5, <1>6, <1>7, <1>8, <1>9, <1>10

LEMMA ReparentChildStep ==
  ASSUME IInv, NEW s \in Slot, ReparentChild(s)
  PROVE  IInv'
<1> USE Constants DEF IInv
<1>1. TypeOK'
  <2>1. k[s] + 1 \in 1 .. NPROC + 1
    BY DEF IndexInv, ReparentChild, Goto
  <2> QED BY <2>1 DEF TypeOK, Labels, ReparentChild, Goto
<1>2. StateInv'
  BY DEF TypeOK, States, StateInv, LockInv, WithOwn, IndexInv, InitprocInv,
         ReparentChild, Goto
<1>3. InitprocInv'
  BY DEF TypeOK, InitprocInv, StateInv, UnusedInv, StillMyChild, ReparentChild,
         Goto
<1>4. LockInv'
  BY DEF TypeOK, StateInv, LockInv, OrigInv, IndexInv, HasOrig, WithParents,
         WithOwn, ReparentChild, Goto
<1>5. OrigInv'
  BY DEF TypeOK, StateInv, OrigInv, HasOrig, InitprocInv, ParentLives,
         StillMyChild, UnusedInv, ReparentChild, Goto
<1>6. UnusedInv' /\ ParentLives'
  BY DEF TypeOK, StateInv, InitprocInv, UnusedInv, ParentLives, Live,
         ReparentInv, IndexInv, StillMyChild, ReparentChild, Goto
<1>7. NoCircle'
  <2>1. /\ k[s] \in Slot /\ k[s] # initproc
        /\ parent' = [parent EXCEPT ![k[s]] = initproc]
    BY DEF IndexInv, StillMyChild, InitprocInv, ReparentChild, Goto
  <2> SUFFICES ASSUME NEW S \in (SUBSET Slot) \ {{}},
                      \A q \in S : \E c \in S : parent'[c] = q
               PROVE  FALSE
    BY DEF NoCircle
  <2> DEFINE T == S \ {initproc}
  <2>2. parent'[initproc] = NULL
    BY <2>1 DEF TypeOK, InitprocInv
  <2>3. ASSUME NEW q \in T PROVE \E c \in T : parent[c] = q
    <3>1. PICK c \in S : parent'[c] = q
      OBVIOUS
    <3>2. c # initproc /\ c # k[s]
      BY <2>1, <2>2, <3>1 DEF TypeOK
    <3> QED BY <2>1, <3>1, <3>2 DEF TypeOK
  <2>4. T # {}
    BY <2>2
  <2> QED BY <2>3, <2>4 DEF NoCircle
<1>8. IndexInv' /\ StillMyChild' /\ ReparentInv'
  <2>1. /\ k[s] \in Slot /\ s # initproc
        /\ parent' = [parent EXCEPT ![k[s]] = initproc]
    BY DEF IndexInv, InitprocInv, ReparentChild, Goto
  <2>2. \A c \in Slot : c < k[s] + 1 => c < k[s] \/ c = k[s]
    BY <2>1 DEF Slot
  <2>3. IndexInv'
    BY DEF TypeOK, IndexInv, ReparentChild, Goto
  <2>4. StillMyChild'
    BY <2>1 DEF TypeOK, IndexInv, StillMyChild, ReparentChild, Goto
  <2>5. ReparentInv'
    BY <2>1, <2>2 DEF TypeOK, InitprocInv, ReparentInv, ReparentChild, Goto
  <2> QED BY <2>3, <2>4, <2>5
<1>9. WaitInv'
  BY DEF TypeOK, StateInv, InitprocInv, LockInv, OrigInv, WithParents, WithOwn,
         HasOrig, WaitInv, ReparentChild, Goto
<1>10. KilledAwake'
  BY DEF TypeOK, KilledAwake, ReparentChild, Goto
<1> QED BY <1>1, <1>2, <1>3, <1>4, <1>5, <1>6, <1>7, <1>8, <1>9, <1>10

LEMMA ExitZombieStep ==
  ASSUME IInv, NEW s \in Slot, ExitZombie(s)
  PROVE  IInv'
<1> USE Constants DEF IInv
<1>1. TypeOK'
  BY DEF TypeOK, Labels, States, ExitZombie, Goto, wakeup1, release
<1>2. StateInv'
  BY DEF TypeOK, States, StateInv, LockInv, WithOwn, IndexInv, InitprocInv,
         ExitZombie, Goto, wakeup1, release
<1>3. InitprocInv'
  BY DEF TypeOK, InitprocInv, StateInv, UnusedInv, StillMyChild, ExitZombie,
         Goto, wakeup1, release
<1>4. LockInv'
  BY DEF TypeOK, StateInv, LockInv, OrigInv, IndexInv, HasOrig, WithParents,
         WithOwn, ExitZombie, Goto, wakeup1, release
<1>5. OrigInv'
  BY DEF TypeOK, StateInv, OrigInv, HasOrig, InitprocInv, ParentLives,
         StillMyChild, UnusedInv, ExitZombie, Goto, wakeup1, release
<1>6. UnusedInv' /\ ParentLives'
  <2>1. \A c \in Slot : c < k[s]
    BY NPROCAssumption DEF TypeOK, Slot, ExitZombie
  <2>2. \A c \in Slot : parent[c] # s
    BY <2>1 DEF ReparentInv, ExitZombie, Goto
  <2>3. \A c \in Slot \ {s} : /\ Live(c) => Live(c)'
                              /\ state'[c] = "UNUSED" <=> state[c] = "UNUSED"
    BY DEF TypeOK, Live, ExitZombie, wakeup1
  <2>4. state[s] # "UNUSED" /\ state'[s] = "ZOMBIE" /\ parent' = parent
    BY DEF TypeOK, StateInv, ExitZombie, wakeup1, Goto
  <2> QED BY <2>2, <2>3, <2>4 DEF TypeOK, UnusedInv, ParentLives
<1>7. NoCircle'
  BY DEF NoCircle, ExitZombie, Goto, wakeup1, release
<1>8. IndexInv' /\ StillMyChild' /\ ReparentInv'
  BY DEF TypeOK, StateInv, InitprocInv, UnusedInv, ParentLives, IndexInv,
         StillMyChild, ReparentInv, ExitZombie, Goto, wakeup1, release
<1>9. WaitInv'
  BY DEF TypeOK, StateInv, InitprocInv, LockInv, OrigInv, WithParents, WithOwn,
         HasOrig, WaitInv, ExitZombie, Goto, wakeup1, release
<1>10. KilledAwake'
  BY DEF TypeOK, KilledAwake, ExitZombie, Goto, wakeup1, release
<1> QED BY <1>1, <1>2, <1>3, <1>4, <1>5, <1>6, <1>7, <1>8, <1>9, <1>10

LEMMA ExitSchedStep ==
  ASSUME IInv, NEW s \in Slot, ExitSched(s)
  PROVE  IInv'
<1> USE Constants DEF IInv
<1>1. TypeOK'
  BY DEF TypeOK, Labels, States, ExitSched, Goto, release
<1>2. StateInv'
  BY DEF TypeOK, States, StateInv, LockInv, WithOwn, IndexInv, InitprocInv,
         ExitSched, Goto, release
<1>3. InitprocInv'
  BY DEF TypeOK, InitprocInv, StateInv, UnusedInv, StillMyChild, ExitSched,
         Goto, release
<1>4. LockInv'
  BY DEF TypeOK, StateInv, LockInv, OrigInv, IndexInv, HasOrig, WithParents,
         WithOwn, ExitSched, Goto, release
<1>5. OrigInv'
  BY DEF TypeOK, StateInv, OrigInv, HasOrig, InitprocInv, ParentLives,
         StillMyChild, UnusedInv, ExitSched, Goto, release
<1>6. UnusedInv' /\ ParentLives'
  BY DEF TypeOK, StateInv, InitprocInv, UnusedInv, ParentLives, Live,
         ReparentInv, IndexInv, StillMyChild, ExitSched, Goto, release
<1>7. NoCircle'
  BY DEF NoCircle, ExitSched, Goto, release
<1>8. IndexInv' /\ StillMyChild' /\ ReparentInv'
  BY DEF TypeOK, StateInv, InitprocInv, UnusedInv, ParentLives, IndexInv,
         StillMyChild, ReparentInv, ExitSched, Goto, release
<1>9. WaitInv'
  BY DEF TypeOK, StateInv, InitprocInv, LockInv, OrigInv, WithParents, WithOwn,
         HasOrig, WaitInv, ExitSched, Goto, release
<1>10. KilledAwake'
  BY DEF TypeOK, KilledAwake, ExitSched, Goto, release
<1> QED BY <1>1, <1>2, <1>3, <1>4, <1>5, <1>6, <1>7, <1>8, <1>9, <1>10

LEMMA WaitEnterStep ==
  ASSUME IInv, NEW s \in Slot, WaitEnter(s)
  PROVE  IInv'
<1> USE Constants DEF IInv
<1>1. TypeOK'
  BY DEF TypeOK, Labels, States, WaitEnter, Goto
<1>2. StateInv'
  BY DEF TypeOK, States, StateInv, LockInv, WithOwn, IndexInv, InitprocInv,
         WaitEnter, Goto
<1>3. InitprocInv'
  BY DEF TypeOK, InitprocInv, StateInv, UnusedInv, StillMyChild, WaitEnter,
         Goto
<1>4. LockInv'
  BY DEF TypeOK, StateInv, LockInv, OrigInv, IndexInv, HasOrig, WithParents,
         WithOwn, WaitEnter, Goto
<1>5. OrigInv'
  BY DEF TypeOK, StateInv, OrigInv, HasOrig, InitprocInv, ParentLives,
         StillMyChild, UnusedInv, WaitEnter, Goto
<1>6. UnusedInv' /\ ParentLives'
  BY DEF TypeOK, StateInv, InitprocInv, UnusedInv, ParentLives, Live,
         ReparentInv, IndexInv, StillMyChild, WaitEnter, Goto
<1>7. NoCircle'
  BY DEF NoCircle, WaitEnter, Goto
<1>8. IndexInv' /\ StillMyChild' /\ ReparentInv'
  BY DEF TypeOK, StateInv, InitprocInv, UnusedInv, ParentLives, IndexInv,
         StillMyChild, ReparentInv, WaitEnter, Goto
<1>9. WaitInv'
  BY DEF TypeOK, StateInv, InitprocInv, LockInv, OrigInv, WithParents, WithOwn,
         HasOrig, WaitInv, WaitEnter, Goto
<1>10. KilledAwake'
  BY DEF TypeOK, KilledAwake, WaitEnter, Goto
<1> QED BY <1>1, <1>2, <1>3, <1>4, <1>5, <1>6, <1>7, <1>8, <1>9, <1>10

LEMMA WaitLockStep ==
  ASSUME IInv, NEW s \in Slot, WaitLock(s)
  PROVE  IInv'
<1> USE Constants DEF IInv
<1>1. TypeOK'
  BY DEF TypeOK, Labels, States, WaitLock, Goto, acquire
<1>2. StateInv'
  BY DEF TypeOK, States, StateInv, LockInv, WithOwn, IndexInv, InitprocInv,
         WaitLock, Goto, acquire
<1>3. InitprocInv'
  BY DEF TypeOK, InitprocInv, StateInv, UnusedInv, StillMyChild, WaitLock,
         Goto, acquire
<1>4. LockInv'
  BY DEF TypeOK, StateInv, LockInv, OrigInv, IndexInv, HasOrig, WithParents,
         WithOwn, WaitLock, Goto, acquire
<1>5. OrigInv'
  BY DEF TypeOK, StateInv, OrigInv, HasOrig, InitprocInv, ParentLives,
         StillMyChild, UnusedInv, WaitLock, Goto, acquire
<1>6. UnusedInv' /\ ParentLives'
  BY DEF TypeOK, StateInv, InitprocInv, UnusedInv, ParentLives, Live,
         ReparentInv, IndexInv, StillMyChild, WaitLock, Goto, acquire
<1>7. NoCircle'
  BY DEF NoCircle, WaitLock, Goto, acquire
<1>8. IndexInv' /\ StillMyChild' /\ ReparentInv'
  BY DEF TypeOK, StateInv, InitprocInv, UnusedInv, ParentLives, IndexInv,
         StillMyChild, ReparentInv, WaitLock, Goto, acquire
<1>9. WaitInv'
  <2>1. \A c \in Slot : ~(c < 1)
    BY DEF Slot
  <2> QED BY <2>1 DEF TypeOK, WaitInv, WaitLock, Goto, acquire
<1>10. KilledAwake'
  BY DEF TypeOK, KilledAwake, WaitLock, Goto, acquire
<1> QED BY <1>1, <1>2, <1>3, <1>4, <1>5, <1>6, <1>7, <1>8, <1>9, <1>10

LEMMA WaitCheckStep ==
  ASSUME IInv, NEW s \in Slot, WaitCheck(s)
  PROVE  IInv'
<1> USE Constants DEF IInv
<1>1. TypeOK'
  BY DEF TypeOK, Labels, States, WaitCheck, Goto
<1>2. StateInv'
  BY DEF TypeOK, States, StateInv, LockInv, WithOwn, IndexInv, InitprocInv,
         WaitCheck, Goto
<1>3. InitprocInv'
  BY DEF TypeOK, InitprocInv, StateInv, UnusedInv, StillMyChild, WaitCheck,
         Goto
<1>4. LockInv'
  BY DEF TypeOK, StateInv, LockInv, OrigInv, IndexInv, HasOrig, WithParents,
         WithOwn, WaitCheck, Goto
<1>5. OrigInv'
  BY DEF TypeOK, StateInv, OrigInv, HasOrig, InitprocInv, ParentLives,
         StillMyChild, UnusedInv, WaitCheck, Goto
<1>6. UnusedInv' /\ ParentLives'
  BY DEF TypeOK, StateInv, InitprocInv, UnusedInv, ParentLives, Live,
         ReparentInv, IndexInv, StillMyChild, WaitCheck, Goto
<1>7. NoCircle'
  BY DEF NoCircle, WaitCheck, Goto
<1>8. IndexInv' /\ StillMyChild' /\ ReparentInv'
  BY DEF TypeOK, StateInv, InitprocInv, UnusedInv, ParentLives, IndexInv,
         StillMyChild, ReparentInv, WaitCheck, Goto
<1>9. WaitInv'
  <2>1. k[s] \in Slot
    BY DEF IndexInv, WaitCheck, Goto
  <2>2. \A c \in Slot : c < k[s] + 1 => c < k[s] \/ c = k[s]
    BY <2>1 DEF Slot
  <2> QED BY <2>1, <2>2 DEF TypeOK, WaitInv, WaitCheck, Goto
<1>10. KilledAwake'
  BY DEF TypeOK, KilledAwake, WaitCheck, Goto
<1> QED BY <1>1, <1>2, <1>3, <1>4, <1>5, <1>6, <1>7, <1>8, <1>9, <1>10

LEMMA WaitNotYetStep ==
  ASSUME IInv, NEW s \in Slot, WaitNotYet(s)
  PROVE  IInv'
<1> USE Constants DEF IInv
<1>1. TypeOK'
  <2>1. k[s] + 1 \in 1 .. NPROC + 1
    BY DEF IndexInv, WaitNotYet, Goto
  <2> QED BY <2>1 DEF TypeOK, Labels, WaitNotYet, Goto
<1>2. StateInv'
  BY DEF TypeOK, States, StateInv, LockInv, WithOwn, IndexInv, InitprocInv,
         WaitNotYet, Goto
<1>3. InitprocInv'
  BY DEF TypeOK, InitprocInv, StateInv, UnusedInv, StillMyChild, WaitNotYet,
         Goto
<1>4. LockInv'
  BY DEF TypeOK, StateInv, LockInv, OrigInv, IndexInv, HasOrig, WithParents,
         WithOwn, WaitNotYet, Goto
<1>5. OrigInv'
  BY DEF TypeOK, StateInv, OrigInv, HasOrig, InitprocInv, ParentLives,
         StillMyChild, UnusedInv, WaitNotYet, Goto
<1>6. UnusedInv' /\ ParentLives'
  BY DEF TypeOK, StateInv, InitprocInv, UnusedInv, ParentLives, Live,
         ReparentInv, IndexInv, StillMyChild, WaitNotYet, Goto
<1>7. NoCircle'
  BY DEF NoCircle, WaitNotYet, Goto
<1>8. IndexInv' /\ StillMyChild' /\ ReparentInv'
  BY DEF TypeOK, StateInv, InitprocInv, UnusedInv, ParentLives, IndexInv,
         StillMyChild, ReparentInv, WaitNotYet, Goto
<1>9. WaitInv'
  <2>1. k[s] \in Slot
    BY DEF IndexInv, WaitNotYet, Goto
  <2>2. \A c \in Slot : c < k[s] + 1 => c < k[s] \/ c = k[s]
    BY <2>1 DEF Slot
  <2> QED BY <2>1, <2>2 DEF TypeOK, WaitInv, WaitNotYet, Goto
<1>10. KilledAwake'
  BY DEF TypeOK, KilledAwake, WaitNotYet, Goto
<1> QED BY <1>1, <1>2, <1>3, <1>4, <1>5, <1>6, <1>7, <1>8, <1>9, <1>10

LEMMA WaitReapStep ==
  ASSUME IInv, NEW s \in Slot, WaitReap(s)
  PROVE  IInv'
<1> USE Constants DEF IInv
<1>1. TypeOK'
  BY DEF TypeOK, Labels, States, WaitReap, LeaveWait, release
<1>2. StateInv'
  BY DEF TypeOK, States, StateInv, LockInv, WithOwn, IndexInv, InitprocInv,
         WaitReap, LeaveWait, release
<1>3. InitprocInv'
  BY DEF TypeOK, InitprocInv, StateInv, UnusedInv, StillMyChild, WaitReap,
         LeaveWait, release
<1>4. LockInv'
  BY DEF TypeOK, StateInv, LockInv, OrigInv, IndexInv, HasOrig, WithParents,
         WithOwn, WaitReap, LeaveWait, release
<1>5. OrigInv'
  <2>1. k[s] \in Slot
    BY DEF IndexInv, WaitReap
  <2>2. pc[k[s]] = "dead"
    BY <2>1 DEF StateInv, LockInv, WithOwn, OrigInv, HasOrig, WaitReap
  <2> QED BY <2>1, <2>2 DEF TypeOK, OrigInv, HasOrig, WaitReap
<1>6. UnusedInv' /\ ParentLives'
  BY DEF TypeOK, StateInv, InitprocInv, UnusedInv, ParentLives, Live,
         ReparentInv, IndexInv, StillMyChild, WaitReap, LeaveWait, release
<1>7. NoCircle'
  BY DEF NoCircle, WaitReap, LeaveWait, release
<1>8. IndexInv' /\ StillMyChild' /\ ReparentInv'
  BY DEF TypeOK, StateInv, InitprocInv, UnusedInv, ParentLives, IndexInv,
         StillMyChild, ReparentInv, WaitReap, LeaveWait, release
<1>9. WaitInv'
  BY DEF TypeOK, StateInv, InitprocInv, LockInv, OrigInv, WithParents, WithOwn,
         HasOrig, WaitInv, WaitReap, LeaveWait, release
<1>10. KilledAwake'
  BY DEF TypeOK, KilledAwake, WaitReap, LeaveWait, release
<1> QED BY <1>1, <1>2, <1>3, <1>4, <1>5, <1>6, <1>7, <1>8, <1>9, <1>10

LEMMA WaitCopyoutFailsStep ==
  ASSUME IInv, NEW s \in Slot, WaitCopyoutFails(s)
  PROVE  IInv'
<1> USE Constants DEF IInv
<1>1. TypeOK'
  BY DEF TypeOK, Labels, States, WaitCopyoutFails, Goto, LeaveWait, release
<1>2. StateInv'
  BY DEF TypeOK, States, StateInv, LockInv, WithOwn, IndexInv, InitprocInv,
         WaitCopyoutFails, Goto, LeaveWait, release
<1>3. InitprocInv'
  BY DEF TypeOK, InitprocInv, StateInv, UnusedInv, StillMyChild,
         WaitCopyoutFails, Goto, LeaveWait, release
<1>4. LockInv'
  BY DEF TypeOK, StateInv, LockInv, OrigInv, IndexInv, HasOrig, WithParents,
         WithOwn, WaitCopyoutFails, Goto, LeaveWait, release
<1>5. OrigInv'
  BY DEF TypeOK, StateInv, OrigInv, HasOrig, InitprocInv, ParentLives,
         StillMyChild, UnusedInv, WaitCopyoutFails, Goto, LeaveWait, release
<1>6. UnusedInv' /\ ParentLives'
  BY DEF TypeOK, StateInv, InitprocInv, UnusedInv, ParentLives, Live,
         ReparentInv, IndexInv, StillMyChild, WaitCopyoutFails, Goto,
         LeaveWait, release
<1>7. NoCircle'
  BY DEF NoCircle, WaitCopyoutFails, Goto, LeaveWait, release
<1>8. IndexInv' /\ StillMyChild' /\ ReparentInv'
  BY DEF TypeOK, StateInv, InitprocInv, UnusedInv, ParentLives, IndexInv,
         StillMyChild, ReparentInv, WaitCopyoutFails, Goto, LeaveWait, release
<1>9. WaitInv'
  BY DEF TypeOK, StateInv, InitprocInv, LockInv, OrigInv, WithParents, WithOwn,
         HasOrig, WaitInv, WaitCopyoutFails, Goto, LeaveWait, release
<1>10. KilledAwake'
  BY DEF TypeOK, KilledAwake, WaitCopyoutFails, Goto, LeaveWait, release
<1> QED BY <1>1, <1>2, <1>3, <1>4, <1>5, <1>6, <1>7, <1>8, <1>9, <1>10

LEMMA WaitGiveUpStep ==
  ASSUME IInv, NEW s \in Slot, WaitGiveUp(s)
  PROVE  IInv'
<1> USE Constants DEF IInv
<1>1. TypeOK'
  BY DEF TypeOK, Labels, States, WaitGiveUp, Goto, LeaveWait, release
<1>2. StateInv'
  BY DEF TypeOK, States, StateInv, LockInv, WithOwn, IndexInv, InitprocInv,
         WaitGiveUp, Goto, LeaveWait, release
<1>3. InitprocInv'
  BY DEF TypeOK, InitprocInv, StateInv, UnusedInv, StillMyChild, WaitGiveUp,
         Goto, LeaveWait, release
<1>4. LockInv'
  BY DEF TypeOK, StateInv, LockInv, OrigInv, IndexInv, HasOrig, WithParents,
         WithOwn, WaitGiveUp, Goto, LeaveWait, release
<1>5. OrigInv'
  BY DEF TypeOK, StateInv, OrigInv, HasOrig, InitprocInv, ParentLives,
         StillMyChild, UnusedInv, WaitGiveUp, Goto, LeaveWait, release
<1>6. UnusedInv' /\ ParentLives'
  BY DEF TypeOK, StateInv, InitprocInv, UnusedInv, ParentLives, Live,
         ReparentInv, IndexInv, StillMyChild, WaitGiveUp, Goto, LeaveWait,
         release
<1>7. NoCircle'
  BY DEF NoCircle, WaitGiveUp, Goto, LeaveWait, release
<1>8. IndexInv' /\ StillMyChild' /\ ReparentInv'
  BY DEF TypeOK, StateInv, InitprocInv, UnusedInv, ParentLives, IndexInv,
         StillMyChild, ReparentInv, WaitGiveUp, Goto, LeaveWait, release
<1>9. WaitInv'
  BY DEF TypeOK, StateInv, InitprocInv, LockInv, OrigInv, WithParents, WithOwn,
         HasOrig, WaitInv, WaitGiveUp, Goto, LeaveWait, release
<1>10. KilledAwake'
  BY DEF TypeOK, KilledAwake, WaitGiveUp, Goto, LeaveWait, release
<1> QED BY <1>1, <1>2, <1>3, <1>4, <1>5, <1>6, <1>7, <1>8, <1>9, <1>10

LEMMA WaitSleepStep ==
  ASSUME IInv, NEW s \in Slot, WaitSleep(s)
  PROVE  IInv'
<1> USE Constants DEF IInv
<1>1. TypeOK'
  BY DEF TypeOK, Labels, States, WaitSleep, Goto, release
<1>2. StateInv'
  BY DEF TypeOK, States, StateInv, LockInv, WithOwn, IndexInv, InitprocInv,
         WaitSleep, Goto, release
<1>3. InitprocInv'
  BY DEF TypeOK, InitprocInv, StateInv, UnusedInv, StillMyChild, WaitSleep,
         Goto, release
<1>4. LockInv'
  BY DEF TypeOK, StateInv, LockInv, OrigInv, IndexInv, HasOrig, WithParents,
         WithOwn, WaitSleep, Goto, release
<1>5. OrigInv'
  BY DEF TypeOK, StateInv, OrigInv, HasOrig, InitprocInv, ParentLives,
         StillMyChild, UnusedInv, WaitSleep, Goto, release
<1>6. UnusedInv' /\ ParentLives'
  BY DEF TypeOK, StateInv, InitprocInv, UnusedInv, ParentLives, Live,
         ReparentInv, IndexInv, StillMyChild, WaitSleep, Goto, release
<1>7. NoCircle'
  BY DEF NoCircle, WaitSleep, Goto, release
<1>8. IndexInv' /\ StillMyChild' /\ ReparentInv'
  BY DEF TypeOK, StateInv, InitprocInv, UnusedInv, ParentLives, IndexInv,
         StillMyChild, ReparentInv, WaitSleep, Goto, release
<1>9. WaitInv'
  BY DEF TypeOK, StateInv, InitprocInv, LockInv, OrigInv, WithParents, WithOwn,
         HasOrig, WaitInv, WaitSleep, Goto, release
<1>10. KilledAwake'
  BY DEF TypeOK, KilledAwake, WaitSleep, Goto, release
<1> QED BY <1>1, <1>2, <1>3, <1>4, <1>5, <1>6, <1>7, <1>8, <1>9, <1>10

LEMMA KillStep ==
  ASSUME IInv, NEW s \in Slot, Kill(s)
  PROVE  IInv'
<1> USE Constants DEF IInv
<1>1. TypeOK'
  BY DEF TypeOK, Labels, States, Kill
<1>2. StateInv'
  BY DEF TypeOK, States, StateInv, LockInv, WithOwn, IndexInv, InitprocInv,
         Kill
<1>3. InitprocInv'
  BY DEF TypeOK, InitprocInv, StateInv, UnusedInv, StillMyChild, Kill
<1>4. LockInv'
  BY DEF TypeOK, StateInv, LockInv, OrigInv, IndexInv, HasOrig, WithParents,
         WithOwn, Kill
<1>5. OrigInv'
  BY DEF TypeOK, StateInv, OrigInv, HasOrig, InitprocInv, ParentLives,
         StillMyChild, UnusedInv, Kill
<1>6. UnusedInv' /\ ParentLives'
  BY DEF TypeOK, StateInv, InitprocInv, UnusedInv, ParentLives, Live,
         ReparentInv, IndexInv, StillMyChild, Kill
<1>7. NoCircle'
  BY DEF NoCircle, Kill
<1>8. IndexInv' /\ StillMyChild' /\ ReparentInv'
  BY DEF TypeOK, StateInv, InitprocInv, UnusedInv, ParentLives, IndexInv,
         StillMyChild, ReparentInv, Kill
<1>9. WaitInv'
  BY DEF TypeOK, StateInv, InitprocInv, LockInv, OrigInv, WithParents, WithOwn,
         HasOrig, WaitInv, Kill
<1>10. KilledAwake'
  BY DEF TypeOK, KilledAwake, Kill
<1> QED BY <1>1, <1>2, <1>3, <1>4, <1>5, <1>6, <1>7, <1>8, <1>9, <1>10

LEMMA InitIInv == Init => IInv
<1> SUFFICES ASSUME Init PROVE IInv
  OBVIOUS
<1> USE Constants
<1>1. TypeOK
  BY DEF Init, TypeOK, States, Labels
<1>2. StateInv /\ InitprocInv /\ LockInv /\ OrigInv
  BY DEF Init, StateInv, InitprocInv, LockInv, OrigInv, HasOrig, WithParents,
         WithOwn
<1>3. UnusedInv /\ ParentLives /\ NoCircle
  BY DEF Init, UnusedInv, ParentLives, NoCircle
<1>4. IndexInv /\ StillMyChild /\ ReparentInv /\ WaitInv /\ KilledAwake
  BY DEF Init, IndexInv, StillMyChild, ReparentInv, WaitInv, KilledAwake
<1> QED BY <1>1, <1>2, <1>3, <1>4 DEF IInv

LEMMA NextIInv == IInv /\ [Next]_vars => IInv'
<1> SUFFICES ASSUME IInv, [Next]_vars PROVE IInv'
  OBVIOUS
<1>1. CASE UNCHANGED vars
  BY <1>1 DEF vars, IInv, TypeOK, StateInv, InitprocInv, LockInv, OrigInv,
              UnusedInv, ParentLives, Live, NoCircle, IndexInv, StillMyChild,
              ReparentInv, WaitInv, KilledAwake
<1>2. ASSUME NEW s \in Slot, Exiting(s) PROVE IInv'
  BY <1>2, ExitWakeInitStep, ExitCopyParentStep, ExitLockParentStep,
     ExitLockSelfStep, ReparentCheckStep, ReparentChildStep, ExitZombieStep,
     ExitSchedStep
  DEF Exiting
<1>3. ASSUME NEW s \in Slot, Waiting(s) PROVE IInv'
  BY <1>3, WaitLockStep, WaitCheckStep, WaitNotYetStep, WaitReapStep,
     WaitCopyoutFailsStep, WaitGiveUpStep, WaitSleepStep
  DEF Waiting
<1> QED BY <1>1, <1>2, <1>3, ForkStep, ForkFailStep, RunStep, ExitEnterStep,
           WaitEnterStep, KillStep
        DEF Next

-----------------------------------------------------------------------------
(* In every reachable state of a process table of any size: where every    *)
(* thread is, who holds which lock, and who is whose parent.               *)
THEOREM Invariance == Spec => []IInv
BY InitIInv, NextIInv, PTL DEF Spec

(* Type correctness of the process table and of the threads' locals.       *)
THEOREM TypeCorrectness == Spec => []TypeOK
<1>1. IInv => TypeOK
  BY DEF IInv
<1> QED BY <1>1, Invariance, PTL

(* Every process but the first has, until wait() frees it, a parent that   *)
(* lives: reparent() misses no child, whatever exits and forks meanwhile.  *)
THEOREM ParentsLive == Spec => []ParentLives
<1>1. IInv => ParentLives
  BY DEF IInv
<1> QED BY <1>1, Invariance, PTL

(* What wait() and reparent() read of pp->parent before they take pp->lock *)
(* is still true after.                                                    *)
THEOREM ChildrenStay == Spec => []StillMyChild
<1>1. IInv => StillMyChild
  BY DEF IInv
<1> QED BY <1>1, Invariance, PTL

(* No killed process sleeps on in wait().                                  *)
THEOREM KilledWakesUp == Spec => []KilledAwake
<1>1. IInv => KilledAwake
  BY DEF IInv
<1> QED BY <1>1, Invariance, PTL

-----------------------------------------------------------------------------
(* What a step may never do                                                *)

(* wait() frees a zombie that has switched away for good, and nothing else *)
(* makes a slot UNUSED.                                                    *)
LEMMA OnlyReapFrees ==
  ASSUME IInv, [Next]_vars, NEW s \in Slot,
         state[s] # "UNUSED", state'[s] = "UNUSED"
  PROVE  pc[s] = "dead"
<1>1. PICK t \in Slot : WaitReap(t) /\ k[t] = s
  BY DEF IInv, TypeOK, Next, vars, Exiting, Waiting, Fork, ForkFail, Run,
         ExitEnter, ExitWakeInit, ExitCopyParent, ExitLockParent, ExitLockSelf,
         ReparentCheck, ReparentChild, ExitZombie, ExitSched, WaitEnter,
         WaitLock, WaitCheck, WaitNotYet, WaitReap, WaitCopyoutFails,
         WaitGiveUp, WaitSleep, Kill, wakeup1
<1> QED BY <1>1, Constants DEF IInv, StateInv, LockInv, WithOwn, WaitReap

(* freeproc() takes a process apart only when its thread has left its      *)
(* kernel stack and page table for good.                                   *)
THEOREM FreedWhenOffCpu == Spec => FreedOffCpu
<1>1. IInv /\ [Next]_vars
        => [\A s \in Slot : state[s] # "UNUSED" /\ state'[s] = "UNUSED"
                              => pc[s] = "dead"]_vars
  BY OnlyReapFrees
<1> QED BY <1>1, Invariance, PTL DEF Spec, FreedOffCpu

(* A process comes to sleep beside its zombie by one of three steps: it    *)
(* goes to sleep, the zombie becomes one, or the zombie becomes its child. *)
LEMMA OnlyInitMisses ==
  ASSUME IInv, [Next]_vars, NEW s \in Slot, NEW c \in Slot,
         Missed(s, c)', ~Missed(s, c)
  PROVE  s = initproc /\ (parent[c] # s \/ orig[c] # s)
<1> USE Constants DEF IInv
<1>1. parent'[c] = s /\ state'[c] = "ZOMBIE" /\ state'[s] = "SLEEPING"
  BY DEF Missed
<1>2. ASSUME NEW t \in Slot, WaitSleep(t)
      PROVE  s = initproc /\ (parent[c] # s \/ orig[c] # s)
  <2>1. \A q \in Slot : q < k[t]
    BY <1>2, NPROCAssumption DEF TypeOK, Slot, WaitSleep
  <2>2. state[c] = "ZOMBIE" /\ parent[c] = s
    BY <1>1, <1>2 DEF TypeOK, WaitSleep
  <2>3. s = t
    BY <1>1, <1>2, <2>2 DEF TypeOK, Missed, WaitSleep
  <2>4. pc[s] = "w_scan" /\ c < k[s]
    BY <1>2, <2>1, <2>3 DEF WaitSleep, Goto
  <2> QED BY <2>2, <2>4 DEF WaitInv
<1>3. ASSUME NEW t \in Slot, ExitZombie(t)
      PROVE  s = initproc /\ (parent[c] # s \/ orig[c] # s)
  <2>1. parent[c] = s /\ pc[t] = "x_scan"
    BY <1>1, <1>3 DEF ExitZombie, Goto
  <2>2. orig[t] # NULL /\ orig[t] \in Slot
    BY <2>1 DEF TypeOK, OrigInv, HasOrig
  <2>3. state[s] = "SLEEPING"
    BY <1>1, <1>3 DEF TypeOK, ExitZombie, wakeup1
  <2>4. c = t
    BY <1>1, <1>3, <2>1, <2>3 DEF TypeOK, Missed, ExitZombie, wakeup1
  <2>5. orig[c] # s
    BY <1>1, <1>3, <2>2, <2>4 DEF TypeOK, ExitZombie, wakeup1
  <2> QED BY <2>1, <2>2, <2>4, <2>5 DEF OrigInv
<1>4. ASSUME NEW t \in Slot, ReparentChild(t)
      PROVE  s = initproc /\ (parent[c] # s \/ orig[c] # s)
  <2>1. k[t] \in Slot /\ parent[k[t]] = t /\ t # initproc
    BY <1>4 DEF IndexInv, StillMyChild, InitprocInv, ReparentChild, Goto
  <2>2. c = k[t]
    BY <1>1, <1>4, <2>1 DEF TypeOK, Missed, ReparentChild
  <2> QED BY <1>1, <1>4, <2>1, <2>2 DEF TypeOK, ReparentChild
<1>5. CASE UNCHANGED vars
  BY <1>1, <1>5 DEF vars, Missed
<1>6. ASSUME NEW t \in Slot,
             \/ \E n \in Slot : Fork(t, n) \/ ForkFail(t, n)
             \/ Run(t) \/ ExitEnter(t) \/ ExitWakeInit(t) \/ ExitCopyParent(t)
             \/ ExitLockParent(t) \/ ExitLockSelf(t) \/ ReparentCheck(t)
             \/ ExitSched(t)
             \/ WaitEnter(t) \/ WaitLock(t) \/ WaitCheck(t) \/ WaitNotYet(t)
             \/ WaitReap(t) \/ WaitCopyoutFails(t) \/ WaitGiveUp(t)
             \/ Kill(t)
      PROVE  FALSE
  <2>1. /\ state'[c] = "ZOMBIE" => state[c] = "ZOMBIE"
        /\ state'[s] = "SLEEPING" => state[s] = "SLEEPING"
    BY <1>6 DEF TypeOK, Fork, ForkFail, Run, ExitEnter, ExitWakeInit,
                ExitCopyParent, ExitLockParent, ExitLockSelf, ReparentCheck,
                ExitSched, WaitEnter, WaitLock, WaitCheck, WaitNotYet,
                WaitReap, WaitCopyoutFails, WaitGiveUp, Kill, wakeup1
  <2>2. state'[c] = "ZOMBIE" /\ parent'[c] = s => parent[c] = s
    BY <1>6 DEF TypeOK, Fork, ForkFail, Run, ExitEnter, ExitWakeInit,
                ExitCopyParent, ExitLockParent, ExitLockSelf, ReparentCheck,
                ExitSched, WaitEnter, WaitLock, WaitCheck, WaitNotYet,
                WaitReap, WaitCopyoutFails, WaitGiveUp, Kill
  <2> QED BY <1>1, <2>1, <2>2 DEF Missed
<1> QED
  BY <1>2, <1>3, <1>4, <1>5, <1>6 DEF Next, Exiting, Waiting

(* wait() and exit() lose no wakeup between them: the only process that    *)
(* sleeps beside its zombie is the first, and only beside one that it was  *)
(* given by reparent().                                                    *)
THEOREM NoExitLost == Spec => NoLostExit
<1>1. IInv /\ [Next]_vars
        => [\A s, c \in Slot :
              Missed(s, c)' /\ ~Missed(s, c)
                => s = initproc /\ (parent[c] # s \/ orig[c] # s)]_vars
  BY OnlyInitMisses
<1> QED BY <1>1, Invariance, PTL DEF Spec, NoLostExit

-----------------------------------------------------------------------------
(* Deadlock                                                                *)

(* A process that spins for a lock inside a circle, and that is no orphan, *)
(* waits for its child, or for a child of the child it wants to lock.      *)
LEMMA WaitsForChild ==
  ASSUME IInv, NEW t \in Slot, NEW v \in Slot, NEW w \in Slot,
         WaitsFor(w) = t, WaitsFor(t) = v, ~Orphaned(v)
  PROVE  \/ pc[t] = "x_self" /\ parent[v] = t
         \/ /\ pc[t] \in {"x_child", "w_child"}
            /\ k[t] \in Slot /\ parent[k[t]] = t
            /\ v = k[t] \/ parent[v] = k[t]
<1> USE Constants DEF IInv
<1>1. Wanted(w) \in Slot /\ lock[Wanted(w)] = t
  <2>1. Wanted(w) # NULL
    BY DEF WaitsFor
  <2> QED BY <2>1 DEF TypeOK, Wanted, WaitsFor, IndexInv
<1>2. pc[t] \in WithParents \cup WithOwn
  BY <1>1 DEF LockInv
<1>3. Wanted(t) \in Slot /\ lock[Wanted(t)] = v
  <2>1. Wanted(t) # NULL
    BY DEF WaitsFor
  <2> QED BY <2>1 DEF TypeOK, Wanted, WaitsFor, IndexInv
<1>4. pc[t] \in {"x_self", "x_child", "w_child"}
  BY <1>2, <1>3 DEF Wanted, WithParents, WithOwn
<1>5. v # Wanted(t) => parent[v] = Wanted(t)
  BY <1>3 DEF LockInv, Orphaned
<1>6. CASE pc[t] = "x_self"
  <2>1. Wanted(t) = t
    BY <1>6 DEF Wanted
  <2>2. v # t
    BY <1>3, <1>6, <2>1 DEF LockInv, OrigInv, WithOwn
  <2> QED BY <1>5, <1>6, <2>1, <2>2
<1>7. CASE pc[t] \in {"x_child", "w_child"}
  <2>1. Wanted(t) = k[t]
    BY <1>7 DEF Wanted
  <2> QED BY <1>5, <1>7, <2>1 DEF IndexInv, StillMyChild
<1> QED BY <1>4, <1>6, <1>7

(* Processes that wait for each other in a circle have an orphan among     *)
(* them: without one, each would wait for a descendant of its own.         *)
LEMMA NoCircleWithoutOrphan == IInv => OnlyOrphansInACircle
<1> SUFFICES ASSUME IInv, NEW S \in (SUBSET Slot) \ {{}},
                    \A s \in S : WaitsFor(s) \in S,
                    \A s \in S : ~Orphaned(s)
             PROVE  FALSE
  BY DEF OnlyOrphansInACircle
<1> DEFINE T == {WaitsFor(s) : s \in S}
           Mid == {u \in Slot : \E t \in T : /\ pc[t] \in {"x_child", "w_child"}
                                             /\ u = k[t]}
           U == T \cup Mid
<1>1. /\ T \subseteq S /\ T # {}
      /\ \A t \in T : WaitsFor(t) \in T
  OBVIOUS
<1>2. ASSUME NEW t \in T
      PROVE  LET v == WaitsFor(t) IN
             \/ pc[t] = "x_self" /\ parent[v] = t
             \/ /\ pc[t] \in {"x_child", "w_child"}
                /\ k[t] \in Slot /\ parent[k[t]] = t
                /\ v = k[t] \/ parent[v] = k[t]
  <2>1. PICK w \in S : WaitsFor(w) = t
    OBVIOUS
  <2> QED BY <1>1, <2>1, WaitsForChild
<1>3. ASSUME NEW u \in T PROVE \E c \in U : parent[c] = u
  <2>1. CASE pc[u] = "x_self"
    BY <1>1, <1>2, <2>1
  <2>2. CASE pc[u] \in {"x_child", "w_child"}
    <3>1. k[u] \in Mid /\ parent[k[u]] = u
      BY <1>2, <2>2
    <3> QED BY <3>1
  <2> QED BY <1>2, <2>1, <2>2
<1>4. ASSUME NEW u \in Mid PROVE \E c \in U : parent[c] = u
  <2>1. PICK t \in T : pc[t] \in {"x_child", "w_child"} /\ u = k[t]
    OBVIOUS
  <2>2. WaitsFor(t) \in T /\ (WaitsFor(t) = u \/ parent[WaitsFor(t)] = u)
    BY <1>1, <1>2, <2>1
  <2> QED BY <1>3, <2>2
<1>5. U \in (SUBSET Slot) \ {{}}
  BY <1>1
<1>6. \A u \in U : \E c \in U : parent[c] = u
  BY <1>3, <1>4
<1> HIDE DEF U
<1> QED BY <1>5, <1>6 DEF IInv, NoCircle

(* A deadlock over p->locks needs an exiting process that locked the slot  *)
(* of a parent it no longer has: parent-then-child keeps all others safe.  *)
THEOREM DeadlockNeedsOrphan == Spec => []OnlyOrphansInACircle
BY NoCircleWithoutOrphan, Invariance, PTL
==============================================================================
