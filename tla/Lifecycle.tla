----------------------------- MODULE Lifecycle ------------------------------
(***************************************************************************)
(* fork(), exit(), wait() and kill() of Lab4/kernel/proc.c over the table  *)
(* proc[NPROC], with the per-process locks they take and the order they    *)
(* take them in.                                                           *)
(*                                                                         *)
(* A slot of the table is named by its index, and so is the process in it  *)
(* and that process's kernel thread.  There are as many CPUs as needed: a  *)
(* RUNNABLE process may always be picked up.  A critical section inside    *)
(* which no further p->lock is taken is one step, guarded by that lock     *)
(* being free.  Only wait() sleeps.                                        *)
(***************************************************************************)
EXTENDS Integers

CONSTANTS
  NPROC,     \* slots of the process table
  Killable,  \* the slots that kill() hits in this instance
  NULL       \* no process

ASSUME NPROCAssumption     == NPROC \in Nat \ {0}
ASSUME NULLAssumption      == NULL \notin Nat

Slot == 1 .. NPROC
initproc == 1 \* userinit() runs first and gets the first slot

(* Killing the first process stops the system: "init exiting".             *)
ASSUME KillableAssumption  == Killable \subseteq Slot \ {initproc}

VARIABLES
  state,    \* p->state
  parent,   \* p->parent
  killed,   \* p->killed
  lock,     \* p->lock: the process that holds it, or NULL
  pc,       \* where the kernel thread of each process is
  k,        \* the loop index (np, pp) of wait() and reparent()
  havekids, \* wait()'s local
  orig      \* exit()'s local original_parent, kept as long as the zombie

vars == <<state, parent, killed, lock, pc, k, havekids, orig>>

(* userinit() has made the first process.                                  *)
Init ==
  /\ state = [s \in Slot |-> IF s = initproc THEN "RUNNABLE" ELSE "UNUSED"]
  /\ parent = [s \in Slot |-> NULL]
  /\ killed = [s \in Slot |-> FALSE]
  /\ lock = [s \in Slot |-> NULL]
  /\ pc = [s \in Slot |-> IF s = initproc THEN "new" ELSE "none"]
  /\ k = [s \in Slot |-> 1]
  /\ havekids = [s \in Slot |-> FALSE]
  /\ orig = [s \in Slot |-> NULL]

Goto(s, from, to) ==
  /\ pc[s] = from
  /\ pc' = [pc EXCEPT ![s] = to]

acquire(l, s) ==
  /\ lock[l] = NULL
  /\ lock' = [lock EXCEPT ![l] = s]

release(l) == lock' = [lock EXCEPT ![l] = NULL]

(* wakeup1(q), with q's lock held: q is asleep in wait().                  *)
wakeup1(q) ==
  IF state[q] = "SLEEPING" THEN [state EXCEPT ![q] = "RUNNABLE"] ELSE state

-----------------------------------------------------------------------------
(* fork()                                                                  *)

(* allocproc() finds slot n UNUSED; the child is RUNNABLE when n's lock is *)
(* released.  The flag p->killed is left as it was in the slot.            *)
Fork(s, n) ==
  /\ pc[s] = "user"
  /\ ~killed[s]
  /\ state[n] = "UNUSED" /\ lock[n] = NULL
  /\ state' = [state EXCEPT ![n] = "RUNNABLE"]
  /\ parent' = [parent EXCEPT ![n] = s]
  /\ pc' = [pc EXCEPT ![n] = "new"]
  /\ UNCHANGED <<killed, lock, k, havekids, orig>>

(* An allocation fails after the trapframe's: freeproc(n), fork() is -1.   *)
ForkFail(s, n) ==
  /\ pc[s] = "user"
  /\ ~killed[s]
  /\ state[n] = "UNUSED" /\ lock[n] = NULL
  /\ killed' = [killed EXCEPT ![n] = FALSE]
  /\ UNCHANGED <<state, parent, lock, pc, k, havekids, orig>>

(* scheduler() switches to s, which releases its lock in forkret() or goes *)
(* on with it in wait()'s loop.                                            *)
Run(s) ==
  /\ state[s] = "RUNNABLE" /\ lock[s] = NULL
  /\ state' = [state EXCEPT ![s] = "RUNNING"]
  /\ \/ /\ Goto(s, "new", "user")
        /\ UNCHANGED <<lock, k, havekids>>
     \/ /\ Goto(s, "w_sleep", "w_scan")
        /\ lock' = [lock EXCEPT ![s] = s]
        /\ k' = [k EXCEPT ![s] = 1]
        /\ havekids' = [havekids EXCEPT ![s] = FALSE]
  /\ UNCHANGED <<parent, killed, orig>>

-----------------------------------------------------------------------------
(* exit()                                                                  *)

(* The process calls exit(), or a trap finds it killed.                    *)
ExitEnter(s) ==
  /\ s # initproc
  /\ Goto(s, "user", "x_wakeinit")
  /\ UNCHANGED <<state, parent, killed, lock, k, havekids, orig>>

(* acquire(&initproc->lock); wakeup1(initproc); release                    *)
ExitWakeInit(s) ==
  /\ Goto(s, "x_wakeinit", "x_copy")
  /\ lock[initproc] = NULL
  /\ state' = wakeup1(initproc)
  /\ UNCHANGED <<parent, killed, lock, k, havekids, orig>>

(* Mutant: p->lock is kept while the parent's is taken.                    *)
ExitCopyParent_KeepLock(s) ==
  /\ Goto(s, "x_copy", "x_parent")
  /\ acquire(s, s)
  /\ orig' = [orig EXCEPT ![s] = parent[s]]
  /\ UNCHANGED <<state, parent, killed, k, havekids>>

(* acquire(&p->lock); original_parent = p->parent; release                 *)
ExitCopyParent(s) ==
  /\ Goto(s, "x_copy", "x_parent")
  /\ lock[s] = NULL
  /\ orig' = [orig EXCEPT ![s] = parent[s]]
  /\ UNCHANGED <<state, parent, killed, lock, k, havekids>>

(* Mutant: the parent is woken up without its lock.                        *)
ExitLockParent_NoLock(s) ==
  /\ Goto(s, "x_parent", "x_self")
  /\ UNCHANGED <<state, parent, killed, lock, k, havekids, orig>>

ExitLockParent(s) ==
  /\ Goto(s, "x_parent", "x_self")
  /\ acquire(orig[s], s)
  /\ UNCHANGED <<state, parent, killed, k, havekids, orig>>

ExitLockSelf(s) ==
  /\ Goto(s, "x_self", "x_scan")
  /\ acquire(s, s)
  /\ k' = [k EXCEPT ![s] = 1]
  /\ UNCHANGED <<state, parent, killed, havekids, orig>>

(* Mutant: reparent(original_parent).                                      *)
ReparentCheck_OfParent(s) ==
  /\ k[s] \in Slot
  /\ IF parent[k[s]] = orig[s]
     THEN Goto(s, "x_scan", "x_child") /\ UNCHANGED k
     ELSE Goto(s, "x_scan", "x_scan") /\ k' = [k EXCEPT ![s] = @ + 1]
  /\ UNCHANGED <<state, parent, killed, lock, havekids, orig>>

(* reparent(): the check of pp->parent, without pp->lock.                  *)
ReparentCheck(s) ==
  /\ k[s] \in Slot
  /\ IF parent[k[s]] = s
     THEN Goto(s, "x_scan", "x_child") /\ UNCHANGED k
     ELSE Goto(s, "x_scan", "x_scan") /\ k' = [k EXCEPT ![s] = @ + 1]
  /\ UNCHANGED <<state, parent, killed, lock, havekids, orig>>

(* Mutant: the slot after a child's is skipped.                            *)
ReparentChild_SkipNext(s) ==
  /\ Goto(s, "x_child", "x_scan")
  /\ lock[k[s]] = NULL
  /\ parent' = [parent EXCEPT ![k[s]] = initproc]
  /\ k' = [k EXCEPT ![s] = IF @ < NPROC THEN @ + 2 ELSE @ + 1]
  /\ UNCHANGED <<state, killed, lock, havekids, orig>>

(* acquire(&pp->lock); pp->parent = initproc; release                      *)
ReparentChild(s) ==
  /\ Goto(s, "x_child", "x_scan")
  /\ lock[k[s]] = NULL
  /\ parent' = [parent EXCEPT ![k[s]] = initproc]
  /\ k' = [k EXCEPT ![s] = @ + 1]
  /\ UNCHANGED <<state, killed, lock, havekids, orig>>

(* Mutant: p->lock is released before sched().                             *)
ExitZombie_Unlock(s) ==
  /\ k[s] \notin Slot
  /\ Goto(s, "x_scan", "x_sched")
  /\ state' = [wakeup1(orig[s]) EXCEPT ![s] = "ZOMBIE"]
  /\ lock' = [lock EXCEPT ![orig[s]] = NULL, ![s] = NULL]
  /\ UNCHANGED <<parent, killed, k, havekids, orig>>

(* wakeup1(original_parent); ZOMBIE; release(&original_parent->lock)       *)
ExitZombie(s) ==
  /\ k[s] \notin Slot
  /\ Goto(s, "x_scan", "x_sched")
  /\ state' = [wakeup1(orig[s]) EXCEPT ![s] = "ZOMBIE"]
  /\ release(orig[s])
  /\ UNCHANGED <<parent, killed, k, havekids, orig>>

(* sched(): the CPU leaves the thread's stack, then scheduler() releases   *)
(* p->lock.                                                                *)
ExitSched(s) ==
  /\ Goto(s, "x_sched", "dead")
  /\ release(s)
  /\ k' = [k EXCEPT ![s] = 1]
  /\ UNCHANGED <<state, parent, killed, havekids, orig>>

-----------------------------------------------------------------------------
(* wait()                                                                  *)

WaitEnter(s) ==
  /\ ~killed[s]
  /\ Goto(s, "user", "w_lock")
  /\ UNCHANGED <<state, parent, killed, lock, k, havekids, orig>>

WaitLock(s) ==
  /\ Goto(s, "w_lock", "w_scan")
  /\ acquire(s, s)
  /\ k' = [k EXCEPT ![s] = 1]
  /\ havekids' = [havekids EXCEPT ![s] = FALSE]
  /\ UNCHANGED <<state, parent, killed, orig>>

(* The check of np->parent, without np->lock.                              *)
WaitCheck(s) ==
  /\ k[s] \in Slot
  /\ IF parent[k[s]] = s
     THEN Goto(s, "w_scan", "w_child") /\ UNCHANGED k
     ELSE Goto(s, "w_scan", "w_scan") /\ k' = [k EXCEPT ![s] = @ + 1]
  /\ UNCHANGED <<state, parent, killed, lock, havekids, orig>>

(* Under the child's lock: it has not exited, look further.                *)
WaitNotYet(s) ==
  /\ Goto(s, "w_child", "w_scan")
  /\ lock[k[s]] = NULL /\ state[k[s]] # "ZOMBIE"
  /\ havekids' = [havekids EXCEPT ![s] = TRUE]
  /\ k' = [k EXCEPT ![s] = @ + 1]
  /\ UNCHANGED <<state, parent, killed, lock, orig>>

(* Release the lock and return; the locals are gone.                       *)
LeaveWait(s) ==
  /\ release(s)
  /\ k' = [k EXCEPT ![s] = 1]
  /\ havekids' = [havekids EXCEPT ![s] = FALSE]

(* Under the child's lock: it is a zombie, freeproc(np) and return.        *)
WaitReap(s) ==
  /\ pc[s] = "w_child"
  /\ lock[k[s]] = NULL /\ state[k[s]] = "ZOMBIE"
  /\ state' = [state EXCEPT ![k[s]] = "UNUSED"]
  /\ parent' = [parent EXCEPT ![k[s]] = NULL]
  /\ killed' = [killed EXCEPT ![k[s]] = FALSE]
  /\ pc' = [pc EXCEPT ![s] = "user", ![k[s]] = "none"]
  /\ orig' = [orig EXCEPT ![k[s]] = NULL]
  /\ LeaveWait(s)

(* The exit status cannot be copied out: return -1, the child stays.       *)
WaitCopyoutFails(s) ==
  /\ Goto(s, "w_child", "user")
  /\ lock[k[s]] = NULL /\ state[k[s]] = "ZOMBIE"
  /\ LeaveWait(s)
  /\ UNCHANGED <<state, parent, killed, orig>>

(* No children, or killed: return -1.                                      *)
WaitGiveUp(s) ==
  /\ k[s] \notin Slot
  /\ ~havekids[s] \/ killed[s]
  /\ Goto(s, "w_scan", "user")
  /\ LeaveWait(s)
  /\ UNCHANGED <<state, parent, killed, orig>>

(* sleep(p, &p->lock): scheduler() releases the lock once s is off its CPU.*)
WaitSleep(s) ==
  /\ k[s] \notin Slot
  /\ havekids[s] /\ ~killed[s]
  /\ Goto(s, "w_scan", "w_sleep")
  /\ state' = [state EXCEPT ![s] = "SLEEPING"]
  /\ release(s)
  /\ UNCHANGED <<parent, killed, k, havekids, orig>>

-----------------------------------------------------------------------------
(* Mutant: kill() does not wake up its victim.                             *)
Kill_NoWake(t) ==
  /\ t \in Killable
  /\ lock[t] = NULL
  /\ killed' = [killed EXCEPT ![t] = TRUE]
  /\ UNCHANGED <<state, parent, lock, pc, k, havekids, orig>>

(* kill(pid), where slot t is the first with that pid.  The state of the   *)
(* slot is not looked at: an UNUSED one has pid 0, or the pid of a fork()  *)
(* that failed to get a trapframe, and is marked too.                      *)
Kill(t) ==
  /\ t \in Killable
  /\ lock[t] = NULL
  /\ killed' = [killed EXCEPT ![t] = TRUE]
  /\ state' = IF state[t] = "SLEEPING"
              THEN [state EXCEPT ![t] = "RUNNABLE"] ELSE state
  /\ UNCHANGED <<parent, lock, pc, k, havekids, orig>>

-----------------------------------------------------------------------------
Exiting(s) ==
  \/ ExitWakeInit(s) \/ ExitCopyParent(s)
  \/ ExitLockParent(s) \/ ExitLockSelf(s)
  \/ ReparentCheck(s) \/ ReparentChild(s)
  \/ ExitZombie(s) \/ ExitSched(s)

Waiting(s) ==
  \/ WaitLock(s) \/ WaitCheck(s) \/ WaitNotYet(s)
  \/ WaitReap(s) \/ WaitCopyoutFails(s)
  \/ WaitGiveUp(s) \/ WaitSleep(s)

Next ==
  \E s \in Slot :
    \/ \E n \in Slot : Fork(s, n) \/ ForkFail(s, n)
    \/ Run(s)
    \/ ExitEnter(s) \/ Exiting(s)
    \/ WaitEnter(s) \/ Waiting(s)
    \/ Kill(s)

Spec == Init /\ [][Next]_vars

-----------------------------------------------------------------------------
Labels == {"none", "new", "user", "x_wakeinit", "x_copy", "x_parent",
           "x_self", "x_scan", "x_child", "x_sched", "dead", "w_lock",
           "w_scan", "w_child", "w_sleep"}

States == {"UNUSED", "SLEEPING", "RUNNABLE", "RUNNING", "ZOMBIE"}

(* Every variable has its type.                                            *)
TypeOK ==
  /\ state \in [Slot -> States]
  /\ parent \in [Slot -> Slot \cup {NULL}]
  /\ killed \in [Slot -> BOOLEAN]
  /\ lock \in [Slot -> Slot \cup {NULL}]
  /\ pc \in [Slot -> Labels]
  /\ k \in [Slot -> 1 .. NPROC + 1]
  /\ havekids \in [Slot -> BOOLEAN]
  /\ orig \in [Slot -> Slot \cup {NULL}]

Live(s) == state[s] \notin {"UNUSED", "ZOMBIE"}

(* Every process but the first, dead or alive, has a living parent that    *)
(* can wait() for it: exit() gives its children away before it is a        *)
(* zombie, whoever else exits or waits meanwhile.                          *)
ParentLives ==
  \A s \in Slot \ {initproc} :
    state[s] # "UNUSED" => parent[s] # NULL /\ Live(parent[s])

(* "pp->parent can't change between the check and the acquire()"           *)
(* (proc.c:361 and 461): the child a loop of wait() or reparent() is about *)
(* to lock is still its child.                                             *)
StillMyChild ==
  \A s \in Slot : pc[s] \in {"x_child", "w_child"} => parent[k[s]] = s

(* Process s sleeps in wait() while c is its zombie.                       *)
Missed(s, c) ==
  parent[c] = s /\ state[c] = "ZOMBIE" /\ state[s] = "SLEEPING"

(* "avoid lost wakeups from a child's exit()" (proc.c:449): a process      *)
(* never sleeps beside its zombie.  Only the first may, "init may miss     *)
(* this wakeup" (proc.c:402), when it is given a zombie, or when a child   *)
(* that it was given while exiting wakes up the old parent instead: never  *)
(* beside one that had it as its parent when it exited.                    *)
NoLostExit ==
  [][\A s, c \in Slot :
       Missed(s, c)' /\ ~Missed(s, c)
         => s = initproc /\ (parent[c] # s \/ orig[c] # s)]_vars

(* A killed process does not sleep on in wait(): wait() tests p->killed    *)
(* and goes to sleep under the lock that kill() needs, and kill() wakes up *)
(* a sleeper (proc.c:680 and 483).                                         *)
KilledAwake == \A s \in Slot : killed[s] => state[s] # "SLEEPING"

(* freeproc() takes a process apart only when its thread has left its      *)
(* kernel stack and page table for good.                                   *)
FreedOffCpu ==
  [][\A s \in Slot :
       state[s] # "UNUSED" /\ state'[s] = "UNUSED" => pc[s] = "dead"]_vars

(* The lock a process is spinning for, and the process that has it.        *)
Wanted(s) ==
  CASE pc[s] = "x_wakeinit" -> initproc
    [] pc[s] \in {"x_copy", "x_self", "w_lock"} -> s
    [] pc[s] = "x_parent" -> orig[s]
    [] pc[s] \in {"x_child", "w_child"} -> k[s]
    [] OTHER -> NULL

WaitsFor(s) == IF Wanted(s) = NULL THEN NULL ELSE lock[Wanted(s)]

(* s exits, and the parent it remembers is no longer its own.              *)
Orphaned(s) == orig[s] # NULL /\ orig[s] # parent[s]

(* "parent-then-child" (proc.c:419): processes that spin for p->locks in a *)
(* circle, each for one that the next one holds, have among them an        *)
(* exiting one that took the lock of a slot that is no longer its parent's,*)
(* "a harmless spurious wakeup to a dead or wrong process" (proc.c:411).   *)
OnlyOrphansInACircle ==
  \A S \in (SUBSET Slot) \ {{}} :
    (\A s \in S : WaitsFor(s) \in S) => \E s \in S : Orphaned(s)
=============================================================================
