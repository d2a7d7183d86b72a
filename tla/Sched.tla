------------------------------- MODULE Sched --------------------------------
(***************************************************************************)
(* CPUs, scheduler() and swtch(), yield(), sleep() and wakeup() of         *)
(* Lab4/kernel/proc.c, with the switch between the kernel's page table and *)
(* a process's own.  The sleepers are processes in sys_sleep()             *)
(* (Lab2/kernel/sysproc.c), woken up by the clock interrupt of the first   *)
(* CPU.                                                                    *)
(*                                                                         *)
(* A spin lock is held by a CPU: p->lock is taken on one side of swtch()   *)
(* and released on the other.  A CPU that holds a lock takes no interrupt. *)
(* Processes are preempted in user mode.  What fork(), exit() and wait()   *)
(* do beyond the one slot they change is in Lifecycle.                     *)
(***************************************************************************)
EXTENDS Integers

CONSTANTS
  NCPU,    \* CPUs
  NPROC,   \* slots of the process table
  Naps,    \* the arguments of sys_sleep(), in ticks
  Sleepers,\* the slots whose process calls it
  Mortal,  \* the slots whose process may exit or be killed
  NULL     \* no CPU, no process

CPU  == 1 .. NCPU
Slot == 1 .. NPROC
clockCPU == 1

ASSUME NCPUAssumption   == NCPU \in Nat \ {0}
ASSUME NPROCAssumption  == NPROC \in Nat \ {0}
ASSUME NapsAssumption   == Naps \subseteq Nat \ {0}
ASSUME SleepersAssumption == Sleepers \subseteq Slot
ASSUME MortalAssumption == Mortal \subseteq 2 .. NPROC
ASSUME NULLAssumption   == NULL \notin Nat

VARIABLES
  state,    \* p->state
  killed,   \* p->killed
  lock,     \* p->lock: the CPU that holds it, or NULL
  tickslock,\* likewise
  left,     \* ticks that sys_sleep() still has to see: n - (ticks - ticks0)
  pc,       \* where the thread of each process is
  proc,     \* c->proc
  satp,     \* the process whose kernel page table the CPU uses, NULL: kernel's
  at,       \* scheduler()'s p
  cpc,      \* where scheduler() is on each CPU; "in": inside swtch()
  hpc,      \* where the clock interrupt handler is
  hk        \* its wakeup()'s p

vars == <<state, killed, lock, tickslock, left, pc,
          proc, satp, at, cpc, hpc, hk>>

(* The first process is there; every CPU enters scheduler().               *)
Init ==
  /\ state = [p \in Slot |-> IF p = 1 THEN "RUNNABLE" ELSE "UNUSED"]
  /\ killed = [p \in Slot |-> FALSE]
  /\ lock = [p \in Slot |-> NULL]
  /\ tickslock = NULL
  /\ left = [p \in Slot |-> 0]
  /\ pc = [p \in Slot |-> "forkret"]
  /\ proc = [c \in CPU |-> NULL]
  /\ satp = [c \in CPU |-> NULL]
  /\ at = [c \in CPU |-> 1]
  /\ cpc = [c \in CPU |-> "scan"]
  /\ hpc = "idle"
  /\ hk = 1

-----------------------------------------------------------------------------
(* scheduler()                                                             *)

(* CPU c executes its own instructions, not the interrupt handler's.       *)
OnCPU(c) == c # clockCPU \/ hpc = "idle"

Scheduling(c, label) == OnCPU(c) /\ cpc[c] = label

SchedAcquire(c) ==
  /\ Scheduling(c, "scan")
  /\ lock[at[c]] = NULL
  /\ lock' = [lock EXCEPT ![at[c]] = c]
  /\ cpc' = [cpc EXCEPT ![c] = "look"]
  /\ UNCHANGED <<state, killed, tickslock, left, pc, proc, satp, at, hpc, hk>>

(* release(&p->lock), on to the next slot; the outer loop starts again.    *)
ReleaseAndNext(c) ==
  /\ lock' = [lock EXCEPT ![at[c]] = NULL]
  /\ at' = [at EXCEPT ![c] = IF @ = NPROC THEN 1 ELSE @ + 1]
  /\ cpc' = [cpc EXCEPT ![c] = "scan"]

SchedSkip(c) ==
  /\ Scheduling(c, "look")
  /\ state[at[c]] # "RUNNABLE"
  /\ ReleaseAndNext(c)
  /\ UNCHANGED <<state, killed, tickslock, left, pc, proc, satp, hpc, hk>>

(* proc_kvminithart(), swtch()                                             *)
SchedSwitch(c) ==
  /\ Scheduling(c, "look")
  /\ state[at[c]] = "RUNNABLE"
  /\ state' = [state EXCEPT ![at[c]] = "RUNNING"]
  /\ proc' = [proc EXCEPT ![c] = at[c]]
  /\ satp' = [satp EXCEPT ![c] = at[c]]
  /\ cpc' = [cpc EXCEPT ![c] = "in"]
  /\ UNCHANGED <<killed, lock, tickslock, left, pc, at, hpc, hk>>

(* Mutant: the CPU stays on the process's page table.                      *)
SchedBack_KeepTable(c) ==
  /\ Scheduling(c, "back")
  /\ proc' = [proc EXCEPT ![c] = NULL]
  /\ cpc' = [cpc EXCEPT ![c] = "release"]
  /\ UNCHANGED <<state, killed, lock, tickslock, left, pc, satp, at, hpc, hk>>

(* swtch() has returned: kvminithart().                                    *)
SchedBack(c) ==
  /\ Scheduling(c, "back")
  /\ satp' = [satp EXCEPT ![c] = NULL]
  /\ proc' = [proc EXCEPT ![c] = NULL]
  /\ cpc' = [cpc EXCEPT ![c] = "release"]
  /\ UNCHANGED <<state, killed, lock, tickslock, left, pc, at, hpc, hk>>

(* Mutant: the search starts from the first slot again.                    *)
SchedRelease_Restart(c) ==
  /\ Scheduling(c, "release")
  /\ lock' = [lock EXCEPT ![at[c]] = NULL]
  /\ at' = [at EXCEPT ![c] = 1]
  /\ cpc' = [cpc EXCEPT ![c] = "scan"]
  /\ UNCHANGED <<state, killed, tickslock, left, pc, proc, satp, hpc, hk>>

SchedRelease(c) ==
  /\ Scheduling(c, "release")
  /\ ReleaseAndNext(c)
  /\ UNCHANGED <<state, killed, tickslock, left, pc, proc, satp, hpc, hk>>

-----------------------------------------------------------------------------
(* A process in the kernel, on CPU c                                       *)

Thread(c, p, label) ==
  /\ Scheduling(c, "in")
  /\ proc[c] = p
  /\ pc[p] = label

(* swtch() to the scheduler, which releases p->lock.                       *)
sched(c) == cpc' = [cpc EXCEPT ![c] = "back"]

(* forkret(), or the end of yield(): release(&p->lock), back to user mode. *)
Resume(c, p) ==
  /\ Thread(c, p, "forkret") \/ Thread(c, p, "yield")
  /\ lock' = [lock EXCEPT ![p] = NULL]
  /\ pc' = [pc EXCEPT ![p] = "user"]
  /\ UNCHANGED <<state, killed, tickslock, left, proc, satp, at, cpc, hpc, hk>>

(* Mutant: yield() does not hold p->lock across sched().                   *)
Yield_Unlocked(c, p) ==
  /\ Thread(c, p, "user") /\ ~killed[p]
  /\ lock[p] = NULL
  /\ state' = [state EXCEPT ![p] = "RUNNABLE"]
  /\ pc' = [pc EXCEPT ![p] = "yield"]
  /\ sched(c)
  /\ UNCHANGED <<killed, lock, tickslock, left, proc, satp, at, hpc, hk>>

(* A timer interrupt in user mode: yield().                                *)
Yield(c, p) ==
  /\ Thread(c, p, "user") /\ ~killed[p]
  /\ lock[p] = NULL
  /\ lock' = [lock EXCEPT ![p] = c]
  /\ state' = [state EXCEPT ![p] = "RUNNABLE"]
  /\ pc' = [pc EXCEPT ![p] = "yield"]
  /\ sched(c)
  /\ UNCHANGED <<killed, tickslock, left, proc, satp, at, hpc, hk>>

(* The end of exit(), of the process's will or because it was killed.      *)
Exit(c, p) ==
  /\ Thread(c, p, "user") /\ p \in Mortal
  /\ lock[p] = NULL
  /\ lock' = [lock EXCEPT ![p] = c]
  /\ state' = [state EXCEPT ![p] = "ZOMBIE"]
  /\ pc' = [pc EXCEPT ![p] = "dead"]
  /\ sched(c)
  /\ UNCHANGED <<killed, tickslock, left, proc, satp, at, hpc, hk>>

(* kill() of the process in slot t.                                        *)
Kill(c, p, t) ==
  /\ Thread(c, p, "user") /\ ~killed[p]
  /\ t \in Mortal /\ lock[t] = NULL
  /\ killed' = [killed EXCEPT ![t] = TRUE]
  /\ state' = IF state[t] = "SLEEPING"
              THEN [state EXCEPT ![t] = "RUNNABLE"] ELSE state
  /\ UNCHANGED <<lock, tickslock, left, pc, proc, satp, at, cpc, hpc, hk>>

(* fork(): allocproc() takes an UNUSED slot and makes a page table for it. *)
Fork(c, p, n) ==
  /\ Thread(c, p, "user") /\ ~killed[p]
  /\ state[n] = "UNUSED" /\ lock[n] = NULL
  /\ state' = [state EXCEPT ![n] = "RUNNABLE"]
  /\ pc' = [pc EXCEPT ![n] = "forkret"]
  /\ UNCHANGED <<killed, lock, tickslock, left, proc, satp, at, cpc, hpc, hk>>

(* wait() finds a zombie: freeproc(), which frees its page tables.         *)
Reap(c, p, z) ==
  /\ Thread(c, p, "user") /\ ~killed[p]
  /\ state[z] = "ZOMBIE" /\ lock[z] = NULL
  /\ state' = [state EXCEPT ![z] = "UNUSED"]
  /\ killed' = [killed EXCEPT ![z] = FALSE]
  /\ UNCHANGED <<lock, tickslock, left, pc, proc, satp, at, cpc, hpc, hk>>

-----------------------------------------------------------------------------
(* sys_sleep(n), and sleep(&ticks, &tickslock)                             *)

SysSleep(c, p, n) ==
  /\ Thread(c, p, "user") /\ ~killed[p] /\ p \in Sleepers
  /\ tickslock = NULL
  /\ tickslock' = c
  /\ left' = [left EXCEPT ![p] = n]
  /\ pc' = [pc EXCEPT ![p] = "test"]
  /\ UNCHANGED <<state, killed, lock, proc, satp, at, cpc, hpc, hk>>

(* Mutant: the return of a killed process keeps tickslock.                 *)
SysSleepDone_KeepLock(c, p) ==
  /\ Thread(c, p, "test")
  /\ left[p] = 0 \/ killed[p]
  /\ tickslock' = IF killed[p] THEN tickslock ELSE NULL
  /\ left' = [left EXCEPT ![p] = 0]
  /\ pc' = [pc EXCEPT ![p] = "user"]
  /\ UNCHANGED <<state, killed, lock, proc, satp, at, cpc, hpc, hk>>

(* The while loop is over, or the process was killed.                      *)
SysSleepDone(c, p) ==
  /\ Thread(c, p, "test")
  /\ left[p] = 0 \/ killed[p]
  /\ tickslock' = NULL
  /\ left' = [left EXCEPT ![p] = 0]
  /\ pc' = [pc EXCEPT ![p] = "user"]
  /\ UNCHANGED <<state, killed, lock, proc, satp, at, cpc, hpc, hk>>

SysSleepMore(c, p) ==
  /\ Thread(c, p, "test")
  /\ left[p] # 0 /\ ~killed[p]
  /\ pc' = [pc EXCEPT ![p] = "sleeplock1"]
  /\ UNCHANGED <<state, killed, lock, tickslock, left, proc, satp, at, cpc, hpc, hk>>

(* acquire(&p->lock)                                                       *)
SleepLock(c, p) ==
  /\ Thread(c, p, "sleeplock1")
  /\ lock[p] = NULL
  /\ lock' = [lock EXCEPT ![p] = c]
  /\ pc' = [pc EXCEPT ![p] = "unlock"]
  /\ UNCHANGED <<state, killed, tickslock, left, proc, satp, at, cpc, hpc, hk>>

(* Mutant: lk is kept.                                                     *)
SleepUnlock_Keep(c, p) ==
  /\ Thread(c, p, "unlock")
  /\ pc' = [pc EXCEPT ![p] = "sleep"]
  /\ UNCHANGED <<state, killed, lock, tickslock, left, proc, satp, at, cpc, hpc, hk>>

(* release(lk)                                                             *)
SleepUnlock(c, p) ==
  /\ Thread(c, p, "unlock")
  /\ tickslock' = NULL
  /\ pc' = [pc EXCEPT ![p] = "sleep"]
  /\ UNCHANGED <<state, killed, lock, left, proc, satp, at, cpc, hpc, hk>>

Sleep(c, p) ==
  /\ Thread(c, p, "sleep")
  /\ state' = [state EXCEPT ![p] = "SLEEPING"]
  /\ pc' = [pc EXCEPT ![p] = "asleep"]
  /\ sched(c)
  /\ UNCHANGED <<killed, lock, tickslock, left, proc, satp, at, hpc, hk>>

(* Awake again: release(&p->lock).                                         *)
Awake(c, p) ==
  /\ Thread(c, p, "asleep")
  /\ lock' = [lock EXCEPT ![p] = NULL]
  /\ pc' = [pc EXCEPT ![p] = "relock"]
  /\ UNCHANGED <<state, killed, tickslock, left, proc, satp, at, cpc, hpc, hk>>

(* acquire(lk)                                                             *)
Relock(c, p) ==
  /\ Thread(c, p, "relock")
  /\ tickslock = NULL
  /\ tickslock' = c
  /\ pc' = [pc EXCEPT ![p] = "test"]
  /\ UNCHANGED <<state, killed, lock, left, proc, satp, at, cpc, hpc, hk>>

-----------------------------------------------------------------------------
(* clockintr(), outside the repository: acquire(&tickslock); ticks++;      *)
(* wakeup(&ticks); release(&tickslock).                                    *)

NoLockHeld(c) == tickslock # c /\ \A p \in Slot : lock[p] # c

ClockEnter ==
  /\ hpc = "idle"
  /\ NoLockHeld(clockCPU)
  /\ hpc' = "enter"
  /\ UNCHANGED <<state, killed, lock, tickslock, left, pc, proc, satp, at, cpc, hk>>

ClockTick ==
  /\ hpc = "enter"
  /\ tickslock = NULL
  /\ tickslock' = clockCPU
  /\ left' = [p \in Slot |-> IF left[p] = 0 THEN 0 ELSE left[p] - 1]
  /\ hpc' = "wakeup"
  /\ hk' = 1
  /\ UNCHANGED <<state, killed, lock, pc, proc, satp, at, cpc>>

(* Mutant: wakeup() does not wait for p->lock.                             *)
Wakeup_NoLock ==
  /\ hpc = "wakeup" /\ hk \in Slot
  /\ state' = IF state[hk] = "SLEEPING"
              THEN [state EXCEPT ![hk] = "RUNNABLE"] ELSE state
  /\ hk' = hk + 1
  /\ UNCHANGED <<killed, lock, tickslock, left, pc, proc, satp, at, cpc, hpc>>

(* wakeup(): every sleeper of this module sleeps on &ticks.                *)
Wakeup ==
  /\ hpc = "wakeup" /\ hk \in Slot
  /\ lock[hk] = NULL
  /\ state' = IF state[hk] = "SLEEPING"
              THEN [state EXCEPT ![hk] = "RUNNABLE"] ELSE state
  /\ hk' = hk + 1
  /\ UNCHANGED <<killed, lock, tickslock, left, pc, proc, satp, at, cpc, hpc>>

ClockReturn ==
  /\ hpc = "wakeup" /\ hk \notin Slot
  /\ tickslock' = NULL
  /\ hpc' = "idle"
  /\ hk' = 1
  /\ UNCHANGED <<state, killed, lock, left, pc, proc, satp, at, cpc>>

-----------------------------------------------------------------------------
(* The scheduler, and what a process in the kernel does next, a process in *)
(* user mode when its time is up, and a killed process.                    *)
Advance(c) ==
  \/ SchedAcquire(c) \/ SchedSkip(c) \/ SchedSwitch(c)
  \/ SchedBack(c) \/ SchedRelease(c)
  \/ \E p \in Slot :
       \/ Resume(c, p) \/ Yield(c, p) \/ (killed[p] /\ Exit(c, p))
       \/ SysSleepDone(c, p) \/ SysSleepMore(c, p)
       \/ SleepLock(c, p) \/ SleepUnlock(c, p) \/ Sleep(c, p)
       \/ Awake(c, p) \/ Relock(c, p)

(* What a process asks for.                                                *)
SystemCall(c) ==
  \E p \in Slot :
    \/ Exit(c, p)
    \/ \E n \in Naps : SysSleep(c, p, n)
    \/ \E q \in Slot : Kill(c, p, q) \/ Fork(c, p, q) \/ Reap(c, p, q)

ClockInterrupt == ClockEnter \/ ClockTick \/ Wakeup \/ ClockReturn

Next == (\E c \in CPU : Advance(c) \/ SystemCall(c)) \/ ClockInterrupt

Spec == Init /\ [][Next]_vars

(***************************************************************************)
(* Every CPU goes on, a contended lock is granted at last, and timer       *)
(* interrupts keep coming, on each CPU for yield() and on the first for    *)
(* the clock.                                                              *)
(***************************************************************************)
Fairness ==
  /\ \A c \in CPU : SF_vars(Advance(c))
  /\ SF_vars(ClockInterrupt)

FairSpec == Spec /\ Fairness

-----------------------------------------------------------------------------
States == {"UNUSED", "SLEEPING", "RUNNABLE", "RUNNING", "ZOMBIE"}

Labels == {"forkret", "user", "yield", "dead", "test", "sleeplock1",
           "unlock", "sleep", "asleep", "relock"}

(* Every variable has its type.                                            *)
TypeOK ==
  /\ state \in [Slot -> States]
  /\ killed \in [Slot -> BOOLEAN]
  /\ lock \in [Slot -> CPU \cup {NULL}]
  /\ tickslock \in CPU \cup {NULL}
  /\ left \in [Slot -> {0} \cup UNION {0 .. n : n \in Naps}]
  /\ pc \in [Slot -> Labels]
  /\ proc \in [CPU -> Slot \cup {NULL}]
  /\ satp \in [CPU -> Slot \cup {NULL}]
  /\ at \in [CPU -> Slot]
  /\ cpc \in [CPU -> {"scan", "look", "in", "back", "release"}]
  /\ hpc \in {"idle", "enter", "wakeup"}
  /\ hk \in 1 .. NPROC + 1

(* No process runs on two CPUs, not even while one of them is still        *)
(* leaving its kernel stack in swtch().                                    *)
OneCPU ==
  \A c, d \in CPU : c # d /\ proc[c] = proc[d] => proc[c] = NULL

(* No CPU uses the kernel page table of a process that has been freed.     *)
TableAlive == \A c \in CPU : satp[c] # NULL => state[satp[c]] # "UNUSED"

(* What sched() panics about never happens (proc.c:560-567): at swtch()    *)
(* the CPU holds the lock of its process, no other lock, and the process   *)
(* is not RUNNING.                                                         *)
SchedPanics ==
  \A c \in CPU : cpc[c] = "back" =>
    /\ \A p \in Slot : (lock[p] = c) = (p = proc[c])
    /\ tickslock # c
    /\ state[proc[c]] # "RUNNING"

(* "We won't miss any wakeup" (proc.c:616): a process whose ticks are over *)
(* sleeps only until the wakeup() that is on its way has reached it.       *)
NoLostWakeup ==
  \A p \in Slot : state[p] = "SLEEPING" /\ left[p] = 0
                    => hpc = "wakeup" /\ hk <= p

(* Every process that is ready gets a CPU.                                 *)
ReadyRuns == \A p \in Slot : state[p] = "RUNNABLE" ~> state[p] # "RUNNABLE"

(* sys_sleep() returns.                                                    *)
SleepReturns ==
  \A p \in Slot : pc[p] \in {"test", "sleeplock1", "unlock", "sleep",
                             "asleep", "relock"} ~> pc[p] = "user"
=============================================================================
