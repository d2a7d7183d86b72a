----------------------------- MODULE SchedProofs -----------------------------
(***************************************************************************)
(* Proofs about Sched, for any number of CPUs and of processes: who holds  *)
(* which spin lock at every step of a context switch, and why no wakeup    *)
(* is missed.                                                              *)
(***************************************************************************)
EXTENDS Sched, TLAPS

-----------------------------------------------------------------------------
(* The inductive invariant                                                 *)

(* CPU c is between the two swtch() of process p, on p's kernel stack.     *)
Inside(c, p) == cpc[c] = "in" /\ at[c] = p

(* The labels at which a thread has p->lock, and those at which it has     *)
(* tickslock.                                                              *)
WithLock  == {"forkret", "yield", "unlock", "sleep", "asleep"}
WithTicks == {"test", "sleeplock1", "unlock"}

(* c->proc and the page table are those of the slot that scheduler() is at *)
(* while the CPU is in swtch(), and nobody's otherwise.                    *)
CpuInv ==
  \A c \in CPU :
    /\ cpc[c] \in {"in", "back"} => proc[c] = at[c] /\ satp[c] = at[c]
    /\ cpc[c] \notin {"in", "back"} => proc[c] = NULL /\ satp[c] = NULL
    /\ cpc[c] = "in" => state[at[c]] = "RUNNING"
    /\ cpc[c] = "back" => state[at[c]] \notin {"RUNNING", "UNUSED"}

(* p->lock is held by the CPU that looks at p in scheduler(), that comes   *)
(* back from p, or on which p's thread has it; by no other.                *)
LockInv ==
  \A c \in CPU, p \in Slot :
    lock[p] = c <=> /\ at[c] = p
                    /\ \/ cpc[c] \in {"look", "back", "release"}
                       \/ cpc[c] = "in" /\ pc[p] \in WithLock

(* tickslock is held by the CPU of a thread in sys_sleep()'s loop or by    *)
(* the clock interrupt.                                                    *)
TicksInv ==
  \A c \in CPU :
    tickslock = c <=> \/ cpc[c] = "in" /\ pc[at[c]] \in WithTicks
                      \/ c = clockCPU /\ hpc = "wakeup"

(* The clock interrupts its CPU only where it holds no lock.               *)
ClockInv ==
  hpc # "idle" =>
    \/ cpc[clockCPU] = "scan"
    \/ cpc[clockCPU] = "in" /\ pc[at[clockCPU]] \in {"user", "relock"}

(* Where the thread of a process is, given the state of the process.       *)
ThreadInv ==
  \A p \in Slot :
    /\ state[p] = "UNUSED" => pc[p] \in {"forkret", "dead"}
    /\ state[p] = "RUNNABLE" => pc[p] \in {"forkret", "yield", "asleep"}
    /\ state[p] = "SLEEPING" => pc[p] = "asleep"
    /\ state[p] = "ZOMBIE" => pc[p] = "dead"
    /\ state[p] = "RUNNING" => pc[p] # "dead" /\ \E c \in CPU : Inside(c, p)

(* The ticks of a process that goes to sleep are not over before wakeup()  *)
(* is on its way, and wakeup() does not pass a process whose lock is held. *)
SleepInv ==
  \A p \in Slot :
    /\ pc[p] \in {"sleeplock1", "unlock"} => left[p] # 0
    /\ pc[p] = "sleep" /\ left[p] = 0 => hpc = "wakeup" /\ hk <= p

IInv ==
  /\ TypeOK
  /\ OneCPU /\ CpuInv
  /\ LockInv /\ TicksInv /\ ClockInv
  /\ ThreadInv
  /\ SleepInv /\ NoLostWakeup
(* NULL is neither a CPU nor a slot; the first CPU is one.                 *)
LEMMA Constants == NULL \notin CPU /\ NULL \notin Slot /\ clockCPU \in CPU
BY NULLAssumption, NCPUAssumption DEF CPU, Slot, clockCPU

LEMMA SchedAcquireStep ==
  ASSUME IInv, NEW c \in CPU, SchedAcquire(c)
  PROVE  IInv'
<1> USE Constants DEF IInv
<1>1. TypeOK'
  BY DEF TypeOK, States, Labels, SchedAcquire, Scheduling, OnCPU
<1>2. OneCPU' /\ CpuInv'
  BY DEF TypeOK, OneCPU, CpuInv, LockInv, ThreadInv, SchedAcquire, Scheduling,
         OnCPU
<1>3. LockInv'
  BY DEF TypeOK, OneCPU, CpuInv, LockInv, ThreadInv, WithLock, SchedAcquire,
         Scheduling, OnCPU
<1>4. TicksInv'
  BY DEF TypeOK, OneCPU, CpuInv, TicksInv, ClockInv, ThreadInv, WithTicks,
         SchedAcquire, Scheduling, OnCPU
<1>5. ClockInv'
  BY DEF TypeOK, OneCPU, CpuInv, LockInv, TicksInv, ClockInv, ThreadInv,
         WithLock, WithTicks, SchedAcquire, Scheduling, OnCPU
<1>6. ThreadInv'
  BY DEF TypeOK, OneCPU, CpuInv, LockInv, ThreadInv, Inside, WithLock,
         SchedAcquire, Scheduling, OnCPU
<1>7. SleepInv' /\ NoLostWakeup'
  BY DEF TypeOK, OneCPU, CpuInv, LockInv, TicksInv, ThreadInv, SleepInv,
         NoLostWakeup, Inside, WithLock, WithTicks, Slot, SchedAcquire,
         Scheduling, OnCPU
<1> QED BY <1>1, <1>2, <1>3, <1>4, <1>5, <1>6, <1>7

LEMMA SchedSkipStep ==
  ASSUME IInv, NEW c \in CPU, SchedSkip(c)
  PROVE  IInv'
<1> USE Constants DEF IInv
<1>1. TypeOK'
  <2>1. at[c] \in Slot /\ (at[c] # NPROC => at[c] + 1 \in Slot) /\ 1 \in Slot
    BY NPROCAssumption DEF TypeOK, Slot
  <2> QED BY <2>1 DEF TypeOK, SchedSkip, ReleaseAndNext, Scheduling, OnCPU
<1>2. OneCPU' /\ CpuInv'
  BY DEF TypeOK, OneCPU, CpuInv, LockInv, ThreadInv, SchedSkip, ReleaseAndNext,
         Scheduling, OnCPU
<1>3. LockInv'
  BY DEF TypeOK, OneCPU, CpuInv, LockInv, ThreadInv, WithLock, SchedSkip,
         ReleaseAndNext, Scheduling, OnCPU
<1>4. TicksInv'
  BY DEF TypeOK, OneCPU, CpuInv, TicksInv, ClockInv, ThreadInv, WithTicks,
         SchedSkip, ReleaseAndNext, Scheduling, OnCPU
<1>5. ClockInv'
  BY DEF TypeOK, OneCPU, CpuInv, LockInv, TicksInv, ClockInv, ThreadInv,
         WithLock, WithTicks, SchedSkip, ReleaseAndNext, Scheduling, OnCPU
<1>6. ThreadInv'
  BY DEF TypeOK, OneCPU, CpuInv, LockInv, ThreadInv, Inside, WithLock,
         SchedSkip, ReleaseAndNext, Scheduling, OnCPU
<1>7. SleepInv' /\ NoLostWakeup'
  BY DEF TypeOK, OneCPU, CpuInv, LockInv, TicksInv, ThreadInv, SleepInv,
         NoLostWakeup, Inside, WithLock, WithTicks, Slot, SchedSkip,
         ReleaseAndNext, Scheduling, OnCPU
<1> QED BY <1>1, <1>2, <1>3, <1>4, <1>5, <1>6, <1>7

LEMMA SchedSwitchStep ==
  ASSUME IInv, NEW c \in CPU, SchedSwitch(c)
  PROVE  IInv'
<1> USE Constants DEF IInv
<1>1. TypeOK'
  BY DEF TypeOK, States, Labels, SchedSwitch, Scheduling, OnCPU
<1>2. OneCPU' /\ CpuInv'
  BY DEF TypeOK, OneCPU, CpuInv, LockInv, ThreadInv, SchedSwitch, Scheduling,
         OnCPU
<1>3. LockInv'
  BY DEF TypeOK, OneCPU, CpuInv, LockInv, ThreadInv, WithLock, SchedSwitch,
         Scheduling, OnCPU
<1>4. TicksInv'
  BY DEF TypeOK, OneCPU, CpuInv, TicksInv, ClockInv, ThreadInv, WithTicks,
         SchedSwitch, Scheduling, OnCPU
<1>5. ClockInv'
  BY DEF TypeOK, OneCPU, CpuInv, LockInv, TicksInv, ClockInv, ThreadInv,
         WithLock, WithTicks, SchedSwitch, Scheduling, OnCPU
<1>6. ThreadInv'
  BY DEF TypeOK, OneCPU, CpuInv, LockInv, ThreadInv, Inside, WithLock,
         SchedSwitch, Scheduling, OnCPU
<1>7. SleepInv' /\ NoLostWakeup'
  BY DEF TypeOK, OneCPU, CpuInv, LockInv, TicksInv, ThreadInv, SleepInv,
         NoLostWakeup, Inside, WithLock, WithTicks, Slot, SchedSwitch,
         Scheduling, OnCPU
<1> QED BY <1>1, <1>2, <1>3, <1>4, <1>5, <1>6, <1>7

LEMMA SchedBackStep ==
  ASSUME IInv, NEW c \in CPU, SchedBack(c)
  PROVE  IInv'
<1> USE Constants DEF IInv
<1>1. TypeOK'
  BY DEF TypeOK, States, Labels, SchedBack, Scheduling, OnCPU
<1>2. OneCPU' /\ CpuInv'
  BY DEF TypeOK, OneCPU, CpuInv, LockInv, ThreadInv, SchedBack, Scheduling,
         OnCPU
<1>3. LockInv'
  BY DEF TypeOK, OneCPU, CpuInv, LockInv, ThreadInv, WithLock, SchedBack,
         Scheduling, OnCPU
<1>4. TicksInv'
  BY DEF TypeOK, OneCPU, CpuInv, TicksInv, ClockInv, ThreadInv, WithTicks,
         SchedBack, Scheduling, OnCPU
<1>5. ClockInv'
  BY DEF TypeOK, OneCPU, CpuInv, LockInv, TicksInv, ClockInv, ThreadInv,
         WithLock, WithTicks, SchedBack, Scheduling, OnCPU
<1>6. ThreadInv'
  BY DEF TypeOK, OneCPU, CpuInv, LockInv, ThreadInv, Inside, WithLock,
         SchedBack, Scheduling, OnCPU
<1>7. SleepInv' /\ NoLostWakeup'
  BY DEF TypeOK, OneCPU, CpuInv, LockInv, TicksInv, ThreadInv, SleepInv,
         NoLostWakeup, Inside, WithLock, WithTicks, Slot, SchedBack,
         Scheduling, OnCPU
<1> QED BY <1>1, <1>2, <1>3, <1>4, <1>5, <1>6, <1>7

LEMMA SchedReleaseStep ==
  ASSUME IInv, NEW c \in CPU, SchedRelease(c)
  PROVE  IInv'
<1> USE Constants DEF IInv
<1>1. TypeOK'
  <2>1. at[c] \in Slot /\ (at[c] # NPROC => at[c] + 1 \in Slot) /\ 1 \in Slot
    BY NPROCAssumption DEF TypeOK, Slot
  <2> QED BY <2>1 DEF TypeOK, SchedRelease, ReleaseAndNext, Scheduling, OnCPU
<1>2. OneCPU' /\ CpuInv'
  BY DEF TypeOK, OneCPU, CpuInv, LockInv, ThreadInv, SchedRelease,
         ReleaseAndNext, Scheduling, OnCPU
<1>3. LockInv'
  BY DEF TypeOK, OneCPU, CpuInv, LockInv, ThreadInv, WithLock, SchedRelease,
         ReleaseAndNext, Scheduling, OnCPU
<1>4. TicksInv'
  BY DEF TypeOK, OneCPU, CpuInv, TicksInv, ClockInv, ThreadInv, WithTicks,
         SchedRelease, ReleaseAndNext, Scheduling, OnCPU
<1>5. ClockInv'
  BY DEF TypeOK, OneCPU, CpuInv, LockInv, TicksInv, ClockInv, ThreadInv,
         WithLock, WithTicks, SchedRelease, ReleaseAndNext, Scheduling, OnCPU
<1>6. ThreadInv'
  BY DEF TypeOK, OneCPU, CpuInv, LockInv, ThreadInv, Inside, WithLock,
         SchedRelease, ReleaseAndNext, Scheduling, OnCPU
<1>7. SleepInv' /\ NoLostWakeup'
  BY DEF TypeOK, OneCPU, CpuInv, LockInv, TicksInv, ThreadInv, SleepInv,
         NoLostWakeup, Inside, WithLock, WithTicks, Slot, SchedRelease,
         ReleaseAndNext, Scheduling, OnCPU
<1> QED BY <1>1, <1>2, <1>3, <1>4, <1>5, <1>6, <1>7

LEMMA ResumeStep ==
  ASSUME IInv, NEW c \in CPU, NEW p \in Slot, Resume(c, p)
  PROVE  IInv'
<1> USE Constants DEF IInv
<1>1. TypeOK'
  BY DEF TypeOK, States, Labels, Resume, sched, Thread, Scheduling, OnCPU
<1>2. OneCPU' /\ CpuInv'
  BY DEF TypeOK, OneCPU, CpuInv, LockInv, ThreadInv, Resume, sched, Thread,
         Scheduling, OnCPU
<1>3. LockInv'
  BY DEF TypeOK, OneCPU, CpuInv, LockInv, ThreadInv, WithLock, Resume, sched,
         Thread, Scheduling, OnCPU
<1>4. TicksInv'
  BY DEF TypeOK, OneCPU, CpuInv, TicksInv, ClockInv, ThreadInv, WithTicks,
         Resume, sched, Thread, Scheduling, OnCPU
<1>5. ClockInv'
  BY DEF TypeOK, OneCPU, CpuInv, LockInv, TicksInv, ClockInv, ThreadInv,
         WithLock, WithTicks, Resume, sched, Thread, Scheduling, OnCPU
<1>6. ThreadInv'
  BY DEF TypeOK, OneCPU, CpuInv, LockInv, ThreadInv, Inside, WithLock, Resume,
         sched, Thread, Scheduling, OnCPU
<1>7. SleepInv' /\ NoLostWakeup'
  BY DEF TypeOK, OneCPU, CpuInv, LockInv, TicksInv, ThreadInv, SleepInv,
         NoLostWakeup, Inside, WithLock, WithTicks, Slot, Resume, sched,
         Thread, Scheduling, OnCPU
<1> QED BY <1>1, <1>2, <1>3, <1>4, <1>5, <1>6, <1>7

LEMMA YieldStep ==
  ASSUME IInv, NEW c \in CPU, NEW p \in Slot, Yield(c, p)
  PROVE  IInv'
<1> USE Constants DEF IInv
<1>1. TypeOK'
  BY DEF TypeOK, States, Labels, Yield, sched, Thread, Scheduling, OnCPU
<1>2. OneCPU' /\ CpuInv'
  BY DEF TypeOK, OneCPU, CpuInv, LockInv, ThreadInv, Yield, sched, Thread,
         Scheduling, OnCPU
<1>3. LockInv'
  BY DEF TypeOK, OneCPU, CpuInv, LockInv, ThreadInv, WithLock, Yield, sched,
         Thread, Scheduling, OnCPU
<1>4. TicksInv'
  BY DEF TypeOK, OneCPU, CpuInv, TicksInv, ClockInv, ThreadInv, WithTicks,
         Yield, sched, Thread, Scheduling, OnCPU
<1>5. ClockInv'
  BY DEF TypeOK, OneCPU, CpuInv, LockInv, TicksInv, ClockInv, ThreadInv,
         WithLock, WithTicks, Yield, sched, Thread, Scheduling, OnCPU
<1>6. ThreadInv'
  BY DEF TypeOK, OneCPU, CpuInv, LockInv, ThreadInv, Inside, WithLock, Yield,
         sched, Thread, Scheduling, OnCPU
<1>7. SleepInv' /\ NoLostWakeup'
  BY DEF TypeOK, OneCPU, CpuInv, LockInv, TicksInv, ThreadInv, SleepInv,
         NoLostWakeup, Inside, WithLock, WithTicks, Slot, Yield, sched, Thread,
         Scheduling, OnCPU
<1> QED BY <1>1, <1>2, <1>3, <1>4, <1>5, <1>6, <1>7

LEMMA ExitStep ==
  ASSUME IInv, NEW c \in CPU, NEW p \in Slot, Exit(c, p)
  PROVE  IInv'
<1> USE Constants DEF IInv
<1>1. TypeOK'
  BY DEF TypeOK, States, Labels, Exit, sched, Thread, Scheduling, OnCPU
<1>2. OneCPU' /\ CpuInv'
  BY DEF TypeOK, OneCPU, CpuInv, LockInv, ThreadInv, Exit, sched, Thread,
         Scheduling, OnCPU
<1>3. LockInv'
  BY DEF TypeOK, OneCPU, CpuInv, LockInv, ThreadInv, WithLock, Exit, sched,
         Thread, Scheduling, OnCPU
<1>4. TicksInv'
  BY DEF TypeOK, OneCPU, CpuInv, TicksInv, ClockInv, ThreadInv, WithTicks,
         Exit, sched, Thread, Scheduling, OnCPU
<1>5. ClockInv'
  BY DEF TypeOK, OneCPU, CpuInv, LockInv, TicksInv, ClockInv, ThreadInv,
         WithLock, WithTicks, Exit, sched, Thread, Scheduling, OnCPU
<1>6. ThreadInv'
  BY DEF TypeOK, OneCPU, CpuInv, LockInv, ThreadInv, Inside, WithLock, Exit,
         sched, Thread, Scheduling, OnCPU
<1>7. SleepInv' /\ NoLostWakeup'
  BY DEF TypeOK, OneCPU, CpuInv, LockInv, TicksInv, ThreadInv, SleepInv,
         NoLostWakeup, Inside, WithLock, WithTicks, Slot, Exit, sched, Thread,
         Scheduling, OnCPU
<1> QED BY <1>1, <1>2, <1>3, <1>4, <1>5, <1>6, <1>7

LEMMA KillStep ==
  ASSUME IInv, NEW c \in CPU, NEW p \in Slot, NEW q \in Slot, Kill(c, p, q)
  PROVE  IInv'
<1> USE Constants DEF IInv
<1>1. TypeOK'
  BY DEF TypeOK, States, Labels, Kill, Thread, Scheduling, OnCPU
<1>2. OneCPU' /\ CpuInv'
  BY DEF TypeOK, OneCPU, CpuInv, LockInv, ThreadInv, Kill, Thread, Scheduling,
         OnCPU
<1>3. LockInv'
  BY DEF TypeOK, OneCPU, CpuInv, LockInv, ThreadInv, WithLock, Kill, Thread,
         Scheduling, OnCPU
<1>4. TicksInv'
  BY DEF TypeOK, OneCPU, CpuInv, TicksInv, ClockInv, ThreadInv, WithTicks,
         Kill, Thread, Scheduling, OnCPU
<1>5. ClockInv'
  BY DEF TypeOK, OneCPU, CpuInv, LockInv, TicksInv, ClockInv, ThreadInv,
         WithLock, WithTicks, Kill, Thread, Scheduling, OnCPU
<1>6. ThreadInv'
  BY DEF TypeOK, OneCPU, CpuInv, LockInv, ThreadInv, Inside, WithLock, Kill,
         Thread, Scheduling, OnCPU
<1>7. SleepInv' /\ NoLostWakeup'
  BY DEF TypeOK, OneCPU, CpuInv, LockInv, TicksInv, ThreadInv, SleepInv,
         NoLostWakeup, Inside, WithLock, WithTicks, Slot, Kill, Thread,
         Scheduling, OnCPU
<1> QED BY <1>1, <1>2, <1>3, <1>4, <1>5, <1>6, <1>7

LEMMA ForkStep ==
  ASSUME IInv, NEW c \in CPU, NEW p \in Slot, NEW q \in Slot, Fork(c, p, q)
  PROVE  IInv'
<1> USE Constants DEF IInv
<1>1. TypeOK'
  BY DEF TypeOK, States, Labels, Fork, Thread, Scheduling, OnCPU
<1>2. OneCPU' /\ CpuInv'
  BY DEF TypeOK, OneCPU, CpuInv, LockInv, ThreadInv, Fork, Thread, Scheduling,
         OnCPU
<1>3. LockInv'
  BY DEF TypeOK, OneCPU, CpuInv, LockInv, ThreadInv, WithLock, Fork, Thread,
         Scheduling, OnCPU
<1>4. TicksInv'
  BY DEF TypeOK, OneCPU, CpuInv, TicksInv, ClockInv, ThreadInv, WithTicks,
         Fork, Thread, Scheduling, OnCPU
<1>5. ClockInv'
  BY DEF TypeOK, OneCPU, CpuInv, LockInv, TicksInv, ClockInv, ThreadInv,
         WithLock, WithTicks, Fork, Thread, Scheduling, OnCPU
<1>6. ThreadInv'
  BY DEF TypeOK, OneCPU, CpuInv, LockInv, ThreadInv, Inside, WithLock, Fork,
         Thread, Scheduling, OnCPU
<1>7. SleepInv' /\ NoLostWakeup'
  BY DEF TypeOK, OneCPU, CpuInv, LockInv, TicksInv, ThreadInv, SleepInv,
         NoLostWakeup, Inside, WithLock, WithTicks, Slot, Fork, Thread,
         Scheduling, OnCPU
<1> QED BY <1>1, <1>2, <1>3, <1>4, <1>5, <1>6, <1>7

LEMMA ReapStep ==
  ASSUME IInv, NEW c \in CPU, NEW p \in Slot, NEW q \in Slot, Reap(c, p, q)
  PROVE  IInv'
<1> USE Constants DEF IInv
<1>1. TypeOK'
  BY DEF TypeOK, States, Labels, Reap, Thread, Scheduling, OnCPU
<1>2. OneCPU' /\ CpuInv'
  BY DEF TypeOK, OneCPU, CpuInv, LockInv, ThreadInv, Reap, Thread, Scheduling,
         OnCPU
<1>3. LockInv'
  BY DEF TypeOK, OneCPU, CpuInv, LockInv, ThreadInv, WithLock, Reap, Thread,
         Scheduling, OnCPU
<1>4. TicksInv'
  BY DEF TypeOK, OneCPU, CpuInv, TicksInv, ClockInv, ThreadInv, WithTicks,
         Reap, Thread, Scheduling, OnCPU
<1>5. ClockInv'
  BY DEF TypeOK, OneCPU, CpuInv, LockInv, TicksInv, ClockInv, ThreadInv,
         WithLock, WithTicks, Reap, Thread, Scheduling, OnCPU
<1>6. ThreadInv'
  BY DEF TypeOK, OneCPU, CpuInv, LockInv, ThreadInv, Inside, WithLock, Reap,
         Thread, Scheduling, OnCPU
<1>7. SleepInv' /\ NoLostWakeup'
  BY DEF TypeOK, OneCPU, CpuInv, LockInv, TicksInv, ThreadInv, SleepInv,
         NoLostWakeup, Inside, WithLock, WithTicks, Slot, Reap, Thread,
         Scheduling, OnCPU
<1> QED BY <1>1, <1>2, <1>3, <1>4, <1>5, <1>6, <1>7

LEMMA SysSleepStep ==
  ASSUME IInv, NEW c \in CPU, NEW p \in Slot, NEW n \in Naps, SysSleep(c, p, n)
  PROVE  IInv'
<1> USE Constants DEF IInv
<1>1. TypeOK'
  <2>1. n \in UNION {0 .. m : m \in Naps}
    BY NapsAssumption
  <2> QED BY <2>1 DEF TypeOK, Labels, SysSleep, Thread, Scheduling, OnCPU
<1>2. OneCPU' /\ CpuInv'
  BY DEF TypeOK, OneCPU, CpuInv, LockInv, ThreadInv, SysSleep, Thread,
         Scheduling, OnCPU
<1>3. LockInv'
  BY DEF TypeOK, OneCPU, CpuInv, LockInv, ThreadInv, WithLock, SysSleep,
         Thread, Scheduling, OnCPU
<1>4. TicksInv'
  BY DEF TypeOK, OneCPU, CpuInv, TicksInv, ClockInv, ThreadInv, WithTicks,
         SysSleep, Thread, Scheduling, OnCPU
<1>5. ClockInv'
  BY DEF TypeOK, OneCPU, CpuInv, LockInv, TicksInv, ClockInv, ThreadInv,
         WithLock, WithTicks, SysSleep, Thread, Scheduling, OnCPU
<1>6. ThreadInv'
  BY DEF TypeOK, OneCPU, CpuInv, LockInv, ThreadInv, Inside, WithLock,
         SysSleep, Thread, Scheduling, OnCPU
<1>7. SleepInv' /\ NoLostWakeup'
  BY DEF TypeOK, OneCPU, CpuInv, LockInv, TicksInv, ThreadInv, SleepInv,
         NoLostWakeup, Inside, WithLock, WithTicks, Slot, SysSleep, Thread,
         Scheduling, OnCPU
<1> QED BY <1>1, <1>2, <1>3, <1>4, <1>5, <1>6, <1>7

LEMMA SysSleepDoneStep ==
  ASSUME IInv, NEW c \in CPU, NEW p \in Slot, SysSleepDone(c, p)
  PROVE  IInv'
<1> USE Constants DEF IInv
<1>1. TypeOK'
  BY DEF TypeOK, States, Labels, SysSleepDone, Thread, Scheduling, OnCPU
<1>2. OneCPU' /\ CpuInv'
  BY DEF TypeOK, OneCPU, CpuInv, LockInv, ThreadInv, SysSleepDone, Thread,
         Scheduling, OnCPU
<1>3. LockInv'
  BY DEF TypeOK, OneCPU, CpuInv, LockInv, ThreadInv, WithLock, SysSleepDone,
         Thread, Scheduling, OnCPU
<1>4. TicksInv'
  BY DEF TypeOK, OneCPU, CpuInv, TicksInv, ClockInv, ThreadInv, WithTicks,
         SysSleepDone, Thread, Scheduling, OnCPU
<1>5. ClockInv'
  BY DEF TypeOK, OneCPU, CpuInv, LockInv, TicksInv, ClockInv, ThreadInv,
         WithLock, WithTicks, SysSleepDone, Thread, Scheduling, OnCPU
<1>6. ThreadInv'
  BY DEF TypeOK, OneCPU, CpuInv, LockInv, ThreadInv, Inside, WithLock,
         SysSleepDone, Thread, Scheduling, OnCPU
<1>7. SleepInv' /\ NoLostWakeup'
  BY DEF TypeOK, OneCPU, CpuInv, LockInv, TicksInv, ThreadInv, SleepInv,
         NoLostWakeup, Inside, WithLock, WithTicks, Slot, SysSleepDone, Thread,
         Scheduling, OnCPU
<1> QED BY <1>1, <1>2, <1>3, <1>4, <1>5, <1>6, <1>7

LEMMA SysSleepMoreStep ==
  ASSUME IInv, NEW c \in CPU, NEW p \in Slot, SysSleepMore(c, p)
  PROVE  IInv'
<1> USE Constants DEF IInv
<1>1. TypeOK'
  BY DEF TypeOK, States, Labels, SysSleepMore, Thread, Scheduling, OnCPU
<1>2. OneCPU' /\ CpuInv'
  BY DEF TypeOK, OneCPU, CpuInv, LockInv, ThreadInv, SysSleepMore, Thread,
         Scheduling, OnCPU
<1>3. LockInv'
  BY DEF TypeOK, OneCPU, CpuInv, LockInv, ThreadInv, WithLock, SysSleepMore,
         Thread, Scheduling, OnCPU
<1>4. TicksInv'
  BY DEF TypeOK, OneCPU, CpuInv, TicksInv, ClockInv, ThreadInv, WithTicks,
         SysSleepMore, Thread, Scheduling, OnCPU
<1>5. ClockInv'
  BY DEF TypeOK, OneCPU, CpuInv, LockInv, TicksInv, ClockInv, ThreadInv,
         WithLock, WithTicks, SysSleepMore, Thread, Scheduling, OnCPU
<1>6. ThreadInv'
  BY DEF TypeOK, OneCPU, CpuInv, LockInv, ThreadInv, Inside, WithLock,
         SysSleepMore, Thread, Scheduling, OnCPU
<1>7. SleepInv' /\ NoLostWakeup'
  BY DEF TypeOK, OneCPU, CpuInv, LockInv, TicksInv, ThreadInv, SleepInv,
         NoLostWakeup, Inside, WithLock, WithTicks, Slot, SysSleepMore, Thread,
         Scheduling, OnCPU
<1> QED BY <1>1, <1>2, <1>3, <1>4, <1>5, <1>6, <1>7

LEMMA SleepLockStep ==
  ASSUME IInv, NEW c \in CPU, NEW p \in Slot, SleepLock(c, p)
  PROVE  IInv'
<1> USE Constants DEF IInv
<1>1. TypeOK'
  BY DEF TypeOK, States, Labels, SleepLock, Thread, Scheduling, OnCPU
<1>2. OneCPU' /\ CpuInv'
  BY DEF TypeOK, OneCPU, CpuInv, LockInv, ThreadInv, SleepLock, Thread,
         Scheduling, OnCPU
<1>3. LockInv'
  BY DEF TypeOK, OneCPU, CpuInv, LockInv, ThreadInv, WithLock, SleepLock,
         Thread, Scheduling, OnCPU
<1>4. TicksInv'
  BY DEF TypeOK, OneCPU, CpuInv, TicksInv, ClockInv, ThreadInv, WithTicks,
         SleepLock, Thread, Scheduling, OnCPU
<1>5. ClockInv'
  BY DEF TypeOK, OneCPU, CpuInv, LockInv, TicksInv, ClockInv, ThreadInv,
         WithLock, WithTicks, SleepLock, Thread, Scheduling, OnCPU
<1>6. ThreadInv'
  BY DEF TypeOK, OneCPU, CpuInv, LockInv, ThreadInv, Inside, WithLock,
         SleepLock, Thread, Scheduling, OnCPU
<1>7. SleepInv' /\ NoLostWakeup'
  BY DEF TypeOK, OneCPU, CpuInv, LockInv, TicksInv, ThreadInv, SleepInv,
         NoLostWakeup, Inside, WithLock, WithTicks, Slot, SleepLock, Thread,
         Scheduling, OnCPU
<1> QED BY <1>1, <1>2, <1>3, <1>4, <1>5, <1>6, <1>7

LEMMA SleepUnlockStep ==
  ASSUME IInv, NEW c \in CPU, NEW p \in Slot, SleepUnlock(c, p)
  PROVE  IInv'
<1> USE Constants DEF IInv
<1>1. TypeOK'
  BY DEF TypeOK, States, Labels, SleepUnlock, Thread, Scheduling, OnCPU
<1>2. OneCPU' /\ CpuInv'
  BY DEF TypeOK, OneCPU, CpuInv, LockInv, ThreadInv, SleepUnlock, Thread,
         Scheduling, OnCPU
<1>3. LockInv'
  BY DEF TypeOK, OneCPU, CpuInv, LockInv, ThreadInv, WithLock, SleepUnlock,
         Thread, Scheduling, OnCPU
<1>4. TicksInv'
  BY DEF TypeOK, OneCPU, CpuInv, TicksInv, ClockInv, ThreadInv, WithTicks,
         SleepUnlock, Thread, Scheduling, OnCPU
<1>5. ClockInv'
  BY DEF TypeOK, OneCPU, CpuInv, LockInv, TicksInv, ClockInv, ThreadInv,
         WithLock, WithTicks, SleepUnlock, Thread, Scheduling, OnCPU
<1>6. ThreadInv'
  BY DEF TypeOK, OneCPU, CpuInv, LockInv, ThreadInv, Inside, WithLock,
         SleepUnlock, Thread, Scheduling, OnCPU
<1>7. SleepInv' /\ NoLostWakeup'
  BY DEF TypeOK, OneCPU, CpuInv, LockInv, TicksInv, ThreadInv, SleepInv,
         NoLostWakeup, Inside, WithLock, WithTicks, Slot, SleepUnlock, Thread,
         Scheduling, OnCPU
<1> QED BY <1>1, <1>2, <1>3, <1>4, <1>5, <1>6, <1>7

LEMMA SleepStep ==
  ASSUME IInv, NEW c \in CPU, NEW p \in Slot, Sleep(c, p)
  PROVE  IInv'
<1> USE Constants DEF IInv
<1>1. TypeOK'
  BY DEF TypeOK, States, Labels, Sleep, sched, Thread, Scheduling, OnCPU
<1>2. OneCPU' /\ CpuInv'
  BY DEF TypeOK, OneCPU, CpuInv, LockInv, ThreadInv, Sleep, sched, Thread,
         Scheduling, OnCPU
<1>3. LockInv'
  BY DEF TypeOK, OneCPU, CpuInv, LockInv, ThreadInv, WithLock, Sleep, sched,
         Thread, Scheduling, OnCPU
<1>4. TicksInv'
  BY DEF TypeOK, OneCPU, CpuInv, TicksInv, ClockInv, ThreadInv, WithTicks,
         Sleep, sched, Thread, Scheduling, OnCPU
<1>5. ClockInv'
  BY DEF TypeOK, OneCPU, CpuInv, LockInv, TicksInv, ClockInv, ThreadInv,
         WithLock, WithTicks, Sleep, sched, Thread, Scheduling, OnCPU
<1>6. ThreadInv'
  BY DEF TypeOK, OneCPU, CpuInv, LockInv, ThreadInv, Inside, WithLock, Sleep,
         sched, Thread, Scheduling, OnCPU
<1>7. SleepInv' /\ NoLostWakeup'
  BY DEF TypeOK, OneCPU, CpuInv, LockInv, TicksInv, ThreadInv, SleepInv,
         NoLostWakeup, Inside, WithLock, WithTicks, Slot, Sleep, sched, Thread,
         Scheduling, OnCPU
<1> QED BY <1>1, <1>2, <1>3, <1>4, <1>5, <1>6, <1>7

LEMMA AwakeStep ==
  ASSUME IInv, NEW c \in CPU, NEW p \in Slot, Awake(c, p)
  PROVE  IInv'
<1> USE Constants DEF IInv
<1>1. TypeOK'
  BY DEF TypeOK, States, Labels, Awake, Thread, Scheduling, OnCPU
<1>2. OneCPU' /\ CpuInv'
  BY DEF TypeOK, OneCPU, CpuInv, LockInv, ThreadInv, Awake, Thread, Scheduling,
         OnCPU
<1>3. LockInv'
  BY DEF TypeOK, OneCPU, CpuInv, LockInv, ThreadInv, WithLock, Awake, Thread,
         Scheduling, OnCPU
<1>4. TicksInv'
  BY DEF TypeOK, OneCPU, CpuInv, TicksInv, ClockInv, ThreadInv, WithTicks,
         Awake, Thread, Scheduling, OnCPU
<1>5. ClockInv'
  BY DEF TypeOK, OneCPU, CpuInv, LockInv, TicksInv, ClockInv, ThreadInv,
         WithLock, WithTicks, Awake, Thread, Scheduling, OnCPU
<1>6. ThreadInv'
  BY DEF TypeOK, OneCPU, CpuInv, LockInv, ThreadInv, Inside, WithLock, Awake,
         Thread, Scheduling, OnCPU
<1>7. SleepInv' /\ NoLostWakeup'
  BY DEF TypeOK, OneCPU, CpuInv, LockInv, TicksInv, ThreadInv, SleepInv,
         NoLostWakeup, Inside, WithLock, WithTicks, Slot, Awake, Thread,
         Scheduling, OnCPU
<1> QED BY <1>1, <1>2, <1>3, <1>4, <1>5, <1>6, <1>7

LEMMA RelockStep ==
  ASSUME IInv, NEW c \in CPU, NEW p \in Slot, Relock(c, p)
  PROVE  IInv'
<1> USE Constants DEF IInv
<1>1. TypeOK'
  BY DEF TypeOK, States, Labels, Relock, Thread, Scheduling, OnCPU
<1>2. OneCPU' /\ CpuInv'
  BY DEF TypeOK, OneCPU, CpuInv, LockInv, ThreadInv, Relock, Thread,
         Scheduling, OnCPU
<1>3. LockInv'
  BY DEF TypeOK, OneCPU, CpuInv, LockInv, ThreadInv, WithLock, Relock, Thread,
         Scheduling, OnCPU
<1>4. TicksInv'
  BY DEF TypeOK, OneCPU, CpuInv, TicksInv, ClockInv, ThreadInv, WithTicks,
         Relock, Thread, Scheduling, OnCPU
<1>5. ClockInv'
  BY DEF TypeOK, OneCPU, CpuInv, LockInv, TicksInv, ClockInv, ThreadInv,
         WithLock, WithTicks, Relock, Thread, Scheduling, OnCPU
<1>6. ThreadInv'
  BY DEF TypeOK, OneCPU, CpuInv, LockInv, ThreadInv, Inside, WithLock, Relock,
         Thread, Scheduling, OnCPU
<1>7. SleepInv' /\ NoLostWakeup'
  BY DEF TypeOK, OneCPU, CpuInv, LockInv, TicksInv, ThreadInv, SleepInv,
         NoLostWakeup, Inside, WithLock, WithTicks, Slot, Relock, Thread,
         Scheduling, OnCPU
<1> QED BY <1>1, <1>2, <1>3, <1>4, <1>5, <1>6, <1>7

LEMMA ClockEnterStep ==
  ASSUME IInv, ClockEnter
  PROVE  IInv'
<1> USE Constants DEF IInv
<1>1. TypeOK'
  BY DEF TypeOK, States, Labels, ClockEnter, NoLockHeld
<1>2. OneCPU' /\ CpuInv'
  BY DEF TypeOK, OneCPU, CpuInv, LockInv, ThreadInv, ClockEnter, NoLockHeld
<1>3. LockInv'
  BY DEF TypeOK, OneCPU, CpuInv, LockInv, ThreadInv, WithLock, ClockEnter,
         NoLockHeld
<1>4. TicksInv'
  BY DEF TypeOK, OneCPU, CpuInv, TicksInv, ClockInv, ThreadInv, WithTicks,
         ClockEnter, NoLockHeld
<1>5. ClockInv'
  <2>1. cpc[clockCPU] \in {"scan", "in"}
    BY DEF TypeOK, LockInv, NoLockHeld, ClockEnter
  <2>2. cpc[clockCPU] = "in" => pc[at[clockCPU]] \in {"user", "relock"}
    BY DEF TypeOK, Labels, CpuInv, LockInv, TicksInv, ThreadInv, WithLock,
           WithTicks, NoLockHeld, ClockEnter
  <2> QED BY <2>1, <2>2 DEF ClockInv, ClockEnter
<1>6. ThreadInv'
  BY DEF TypeOK, OneCPU, CpuInv, LockInv, ThreadInv, Inside, WithLock,
         ClockEnter, NoLockHeld
<1>7. SleepInv' /\ NoLostWakeup'
  BY DEF TypeOK, OneCPU, CpuInv, LockInv, TicksInv, ThreadInv, SleepInv,
         NoLostWakeup, Inside, WithLock, WithTicks, Slot, ClockEnter,
         NoLockHeld
<1> QED BY <1>1, <1>2, <1>3, <1>4, <1>5, <1>6, <1>7

LEMMA ClockTickStep ==
  ASSUME IInv, ClockTick
  PROVE  IInv'
<1> USE Constants DEF IInv
<1>1. TypeOK'
  <2>1. ASSUME NEW p \in Slot, left[p] # 0
        PROVE  left[p] - 1 \in {0} \cup UNION {0 .. m : m \in Naps}
    <3>1. PICK m \in Naps : left[p] \in 0 .. m
      BY <2>1 DEF TypeOK
    <3>2. left[p] - 1 \in 0 .. m
      BY <3>1, <2>1, NapsAssumption
    <3> QED BY <3>2
  <2>2. left' \in [Slot -> {0} \cup UNION {0 .. m : m \in Naps}]
    BY <2>1 DEF ClockTick
  <2>3. 1 \in 1 .. NPROC + 1
    BY NPROCAssumption
  <2> QED BY <2>2, <2>3 DEF TypeOK, ClockTick
<1>2. OneCPU' /\ CpuInv'
  BY DEF TypeOK, OneCPU, CpuInv, LockInv, ThreadInv, ClockTick
<1>3. LockInv'
  BY DEF TypeOK, OneCPU, CpuInv, LockInv, ThreadInv, WithLock, ClockTick
<1>4. TicksInv'
  BY DEF TypeOK, OneCPU, CpuInv, TicksInv, ClockInv, ThreadInv, WithTicks,
         ClockTick
<1>5. ClockInv'
  BY DEF TypeOK, OneCPU, CpuInv, LockInv, TicksInv, ClockInv, ThreadInv,
         WithLock, WithTicks, ClockTick
<1>6. ThreadInv'
  BY DEF TypeOK, OneCPU, CpuInv, LockInv, ThreadInv, Inside, WithLock,
         ClockTick
<1>7. SleepInv' /\ NoLostWakeup'
  <2>1. \A p \in Slot : hk' <= p /\ hpc' = "wakeup"
    BY DEF ClockTick, Slot
  <2>2. \A p \in Slot : pc[p] \notin {"sleeplock1", "unlock"}
    BY DEF TypeOK, TicksInv, ThreadInv, Inside, States, WithTicks, ClockTick
  <2> QED BY <2>1, <2>2 DEF SleepInv, NoLostWakeup, ClockTick
<1> QED BY <1>1, <1>2, <1>3, <1>4, <1>5, <1>6, <1>7

LEMMA WakeupStep ==
  ASSUME IInv, Wakeup
  PROVE  IInv'
<1> USE Constants DEF IInv
<1>1. TypeOK'
  <2>1. hk + 1 \in 1 .. NPROC + 1
    BY NPROCAssumption DEF Wakeup, Slot
  <2> QED BY <2>1 DEF TypeOK, States, Wakeup
<1>2. OneCPU' /\ CpuInv'
  BY DEF TypeOK, OneCPU, CpuInv, LockInv, ThreadInv, Wakeup
<1>3. LockInv'
  BY DEF TypeOK, OneCPU, CpuInv, LockInv, ThreadInv, WithLock, Wakeup
<1>4. TicksInv'
  BY DEF TypeOK, OneCPU, CpuInv, TicksInv, ClockInv, ThreadInv, WithTicks,
         Wakeup
<1>5. ClockInv'
  BY DEF TypeOK, OneCPU, CpuInv, LockInv, TicksInv, ClockInv, ThreadInv,
         WithLock, WithTicks, Wakeup
<1>6. ThreadInv'
  BY DEF TypeOK, OneCPU, CpuInv, LockInv, ThreadInv, Inside, WithLock, Wakeup
<1>7. SleepInv' /\ NoLostWakeup'
  <2>1. \A p \in Slot : hk <= p /\ p # hk => hk' <= p
    BY DEF Wakeup, Slot
  <2>2. pc[hk] # "sleep"
    BY DEF TypeOK, LockInv, ThreadInv, Inside, States, WithLock, Wakeup
  <2>3. state'[hk] # "SLEEPING" /\ hpc' = "wakeup"
    BY DEF TypeOK, Wakeup
  <2> QED BY <2>1, <2>2, <2>3 DEF TypeOK, SleepInv, NoLostWakeup, Wakeup
<1> QED BY <1>1, <1>2, <1>3, <1>4, <1>5, <1>6, <1>7

LEMMA ClockReturnStep ==
  ASSUME IInv, ClockReturn
  PROVE  IInv'
<1> USE Constants DEF IInv
<1>1. TypeOK'
  <2>1. 1 \in 1 .. NPROC + 1
    BY NPROCAssumption
  <2> QED BY <2>1 DEF TypeOK, ClockReturn
<1>2. OneCPU' /\ CpuInv'
  BY DEF TypeOK, OneCPU, CpuInv, LockInv, ThreadInv, ClockReturn
<1>3. LockInv'
  BY DEF TypeOK, OneCPU, CpuInv, LockInv, ThreadInv, WithLock, ClockReturn
<1>4. TicksInv'
  BY DEF TypeOK, OneCPU, CpuInv, TicksInv, ClockInv, ThreadInv, WithTicks,
         ClockReturn
<1>5. ClockInv'
  BY DEF TypeOK, OneCPU, CpuInv, LockInv, TicksInv, ClockInv, ThreadInv,
         WithLock, WithTicks, ClockReturn
<1>6. ThreadInv'
  BY DEF TypeOK, OneCPU, CpuInv, LockInv, ThreadInv, Inside, WithLock,
         ClockReturn
<1>7. SleepInv' /\ NoLostWakeup'
  <2>1. \A p \in Slot : ~(hk <= p)
    BY NPROCAssumption DEF TypeOK, Slot, ClockReturn
  <2> QED BY <2>1 DEF SleepInv, NoLostWakeup, ClockReturn
<1> QED BY <1>1, <1>2, <1>3, <1>4, <1>5, <1>6, <1>7

LEMMA InitIInv == Init => IInv
<1> SUFFICES ASSUME Init PROVE IInv
  OBVIOUS
<1>1. 1 \in Slot /\ 1 \in 1 .. NPROC + 1
  BY NPROCAssumption DEF Slot
<1>2. TypeOK
  BY <1>1 DEF Init, TypeOK, States, Labels
<1>3. OneCPU /\ CpuInv
  BY DEF Init, OneCPU, CpuInv
<1>4. LockInv /\ TicksInv /\ ClockInv
  BY Constants DEF Init, LockInv, TicksInv, ClockInv
<1>5. ThreadInv /\ SleepInv /\ NoLostWakeup
  BY DEF Init, ThreadInv, SleepInv, NoLostWakeup
<1> QED BY <1>2, <1>3, <1>4, <1>5 DEF IInv

LEMMA NextIInv == IInv /\ [Next]_vars => IInv'
<1> SUFFICES ASSUME IInv, [Next]_vars PROVE IInv'
  OBVIOUS
<1>1. CASE UNCHANGED vars
  BY <1>1 DEF vars, IInv, TypeOK, OneCPU, CpuInv, LockInv, TicksInv, ClockInv,
              ThreadInv, Inside, SleepInv, NoLostWakeup
<1>2. ASSUME NEW c \in CPU, Advance(c) PROVE IInv'
  BY <1>2, SchedAcquireStep, SchedSkipStep, SchedSwitchStep, SchedBackStep, SchedReleaseStep, ResumeStep, YieldStep, ExitStep, SysSleepDoneStep, SysSleepMoreStep, SleepLockStep, SleepUnlockStep, SleepStep, AwakeStep, RelockStep DEF Advance
<1>3. ASSUME NEW c \in CPU, SystemCall(c) PROVE IInv'
  BY <1>3, ExitStep, SysSleepStep, KillStep, ForkStep, ReapStep DEF SystemCall
<1>4. CASE ClockInterrupt
  BY <1>4, ClockEnterStep, ClockTickStep, WakeupStep, ClockReturnStep DEF ClockInterrupt
<1> QED BY <1>1, <1>2, <1>3, <1>4 DEF Next

-----------------------------------------------------------------------------
(* In every reachable state, whatever the number of CPUs, of processes and *)
(* of sleepers: who holds which lock, and where every thread is.           *)
THEOREM Invariance == Spec => []IInv
BY InitIInv, NextIInv, PTL DEF Spec

(* Type correctness of the scheduler's and the sleepers' state.            *)
THEOREM TypeCorrectness == Spec => []TypeOK
<1>1. IInv => TypeOK
  BY DEF IInv
<1> QED BY <1>1, Invariance, PTL

(* However the CPUs and the clock interleave, no process runs on two CPUs: *)
(* the stack that one CPU is leaving in swtch() is entered by no other.    *)
THEOREM OneCPUEach == Spec => []OneCPU
<1>1. IInv => OneCPU
  BY DEF IInv
<1> QED BY <1>1, Invariance, PTL

(* freeproc() never frees a kernel page table that a CPU still translates  *)
(* addresses with (Lab4/kernel/proc.c, scheduler() and freeproc()).        *)
THEOREM TablesAlive == Spec => []TableAlive
<1>1. IInv => TableAlive
  BY DEF IInv, TypeOK, CpuInv, TableAlive
<1> QED BY <1>1, Invariance, PTL

(* sched() panics neither of a lock too few or too many nor of a RUNNING   *)
(* process.                                                                *)
THEOREM NoSchedPanic == Spec => []SchedPanics
<1>1. IInv => SchedPanics
  BY DEF IInv, TypeOK, CpuInv, LockInv, TicksInv, ClockInv, SchedPanics
<1> QED BY <1>1, Invariance, PTL

(* A process whose ticks are over sleeps only ahead of the wakeup() that   *)
(* is on its way: sleep() takes p->lock before it releases tickslock.      *)
THEOREM NoWakeupMissed == Spec => []NoLostWakeup
<1>1. IInv => NoLostWakeup
  BY DEF IInv
<1> QED BY <1>1, Invariance, PTL
==============================================================================
