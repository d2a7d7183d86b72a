------------------------------ MODULE SysInfo -------------------------------
(***************************************************************************)
(* The system calls trace() and sysinfo() of Lab2/kernel, and what they    *)
(* look at while it changes: the masks and the states of the process table *)
(* (proc.c) and the one free list of kalloc.c.                             *)
(*                                                                         *)
(* A process takes a single page here, its trapframe's.  The first process *)
(* got its own at boot and keeps it.  exit(), which takes part in nothing  *)
(* that is counted before it sets ZOMBIE, is one step; Lifecycle has the   *)
(* others.  A mask is represented by the pid of the process whose trace()  *)
(* set it, and by 0 when no call is traced.                                *)
(***************************************************************************)
EXTENDS Integers, FiniteSets, Sequences, SequencesExt

CONSTANTS
  NPROC,   \* slots of the process table
  Page,    \* the pages that kinit() and boot have left
  MAXPID,  \* bound: fork() is not called when pids have reached it
  Tracers, \* the slots whose processes call trace() in this instance
  Askers,  \* the slots whose processes call sysinfo()
  NULL     \* no page, no process

Slot == 1 .. NPROC
initproc == 1 \* userinit() runs first and gets the first slot

ASSUME NPROCAssumption   == NPROC \in Nat \ {0}
ASSUME PageAssumption    == IsFiniteSet(Page) /\ NULL \notin Page
ASSUME MAXPIDAssumption  == MAXPID \in Nat \ {0}
ASSUME CallersAssumption == Tracers \subseteq Slot /\ Askers \subseteq Slot
ASSUME NULLAssumption    == NULL \notin Nat

VARIABLES
  state,     \* p->state: whether it is UNUSED, ZOMBIE or another
  parent,    \* p->parent
  pid,       \* p->pid
  mask,      \* p->mask
  trapframe, \* p->trapframe
  lock,      \* p->lock: who holds it
  nextpid,   \* allocpid()'s counter
  freelist,  \* kmem.freelist
  klock,     \* kmem.lock: who holds it
  pc,        \* where each process is
  c,         \* the slot that fork() fills or wait() frees
  r,         \* kalloc()'s, kfree()'s and check_freemem()'s local
  i,         \* check_nproc()'s index
  n,         \* freelist_num, then nproc_num
  kin,       \* history: the pids of a process and of its ancestors
  always,    \* history: the slots that were UNUSED all through a scan
  ever       \* history: the slots that were UNUSED at some time in it

tableVars == <<state, parent, pid, mask, trapframe, lock, nextpid>>
listVars  == <<freelist, klock>>
localVars == <<c, r, i, n>>
history   == <<kin, always, ever>>
vars == <<tableVars, listVars, pc, localVars, history>>

Unused(st) == {s \in Slot : st[s] = "UNUSED"}

(* userinit() has made the first process.                                  *)
Init ==
  /\ state = [s \in Slot |-> IF s = initproc THEN "ALIVE" ELSE "UNUSED"]
  /\ parent = [s \in Slot |-> NULL]
  /\ pid = [s \in Slot |-> IF s = initproc THEN 1 ELSE 0]
  /\ mask = [s \in Slot |-> 0]
  /\ trapframe = [s \in Slot |-> NULL]
  /\ lock = [s \in Slot |-> NULL]
  /\ nextpid = 2
  /\ freelist = SetToSeq(Page)
  /\ klock = NULL
  /\ pc = [s \in Slot |-> IF s = initproc THEN "user" ELSE "none"]
  /\ c = [s \in Slot |-> NULL]
  /\ r = [s \in Slot |-> NULL]
  /\ i = [s \in Slot |-> 1]
  /\ n = [s \in Slot |-> 0]
  /\ kin = [s \in Slot |-> IF s = initproc THEN {1} ELSE {}]
  /\ always = [s \in Slot |-> {}]
  /\ ever = [s \in Slot |-> {}]

Goto(p, from, to) ==
  /\ pc[p] = from
  /\ pc' = [pc EXCEPT ![p] = to]

Set(f, p, v) == [f EXCEPT ![p] = v]

acquireKmem(p) == klock = NULL /\ klock' = p
releaseKmem == klock' = NULL

(* The scans under way take notice that the slots in st are UNUSED now.    *)
Witness(st) ==
  /\ always' = [q \in Slot |-> always[q] \cap Unused(st)]
  /\ ever' = [q \in Slot |-> IF pc[q] = "n_scan"
                             THEN ever[q] \cup Unused(st) ELSE ever[q]]

-----------------------------------------------------------------------------
(* kalloc(), called by p                                                   *)

(* Mutant: kmem.lock is taken whether it is free or not.                   *)
KallocLoad_NoLock(p) ==
  /\ Goto(p, "a_load", "a_unlink")
  /\ r' = Set(r, p, IF freelist = <<>> THEN NULL ELSE Head(freelist))
  /\ klock' = p
  /\ UNCHANGED <<tableVars, freelist, c, i, n, history>>

(* acquire(&kmem.lock); r = kmem.freelist                                  *)
KallocLoad(p) ==
  /\ Goto(p, "a_load", "a_unlink")
  /\ acquireKmem(p)
  /\ r' = Set(r, p, IF freelist = <<>> THEN NULL ELSE Head(freelist))
  /\ UNCHANGED <<tableVars, freelist, c, i, n, history>>

(* if(r) kmem.freelist = r->next; release(&kmem.lock)                      *)
KallocUnlink(p) ==
  /\ Goto(p, "a_unlink", "a_return")
  /\ freelist' = IF freelist = <<>> THEN <<>> ELSE Tail(freelist)
  /\ releaseKmem
  /\ UNCHANGED <<tableVars, localVars, history>>

-----------------------------------------------------------------------------
(* fork()                                                                  *)

(* allocproc() has found slot s UNUSED: allocpid(); p->lock is kept.       *)
ForkFind(p, s) ==
  /\ nextpid <= MAXPID
  /\ state[s] = "UNUSED" /\ lock[s] = NULL
  /\ Goto(p, "user", "a_load")
  /\ lock' = Set(lock, s, p)
  /\ pid' = Set(pid, s, nextpid)
  /\ nextpid' = nextpid + 1
  /\ c' = Set(c, p, s)
  /\ UNCHANGED <<state, parent, mask, trapframe, listVars, r, i, n, history>>

(* p->trapframe = kalloc(), a page.                                        *)
ForkFrame(p) ==
  /\ r[p] # NULL
  /\ Goto(p, "a_return", "f_done")
  /\ trapframe' = Set(trapframe, c[p], r[p])
  /\ r' = Set(r, p, NULL)
  /\ UNCHANGED <<state, parent, pid, mask, lock, nextpid, listVars, c, i, n, history>>

(* kalloc() has returned 0: release(&p->lock), the pid stays in the slot.  *)
ForkNoFrame(p) ==
  /\ r[p] = NULL
  /\ Goto(p, "a_return", "user")
  /\ lock' = Set(lock, c[p], NULL)
  /\ c' = Set(c, p, NULL)
  /\ UNCHANGED <<state, parent, pid, mask, trapframe, nextpid, listVars, r, i, n, history>>

(* Mutant: the mask is not inherited; the slot's old one stays.            *)
ForkDone_NoMask(p) ==
  LET s == c[p]
      st == Set(state, s, "ALIVE") IN
  /\ pc[p] = "f_done"
  /\ pc' = [pc EXCEPT ![p] = "user", ![s] = "user"]
  /\ state' = st
  /\ parent' = Set(parent, s, p)
  /\ lock' = Set(lock, s, NULL)
  /\ c' = Set(c, p, NULL)
  /\ kin' = Set(kin, s, kin[p] \cup {pid[s]})
  /\ Witness(st)
  /\ UNCHANGED <<pid, mask, trapframe, nextpid, listVars, r, i, n>>

(* np->parent = p; np->mask = p->mask; RUNNABLE; release(&np->lock)        *)
ForkDone(p) ==
  LET s == c[p]
      st == Set(state, s, "ALIVE") IN
  /\ pc[p] = "f_done"
  /\ pc' = [pc EXCEPT ![p] = "user", ![s] = "user"]
  /\ state' = st
  /\ parent' = Set(parent, s, p)
  /\ mask' = Set(mask, s, mask[p])
  /\ lock' = Set(lock, s, NULL)
  /\ c' = Set(c, p, NULL)
  /\ kin' = Set(kin, s, kin[p] \cup {pid[s]})
  /\ Witness(st)
  /\ UNCHANGED <<pid, trapframe, nextpid, listVars, r, i, n>>

(* An allocation after the trapframe's has failed: freeproc(np).           *)
ForkGiveUp(p) ==
  /\ Goto(p, "f_done", "k_acquire")
  /\ r' = Set(r, p, trapframe[c[p]])
  /\ trapframe' = Set(trapframe, c[p], NULL)
  /\ UNCHANGED <<state, parent, pid, mask, lock, nextpid, listVars, c, i, n, history>>

-----------------------------------------------------------------------------
(* exit() and wait()                                                       *)

(* Children go to the first process, then the process is a ZOMBIE.         *)
Exit(p) ==
  /\ p # initproc
  /\ lock[p] = NULL
  /\ Goto(p, "user", "none")
  /\ state' = Set(state, p, "ZOMBIE")
  /\ parent' = [s \in Slot |-> IF parent[s] = p THEN initproc ELSE parent[s]]
  /\ UNCHANGED <<pid, mask, trapframe, lock, nextpid, listVars, localVars, history>>

(* wait() has found a zombie child and locked it: kfree(p->trapframe).     *)
WaitFound(p, s) ==
  /\ state[s] = "ZOMBIE" /\ parent[s] = p /\ lock[s] = NULL
  /\ Goto(p, "user", "k_acquire")
  /\ lock' = Set(lock, s, p)
  /\ c' = Set(c, p, s)
  /\ r' = Set(r, p, trapframe[s])
  /\ trapframe' = Set(trapframe, s, NULL)
  /\ UNCHANGED <<state, parent, pid, mask, nextpid, listVars, i, n, history>>

(* kfree(): acquire(&kmem.lock)                                            *)
KfreeAcquire(p) ==
  /\ Goto(p, "k_acquire", "k_push")
  /\ acquireKmem(p)
  /\ UNCHANGED <<tableVars, freelist, localVars, history>>

(* r->next = kmem.freelist; kmem.freelist = r; release(&kmem.lock)         *)
KfreePush(p) ==
  /\ Goto(p, "k_push", "k_freed")
  /\ freelist' = <<r[p]>> \o freelist
  /\ releaseKmem
  /\ r' = Set(r, p, NULL)
  /\ UNCHANGED <<tableVars, c, i, n, history>>

(* The rest of freeproc(), which leaves p->mask; release(&np->lock)        *)
FreeprocDone(p) ==
  LET s == c[p]
      st == Set(state, s, "UNUSED") IN
  /\ Goto(p, "k_freed", "user")
  /\ state' = st
  /\ pid' = Set(pid, s, 0)
  /\ parent' = Set(parent, s, NULL)
  /\ lock' = Set(lock, s, NULL)
  /\ c' = Set(c, p, NULL)
  /\ kin' = Set(kin, s, {})
  /\ Witness(st)
  /\ UNCHANGED <<mask, trapframe, nextpid, listVars, r, i, n>>

-----------------------------------------------------------------------------
(* trace() and sysinfo()                                                   *)

(* p->mask = mask, some calls or none.                                     *)
sys_trace(p) ==
  /\ pc[p] = "user" /\ p \in Tracers
  /\ \E m \in {pid[p], 0} : mask' = Set(mask, p, m)
  /\ UNCHANGED <<state, parent, pid, trapframe, lock, nextpid, listVars, pc,
                 localVars, history>>

(* Mutant: check_freemem() walks the list without kmem.lock.               *)
FreememAcquire_NoLock(p) ==
  /\ p \in Askers
  /\ Goto(p, "user", "m_walk")
  /\ r' = Set(r, p, IF freelist = <<>> THEN NULL ELSE Head(freelist))
  /\ n' = Set(n, p, 0)
  /\ UNCHANGED <<tableVars, listVars, c, i, history>>

(* acquire(&kmem.lock); r = kmem.freelist                                  *)
FreememAcquire(p) ==
  /\ p \in Askers
  /\ Goto(p, "user", "m_walk")
  /\ acquireKmem(p)
  /\ r' = Set(r, p, IF freelist = <<>> THEN NULL ELSE Head(freelist))
  /\ n' = Set(n, p, 0)
  /\ UNCHANGED <<tableVars, freelist, c, i, history>>

(* r->next, while r is on the list.                                        *)
next(page) ==
  LET after == {k \in 2 .. Len(freelist) : freelist[k - 1] = page} IN
  IF after = {} THEN NULL ELSE freelist[CHOOSE k \in after : TRUE]

(* r = r->next; freelist_num++                                             *)
FreememStep(p) ==
  /\ pc[p] = "m_walk" /\ r[p] # NULL
  /\ r' = Set(r, p, next(r[p]))
  /\ n' = Set(n, p, n[p] + 1)
  /\ UNCHANGED <<tableVars, listVars, pc, c, i, history>>

(* release(&kmem.lock); check_nproc() begins.                              *)
FreememRelease(p) ==
  /\ r[p] = NULL
  /\ Goto(p, "m_walk", "n_scan")
  /\ releaseKmem
  /\ n' = Set(n, p, 0)
  /\ i' = Set(i, p, 1)
  /\ always' = Set(always, p, Unused(state))
  /\ ever' = Set(ever, p, Unused(state))
  /\ UNCHANGED <<tableVars, freelist, c, r, kin>>

(* Mutant: i advances twice after a slot that counts.                      *)
NprocStep_SkipNext(p) ==
  /\ pc[p] = "n_scan" /\ i[p] \in Slot
  /\ n' = Set(n, p, IF state[i[p]] = "UNUSED" THEN n[p] + 1 ELSE n[p])
  /\ i' = Set(i, p, IF state[i[p]] = "UNUSED" THEN i[p] + 2 ELSE i[p] + 1)
  /\ UNCHANGED <<tableVars, listVars, pc, c, r, history>>

(* if(proc[i].state == UNUSED) nproc_num++, without the slot's lock.       *)
NprocStep(p) ==
  /\ pc[p] = "n_scan" /\ i[p] \in Slot
  /\ n' = Set(n, p, IF state[i[p]] = "UNUSED" THEN n[p] + 1 ELSE n[p])
  /\ i' = Set(i, p, i[p] + 1)
  /\ UNCHANGED <<tableVars, listVars, pc, c, r, history>>

(* check_freefd() looks at the caller's own table; copyout(), return.      *)
SysinfoReturn(p) ==
  /\ i[p] \notin Slot
  /\ Goto(p, "n_scan", "user")
  /\ n' = Set(n, p, 0)
  /\ i' = Set(i, p, 1)
  /\ always' = Set(always, p, {})
  /\ ever' = Set(ever, p, {})
  /\ UNCHANGED <<tableVars, listVars, c, r, kin>>

-----------------------------------------------------------------------------
Next ==
  \E p \in Slot :
    \/ \E s \in Slot : ForkFind(p, s) \/ WaitFound(p, s)
    \/ KallocLoad(p) \/ KallocUnlink(p)
    \/ ForkFrame(p) \/ ForkNoFrame(p) \/ ForkDone(p) \/ ForkGiveUp(p)
    \/ Exit(p)
    \/ KfreeAcquire(p) \/ KfreePush(p) \/ FreeprocDone(p)
    \/ sys_trace(p)
    \/ FreememAcquire(p) \/ FreememStep(p) \/ FreememRelease(p)
    \/ NprocStep(p) \/ SysinfoReturn(p)

Spec == Init /\ [][Next]_vars

-----------------------------------------------------------------------------
(* freemem is the number of free pages at one moment of the call: when the *)
(* walk is over, the list is as long as it was counted, whoever allocates, *)
(* frees or forks meanwhile.                                               *)
FreememOfAMoment ==
  [][\A p \in Slot : pc[p] = "m_walk" /\ pc'[p] # "m_walk" => n[p] = Len(freelist)]_vars

(* nproc is of no single moment, because check_nproc() takes no lock.  It  *)
(* is not below the number of slots UNUSED all the while, nor above that   *)
(* of the slots UNUSED at some time of the scan: exact when no process     *)
(* comes or goes.                                                          *)
NprocWithinTheScan ==
  \A p \in Slot :
    pc[p] = "n_scan" /\ i[p] \notin Slot =>
      /\ Cardinality(always[p]) <= n[p]
      /\ n[p] <= Cardinality(ever[p])

(* A process is traced because it or an ancestor called trace(), never     *)
(* because of the process that had its slot before, whose mask freeproc()  *)
(* leaves there.                                                           *)
TracedByAncestors ==
  \A s \in Slot : state[s] # "UNUSED" => mask[s] \in kin[s] \cup {0}

(* The page that a kalloc() has taken from the list and not yet returned.  *)
Picked(p) == IF pc[p] = "a_return" THEN r[p] ELSE NULL

Abstract == INSTANCE PageAllocator
  WITH CPU <- Slot,
       hand <- [p \in Slot |-> Picked(p)],
       out <- {trapframe[s] : s \in Slot} \ {NULL}

(* The allocator of Lab2, which has one list, keeps the promise that the   *)
(* lists per CPU of Lab3 keep.                                             *)
ImplementsPageAllocator == Abstract!Spec
=============================================================================
