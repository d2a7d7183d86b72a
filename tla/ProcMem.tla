------------------------------ MODULE ProcMem -------------------------------
(***************************************************************************)
(* The pages a process is made of, Lab4/kernel: allocproc(), freeproc(),   *)
(* proc_pagetable(), fork() and growproc() in proc.c, exec() in exec.c,    *)
(* and in vm.c walk(), mappages(), proc_kvminit(), freewalk(),             *)
(* proc_freewalk() and vmcopypage(), one kalloc() at a time.               *)
(*                                                                         *)
(* A page table is the set of positions that are filled in it.  <<>> is    *)
(* its root, <<i>> and <<i, j>> are the pages that the entries i of the    *)
(* root and j of that page lead to, and <<i, j, k>> is a mapping: i, j, k  *)
(* are the indices PX(2, va), PX(1, va), PX(0, va).  {} is no page table.  *)
(*                                                                         *)
(* kalloc() may return 0 at any time: pipes and other processes take pages *)
(* and give them back.  Sizes are whole pages: UserVm has the others.      *)
(***************************************************************************)
EXTENDS Integers, FiniteSets, SequencesExt

CONSTANTS
  NPROC,     \* slots of the process table
  PERTABLE,  \* user pages that one page-table page maps; 512 in the machine
  MAXPAGES,  \* user pages below PLIC
  Images,    \* the sizes of the programs that exec() loads, with their stacks
  NULL       \* no process, no panic

(* What the kernel says when it stops.                                     *)
Panics == {"kerneltrap", "proc_kvmmap", "vmcopypage", "remap",
           "uvmunmap: not mapped", "freewalk: leaf"}

ASSUME NPROCAssumption    == NPROC \in Nat \ {0}
ASSUME PERTABLEAssumption == PERTABLE \in 1 .. 512
ASSUME MAXPAGESAssumption == MAXPAGES \in 1 .. 96 * PERTABLE
ASSUME ImagesAssumption   == Images \subseteq 1 .. MAXPAGES
ASSUME NULLAssumption     == NULL \notin Nat \cup Panics

Slot == 1 .. NPROC
initproc == 1 \* userinit() runs first and gets the first slot

-----------------------------------------------------------------------------
(* Addresses: a page of each region of memlayout.h                         *)

TRAMPOLINE  == <<255, 511, 511>>
TRAPFRAME   == <<255, 511, 510>>
KSTACK(s)   == <<255, 511, 511 - 2 * s>>
UserPage(a) == <<0, a \div PERTABLE, a % PERTABLE>>
UserPages(n) == {UserPage(a) : a \in 0 .. n - 1}

(* What proc_kvminit() maps: UART0, VIRTIO0, PLIC, the kernel's text and   *)
(* data, the trampoline.                                                   *)
KernelMap == << <<0, 128, 0>>, <<0, 128, 1>>, <<0, 96, 0>>,
                <<2, 0, 0>>, <<2, 1, 0>>, TRAMPOLINE >>

-----------------------------------------------------------------------------
(* Page tables                                                             *)

Leaves(t)     == {x \in t : Len(x) = 3}
TablePages(t) == {x \in t : Len(x) < 3}

(* The pages that walk(t, x, 1) has to allocate, below the root.           *)
Missing(t, x) == {<<x[1]>>, <<x[1], x[2]>>} \ t

(* proc_freepagetable(t, n): uvmunmap() panics at a page that is not       *)
(* mapped, freewalk() at one that still is.                                *)
FreeTablePanic(t, n) ==
  LET known == {TRAMPOLINE, TRAPFRAME} \cup UserPages(n) IN
  IF ~(known \subseteq t)   THEN "uvmunmap: not mapped"
  ELSE IF Leaves(t) # known THEN "freewalk: leaf"
  ELSE NULL

(* The pages that proc_freepagetable(t, n) gives back.                     *)
FreeTable(t, n) == n + Cardinality(TablePages(t))

-----------------------------------------------------------------------------
VARIABLES
  used,    \* p->state is not UNUSED
  sz,      \* p->sz
  frame,   \* p->trapframe is a page
  table,   \* page tables: "user", "kernel", and exec()'s "new" one
  call,    \* the system call that a process is in
  stage,   \* which allocation of it
  i,       \* its loop index
  tgt,     \* the size it is reaching for
  np,      \* fork()'s np
  taken,   \* pages that kalloc() gave out and kfree() has not got back
  zeroed,  \* history: a process's page 0 was taken for a page table
  panic    \* the function the kernel has stopped in, if it has

vars == <<used, sz, frame, table, call, stage, i, tgt, np, taken, zeroed, panic>>

(* A process with n pages, as userinit(), fork() and exec() leave it.      *)
Closed(leaves) == UNION {{<<>>, <<x[1]>>, <<x[1], x[2]>>, x} : x \in leaves}
UserTable(n) == Closed({TRAMPOLINE, TRAPFRAME} \cup UserPages(n))
KernelTable(s, n) == Closed(ToSet(KernelMap) \cup {KSTACK(s)} \cup UserPages(n))

(* userinit(): the first process has one page.                             *)
Init ==
  LET user == UserTable(1)
      kernel == KernelTable(initproc, 1) IN
  /\ used = [s \in Slot |-> s = initproc]
  /\ sz = [s \in Slot |-> IF s = initproc THEN 1 ELSE 0]
  /\ frame = [s \in Slot |-> s = initproc]
  /\ table = [s \in Slot |->
                [user |-> IF s = initproc THEN user ELSE {},
                 kernel |-> IF s = initproc THEN kernel ELSE {},
                 new |-> {}]]
  /\ call = [s \in Slot |-> "none"]
  /\ stage = [s \in Slot |-> "none"]
  /\ i = [s \in Slot |-> 0]
  /\ tgt = [s \in Slot |-> 0]
  /\ np = [s \in Slot |-> NULL]
  /\ taken = 2 + Cardinality(TablePages(user)) + Cardinality(TablePages(kernel))
  /\ zeroed = FALSE
  /\ panic = NULL

In(p, st) == panic = NULL /\ stage[p] = st

Go(p, st, j) ==
  /\ stage' = [stage EXCEPT ![p] = st]
  /\ i' = [i EXCEPT ![p] = j]

(* The call is over.                                                       *)
Return(p) ==
  /\ Go(p, "none", 0)
  /\ call' = [call EXCEPT ![p] = "none"]
  /\ tgt' = [tgt EXCEPT ![p] = 0]
  /\ np' = [np EXCEPT ![p] = NULL]

Idle(p) == panic = NULL /\ used[p] /\ call[p] = "none"

(* The table that p's call works on: whose, and which.                     *)
Worked(p) == IF call[p] = "fork" THEN np[p] ELSE p
WorkedKind(p) ==
  IF stage[p] \in {"kroot", "kmap", "kstack", "copy"} THEN "kernel"
  ELSE IF call[p] = "exec" THEN "new" ELSE "user"

TargetTable(p) == table[Worked(p)][WorkedKind(p)]
SetTarget(p, t) == table' = [table EXCEPT ![Worked(p)][WorkedKind(p)] = t]

(* The address that it maps next.                                          *)
Wanted(p) ==
  CASE stage[p] = "tramp"  -> TRAMPOLINE
    [] stage[p] = "tframe" -> TRAPFRAME
    [] stage[p] = "kmap"   -> KernelMap[i[p]]
    [] stage[p] = "kstack" -> KSTACK(np[p])
    [] OTHER               -> UserPage(i[p])

(* p is in walk(alloc = 1), called by mappages() or vmcopypage().          *)
Walking(p) ==
  /\ panic = NULL
  /\ stage[p] \in {"tramp", "tframe", "kmap", "kstack", "map", "copy"}
  /\ stage[p] = "copy" => i[p] < tgt[p]
  /\ stage[p] = "kstack" => <<>> \in TargetTable(p)

(* walk() needs a page for the table.                                      *)
Lacking(p) == Walking(p) /\ Missing(TargetTable(p), Wanted(p)) # {}

-----------------------------------------------------------------------------
(* The calls begin                                                         *)

(* allocproc() has found np UNUSED and keeps its lock.                     *)
ForkEnter(p, c) ==
  /\ Idle(p)
  /\ ~used[c] /\ \A q \in Slot : np[q] # c
  /\ call' = [call EXCEPT ![p] = "fork"]
  /\ Go(p, "frame", 0)
  /\ tgt' = [tgt EXCEPT ![p] = sz[p]]
  /\ np' = [np EXCEPT ![p] = c]
  /\ UNCHANGED <<used, sz, frame, table, taken, zeroed, panic>>

ExecEnter(p, n) ==
  /\ Idle(p)
  /\ call' = [call EXCEPT ![p] = "exec"]
  /\ Go(p, "root", 0)
  /\ tgt' = [tgt EXCEPT ![p] = n]
  /\ UNCHANGED <<used, sz, frame, table, np, taken, zeroed, panic>>

(* growproc(), to n pages: "sz + n >= PLIC" is refused.                    *)
GrowEnter(p, n) ==
  /\ Idle(p)
  /\ sz[p] < n /\ n < MAXPAGES
  /\ call' = [call EXCEPT ![p] = "grow"]
  /\ Go(p, "mem", sz[p])
  /\ tgt' = [tgt EXCEPT ![p] = n]
  /\ UNCHANGED <<used, sz, frame, table, np, taken, zeroed, panic>>

(* uvmdealloc(), and uvmunmap() of k_pagetable, to n pages.                *)
Shrink(p, n) ==
  LET gone == UserPages(sz[p]) \ UserPages(n) IN
  /\ Idle(p)
  /\ n < sz[p]
  /\ sz' = [sz EXCEPT ![p] = n]
  /\ table' = [table EXCEPT ![p].user = @ \ gone, ![p].kernel = @ \ gone]
  /\ taken' = taken - Cardinality(gone)
  /\ panic' = IF gone \subseteq table[p].user \cap table[p].kernel
              THEN NULL ELSE "uvmunmap: not mapped"
  /\ UNCHANGED <<used, frame, call, stage, i, tgt, np, zeroed>>

-----------------------------------------------------------------------------
(* kalloc() returns a page                                                 *)

(* p->trapframe                                                            *)
TakeFrame(p) ==
  /\ In(p, "frame")
  /\ frame' = [frame EXCEPT ![np[p]] = TRUE]
  /\ taken' = taken + 1
  /\ Go(p, "root", 0)
  /\ UNCHANGED <<used, sz, table, call, tgt, np, zeroed, panic>>

(* uvmcreate(); the first lines of proc_kvminit()                          *)
TakeRoot(p) ==
  /\ \/ In(p, "root") /\ Go(p, "tramp", 0)
     \/ In(p, "kroot") /\ Go(p, "kmap", 1)
  /\ SetTarget(p, {<<>>})
  /\ taken' = taken + 1
  /\ UNCHANGED <<used, sz, frame, call, tgt, np, zeroed, panic>>

(* walk(): a page-table page, the upper one first.                         *)
TakeTable(p) ==
  LET lack == Missing(TargetTable(p), Wanted(p)) IN
  /\ Lacking(p)
  /\ \E x \in lack :
       /\ \A y \in lack : Len(x) <= Len(y)
       /\ SetTarget(p, TargetTable(p) \cup {x})
  /\ taken' = taken + 1
  /\ UNCHANGED <<used, sz, frame, call, stage, i, tgt, np, zeroed, panic>>

(* uvmalloc(), uvmcopy(): mem                                              *)
TakePage(p) ==
  /\ In(p, "mem") /\ i[p] < tgt[p]
  /\ taken' = taken + 1
  /\ Go(p, "map", i[p])
  /\ UNCHANGED <<used, sz, frame, table, call, tgt, np, zeroed, panic>>

(* The PTE is written, and the next page is looked at; mappages() panics   *)
(* when it is there already.                                               *)
MapPage(p) ==
  /\ Walking(p) /\ ~Lacking(p)
  /\ SetTarget(p, TargetTable(p) \cup {Wanted(p)})
  /\ panic' = IF stage[p] # "copy" /\ Wanted(p) \in TargetTable(p)
              THEN "remap" ELSE NULL
  /\ CASE stage[p] = "tramp"  -> Go(p, "tframe", 0)
       [] stage[p] = "tframe" -> Go(p, IF call[p] = "fork" THEN "kroot" ELSE "mem", 0)
       [] stage[p] = "kmap"   -> IF i[p] < Len(KernelMap)
                                 THEN Go(p, "kmap", i[p] + 1)
                                 ELSE Go(p, "kstack", 0)
       [] stage[p] = "kstack" -> Go(p, "mem", 0)
       [] stage[p] = "map"    -> Go(p, "mem", i[p] + 1)
       [] stage[p] = "copy"   -> Go(p, "copy", i[p] + 1)
  /\ UNCHANGED <<used, sz, frame, call, tgt, np, taken, zeroed>>

-----------------------------------------------------------------------------
(* kalloc() returns 0                                                      *)

(* freeproc(c), where c->pagetable is t and maps n user pages: the slot    *)
(* has nothing left.  The caller has given back some pages of its own.     *)
FreeProcOf(c, t, n, given) ==
  /\ frame' = [frame EXCEPT ![c] = FALSE]
  /\ table' = [table EXCEPT ![c].user = {}, ![c].kernel = {}]
  /\ taken' = taken - given
       - (IF frame[c] THEN 1 ELSE 0)
       - (IF t = {} THEN 0 ELSE FreeTable(t, n))
       - (IF <<>> \in table[c].kernel
          THEN Cardinality(TablePages(table[c].kernel)) ELSE 0)
  /\ panic' = IF t = {} THEN NULL ELSE FreeTablePanic(t, n)

(* "release(&p->lock); return 0": there is nothing to free.                *)
NoFrame(p) ==
  /\ In(p, "frame")
  /\ Return(p)
  /\ UNCHANGED <<used, sz, frame, table, taken, zeroed, panic>>

(* Mutant: allocproc() returns without freeproc(p).                        *)
NoTable_NoFreeproc(p) ==
  LET given == Cardinality(TablePages(TargetTable(p))) IN
  /\ In(p, "root") \/ (Lacking(p) /\ stage[p] \in {"tramp", "tframe"})
  /\ SetTarget(p, {})
  /\ taken' = taken - given
  /\ Return(p)
  /\ UNCHANGED <<used, sz, frame, zeroed, panic>>

(* proc_pagetable() gives back what it has, uvmfree(pagetable, 0), and     *)
(* returns 0; so does allocproc(), or exec() goes to bad.                  *)
NoTable(p) ==
  LET given == Cardinality(TablePages(TargetTable(p))) IN
  /\ In(p, "root") \/ (Lacking(p) /\ stage[p] \in {"tramp", "tframe"})
  /\ \/ call[p] = "fork" /\ FreeProcOf(np[p], {}, 0, given)
     \/ /\ call[p] = "exec"
        /\ SetTarget(p, {})
        /\ taken' = taken - given
        /\ UNCHANGED <<frame, panic>>
  /\ Return(p)
  /\ UNCHANGED <<used, sz, zeroed>>

(* proc_kvminit() does not look at what kalloc() returned: it clears the   *)
(* page at address 0, which is the caller's own first page, and goes on to *)
(* use it as the root.  Without such a page the kernel faults.  It happens *)
(* once at most: a bound, because every time leaks pages.                  *)
NoKernelRoot(p) ==
  /\ In(p, "kroot") /\ ~zeroed
  /\ IF UserPage(0) \in table[p].kernel
     THEN zeroed' = TRUE /\ UNCHANGED panic
     ELSE panic' = "kerneltrap" /\ UNCHANGED zeroed
  /\ Go(p, "kmap", 1)
  /\ UNCHANGED <<used, sz, frame, table, call, tgt, np, taken>>

(* allocproc() finds k_pagetable to be 0: freeproc(np), return 0.  What    *)
(* was allocated below that root is lost.                                  *)
RootWasNull(p) ==
  LET c == np[p] IN
  /\ In(p, "kstack") /\ <<>> \notin table[c].kernel
  /\ FreeProcOf(c, table[c].user, 0, 0)
  /\ Return(p)
  /\ UNCHANGED <<used, sz, zeroed>>

(* proc_kvmmap() and vmcopypage() do not return an error.                  *)
NoTablePanics(p) ==
  /\ Lacking(p)
  /\ \/ stage[p] \in {"kmap", "kstack"} /\ panic' = "proc_kvmmap"
     \/ stage[p] = "copy" /\ panic' = "vmcopypage"
  /\ UNCHANGED <<used, sz, frame, table, call, stage, i, tgt, np, taken, zeroed>>

(* Another user page is wanted, and there is none for it or for the table. *)
NoUserPage(p) ==
  \/ In(p, "mem") /\ i[p] < tgt[p]
  \/ Lacking(p) /\ stage[p] = "map"

(* The mem that is then given back with kfree().                           *)
Mem(p) == IF stage[p] = "map" THEN 1 ELSE 0

(* uvmcopy()'s err: uvmunmap(new, 0, i / PGSIZE, 1); then freeproc(np).    *)
ForkNoPage(p) ==
  /\ NoUserPage(p) /\ call[p] = "fork"
  /\ FreeProcOf(np[p], table[np[p]].user \ UserPages(i[p]), 0, i[p] + Mem(p))
  /\ Return(p)
  /\ UNCHANGED <<used, sz, zeroed>>

(* Mutant: uvmalloc() returns without kfree(mem).                          *)
GrowNoPage_KeepMem(p) ==
  LET new == UserPages(i[p]) \ UserPages(sz[p]) IN
  /\ NoUserPage(p) /\ call[p] = "grow"
  /\ table' = [table EXCEPT ![p].user = @ \ new]
  /\ taken' = taken - Cardinality(new)
  /\ Return(p)
  /\ UNCHANGED <<used, sz, frame, zeroed, panic>>

(* uvmdealloc(pagetable, a, oldsz), return -1.                             *)
GrowNoPage(p) ==
  LET new == UserPages(i[p]) \ UserPages(sz[p]) IN
  /\ NoUserPage(p) /\ call[p] = "grow"
  /\ table' = [table EXCEPT ![p].user = @ \ new]
  /\ taken' = taken - Cardinality(new) - Mem(p)
  /\ Return(p)
  /\ UNCHANGED <<used, sz, frame, zeroed, panic>>

(* bad: proc_freepagetable(pagetable, sz), return -1.  The file and the    *)
(* arguments are other reasons.                                            *)
ExecBad(p) ==
  /\ NoUserPage(p) \/ In(p, "mem")
  /\ call[p] = "exec"
  /\ table' = [table EXCEPT ![p].new = {}]
  /\ taken' = taken - FreeTable(table[p].new, i[p]) - Mem(p)
  /\ panic' = FreeTablePanic(table[p].new, i[p])
  /\ Return(p)
  /\ UNCHANGED <<used, sz, frame, zeroed>>

-----------------------------------------------------------------------------
(* The calls end                                                           *)

Filled(p) == In(p, "mem") /\ i[p] = tgt[p]

(* vmcopypage() begins: all pages of a child, the new ones of a growth.    *)
CopyBegin(p) ==
  /\ Filled(p) /\ call[p] \in {"fork", "grow"}
  /\ Go(p, "copy", IF call[p] = "fork" THEN 0 ELSE sz[p])
  /\ UNCHANGED <<used, sz, frame, table, call, tgt, np, taken, zeroed, panic>>

(* The old image is freed and unmapped from k_pagetable, then the new one  *)
(* is copied there.                                                        *)
ExecCommit(p) ==
  LET old == table[p].user IN
  /\ Filled(p) /\ call[p] = "exec"
  /\ sz' = [sz EXCEPT ![p] = tgt[p]]
  /\ table' = [table EXCEPT ![p].user = table[p].new,
                            ![p].new = {},
                            ![p].kernel = @ \ UserPages(sz[p])]
  /\ taken' = taken - FreeTable(old, sz[p])
  /\ panic' = IF UserPages(sz[p]) \subseteq table[p].kernel
              THEN FreeTablePanic(old, sz[p]) ELSE "uvmunmap: not mapped"
  /\ Go(p, "copy", 0)
  /\ UNCHANGED <<used, frame, call, tgt, np, zeroed>>

(* The child can be seen, or the new size is set.                          *)
CallDone(p) ==
  LET s == Worked(p) IN
  /\ In(p, "copy") /\ i[p] = tgt[p]
  /\ used' = [used EXCEPT ![s] = TRUE]
  /\ sz' = [sz EXCEPT ![s] = tgt[p]]
  /\ Return(p)
  /\ UNCHANGED <<frame, table, taken, zeroed, panic>>

(* Mutant: freeproc() sets p->sz before it frees the page table.           *)
FreeProc_SizeFirst(p) ==
  /\ Idle(p) /\ p # initproc
  /\ \E q \in Slot \ {p} : Idle(q)
  /\ FreeProcOf(p, table[p].user, 0, 0)
  /\ used' = [used EXCEPT ![p] = FALSE]
  /\ sz' = [sz EXCEPT ![p] = 0]
  /\ UNCHANGED <<call, stage, i, tgt, np, zeroed>>

(* exit(), and freeproc() when another process wait()s.                    *)
FreeProc(p) ==
  /\ Idle(p) /\ p # initproc
  /\ \E q \in Slot \ {p} : Idle(q)
  /\ FreeProcOf(p, table[p].user, sz[p], 0)
  /\ used' = [used EXCEPT ![p] = FALSE]
  /\ sz' = [sz EXCEPT ![p] = 0]
  /\ UNCHANGED <<call, stage, i, tgt, np, zeroed>>

-----------------------------------------------------------------------------
Take(p) == TakeFrame(p) \/ TakeRoot(p) \/ TakeTable(p) \/ TakePage(p) \/ MapPage(p)

Fail(p) ==
  \/ NoFrame(p) \/ NoTable(p) \/ NoKernelRoot(p) \/ RootWasNull(p)
  \/ NoTablePanics(p) \/ ForkNoPage(p) \/ GrowNoPage(p) \/ ExecBad(p)

Next ==
  \E p \in Slot :
    \/ \E c \in Slot : ForkEnter(p, c)
    \/ \E n \in Images : ExecEnter(p, n)
    \/ \E n \in 0 .. MAXPAGES : GrowEnter(p, n) \/ Shrink(p, n)
    \/ Take(p) \/ Fail(p)
    \/ CopyBegin(p) \/ ExecCommit(p) \/ CallDone(p) \/ FreeProc(p)

Spec == Init /\ [][Next]_vars

-----------------------------------------------------------------------------
Position == {x \in Seq(Int) : Len(x) <= 3}

(* A page table: every position with those above it, but for a root that   *)
(* is somebody's first page.                                               *)
Grown(t) ==
  /\ \A x \in t : Len(x) \in {2, 3} => <<x[1]>> \in t
  /\ \A x \in t : Len(x) = 3 => <<x[1], x[2]>> \in t

(* Every variable has its type.                                            *)
TypeOK ==
  /\ used \in [Slot -> BOOLEAN]
  /\ sz \in [Slot -> 0 .. MAXPAGES]
  /\ frame \in [Slot -> BOOLEAN]
  /\ table \in [Slot -> [{"user", "kernel", "new"} -> SUBSET Position]]
  /\ \A s \in Slot : Grown(table[s].user) /\ Grown(table[s].kernel) /\ Grown(table[s].new)
  /\ call \in [Slot -> {"none", "fork", "exec", "grow"}]
  /\ stage \in [Slot -> {"none", "frame", "root", "tramp", "tframe", "kroot",
                         "kmap", "kstack", "mem", "map", "copy"}]
  /\ i \in [Slot -> 0 .. MAXPAGES + Len(KernelMap)]
  /\ tgt \in [Slot -> 0 .. MAXPAGES]
  /\ np \in [Slot -> Slot \cup {NULL}]
  /\ taken \in Nat
  /\ zeroed \in BOOLEAN
  /\ panic \in Panics \cup {NULL}

(* The pages that slot s holds in one of these places, by their positions: *)
(* its trapframe, the page it is about to map, or those of a table.        *)
Place == {"frame", "mem", "user", "new", "kernel"}

Holds(s, place) ==
  CASE place = "frame"  -> IF frame[s] THEN {<<>>} ELSE {}
    [] place = "mem"    -> IF stage[s] = "map" THEN {<<>>} ELSE {}
    [] place = "user"   -> table[s].user \ {TRAMPOLINE, TRAPFRAME}
    [] place = "new"    -> table[s].new \ {TRAMPOLINE, TRAPFRAME}
    [] place = "kernel" -> TablePages(table[s].kernel)

Held == UNION {{q} \X Holds(q[1], q[2]) : q \in Slot \X Place}

(* Whatever allocation of fork(), exec() or sbrk() fails, no page is lost  *)
(* and none is given back twice: those in use are those that the processes *)
(* hold.  The exception is a page 0 that proc_kvminit() has overwritten.   *)
PagesConserved ==
  panic = NULL /\ ~zeroed => taken = Cardinality(Held)

(* The kernel stops for want of a page-table page, never because a table   *)
(* is not in the state that mappages(), uvmunmap() or freewalk() expects.  *)
OnlyMemoryPanics ==
  panic \in {NULL, "proc_kvmmap", "vmcopypage", "kerneltrap"}

(* Whatever has failed before, no slot is left half made.  A process that  *)
(* is in user space has two complete page tables: its memory, trampoline   *)
(* and trapframe in one; its memory, the kernel and its stack in the other.*)
(* A slot that is UNUSED, and that no fork() is filling, holds no page.    *)
WholeOrEmpty ==
  panic = NULL =>
    \A s \in Slot :
      /\ Idle(s) =>
           /\ frame[s]
           /\ Leaves(table[s].user) = {TRAMPOLINE, TRAPFRAME} \cup UserPages(sz[s])
           /\ Leaves(table[s].kernel)
                = ToSet(KernelMap) \cup {KSTACK(s)} \cup UserPages(sz[s])
      /\ ~used[s] /\ (\A q \in Slot : np[q] # s) =>
           \A place \in Place : Holds(s, place) = {}
=============================================================================
