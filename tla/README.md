# The xv6 labs of HITSZ_OS_2022 in TLA+

The repository holds four labs over the xv6-riscv kernel: user programs
(`Lab1`), two system calls (`Lab2`), per-CPU memory lists and a hashed buffer
cache (`Lab3`), and a kernel page table per process (`Lab4`). Only the files the
labs change are there; what they call (`spinlock.c`, `sleeplock.c`, `trap.c`,
`virtio_disk.c`, `swtch.S`, the file system) is modelled from its use and is
marked *external* in `PROJECT.json`.

## Inventory

| component | state | operations | interacts through | what is hard |
|---|---|---|---|---|
| page allocator, `Lab3/kernel/kalloc.c` | `kmems[NCPU]`: a lock and a free list per CPU | `kinit`, `kfree`, `kalloc` with its steal loop | called by everything that takes memory, on every CPU at once | stealing between lists with one lock held at a time |
| buffer cache, `Lab3/kernel/bio.c` | `NBUF` buffers (`dev`, `blockno`, `refcnt`, `valid`, `lock`, `data`) in `NBUCKETS` locked LRU lists | `bget`, `bread`, `bwrite`, `brelse`, `bpin`, `bunpin` | file system above, disk below, a sleep lock per buffer | a miss releases the bucket's lock and steals a buffer from another bucket |
| process table, `Lab4/kernel/proc.c` | `proc[NPROC]`: `state`, `parent`, `killed`, `pid`, `xstate`, `lock` | `allocproc`, `freeproc`, `fork`, `exit`, `reparent`, `wait`, `kill` | per-process locks, sleep on the parent, slots are reused | parent and child exit at once; two locks held; links read without a lock |
| scheduler, `Lab4/kernel/proc.c` | `cpus[NCPU]` (`proc`, `context`), `p->state`, `p->chan`, `satp` | `scheduler`, `sched`, `swtch`, `yield`, `forkret`, `sleep`, `wakeup` | a lock taken on one side of `swtch` and released on the other; `sys_sleep` and the clock interrupt | lost wakeups, a stack used by two CPUs, a page table in use when it is freed |
| user memory, `Lab4/kernel/{proc,vm,exec}.c` | `p->sz`, `p->pagetable`, `p->k_pagetable`, free pages | `growproc`, `fork`, `exec`, `freeproc`, `uvm*`, `vmcopypage` | the allocator; `copyin` reads user memory through `k_pagetable` | two tables to keep in step, memory that runs out half-way, sizes inside pages |
| process creation and page tables, `Lab4/kernel/{proc,vm,exec}.c` | `p->trapframe`, three levels of page-table pages in two tables per process | `allocproc`, `proc_pagetable`, `proc_kvminit`, `walk`, `mappages`, `freewalk`, `proc_freewalk`, `vmcopypage` | everything that builds calls `kalloc`, which may return 0 | a failure after some of the pages were taken; leaks and double frees of page-table pages |
| `trace`, `sysinfo`, `Lab2/kernel` | `p->mask`, `kmem.freelist`, `p->state` | `syscall`, `sys_trace`, `sys_sysinfo`, `check_*`, `kalloc`, `kfree`, `fork`, `wait` | read the process table and the one free list | counts taken while others change them; what a reused slot still holds |
| user programs, `Lab1` | processes and pipes | `primes`, `pingpong`, `find`, `xargs` | `fork`, `pipe`, `read`, `write`, `wait` | everyone waits on everyone; end of file |

What makes each correct: a page is in one place and none is lost; a block has
one buffer, one user and one contents, and no claimed buffer is taken away; a
process has a living parent that learns of its exit, and is freed only off its
CPU; no process runs twice, none starves, no wakeup is lost; a page table maps
exactly what the size says, and the kernel's copy never points elsewhere; a call
that fails half-way leaves everything as it was; a count was true.

## Modules

```
PageAllocator  <--implements--  Kalloc   <-- KallocSearch (history of the lists) <-- KallocProofs
BlockStore     <--implements--  Bcache   <-- MCBcache
                                         <-- BcacheRecency (history of releases) <-- BcacheProofs
                                         <-- BcacheSearch (history of a search)  <-- BcacheProofs
                                MCBcacheRecency, MCBcacheSearch: the two on the instances of MCBcache
Lifecycle      the table and its locks   <-- LifecycleProofs
Sched          CPUs over that table      <-- SchedProofs
UserVm         user memory, in bytes     <-- UserVmProofs, MCUserVm
ProcMem        the pages a process is made of, kalloc() by kalloc()   <-- ProcMemProofs
PageAllocator  <--implements--  SysInfo  <-- SysInfoProofs  (trace, sysinfo, one list)
Sieve          the chain of processes of Lab1/primes.c   <-- SieveProofs
```

A comment above every action names the code it stands for; `PROJECT.json` maps
it to lines. Definitions called `<Action>_<Change>` are deliberately wrong
versions of the action that follows: each property is violated when one of them
takes the action's place, which shows that the property speaks of the code.

**PageAllocator / Kalloc** (`Lab3/kernel/kalloc.c`). `freelist[c]` is CPU c's list,
`lock[c]` its lock, `pc[c]` the place in `kalloc` or `kfree` of the code running
on c (interrupts are off, so it is one thread per CPU), `i[c]` the steal loop's
index. Reading `r = freelist` and writing `freelist = r->next` are two steps, so
mutual exclusion is really what protects the lists. The abstract allocator has
the set of pages out and the page chosen by each call. KallocSearch adds `stocked[c]`, the
lists that were never empty since c's `kalloc` began; every step is a step of Kalloc and the
history's update.

**BlockStore / Bcache** (`Lab3/kernel/bio.c`). `chain[h]` is the list of bucket h,
`lock[h]` its lock, held by a process across steps; `bget` is cut where it
acquires a lock, and where `brelse`, `bpin` and `bunpin` have read the bucket number into
`num[p]` and do not have the lock yet. Sleep lock, disk and the file system (which modifies data
between `bread` and `brelse`, and pins) are external. The abstract store has one
contents per block, on disk or in the cache. BcacheRecency adds the order of releases,
BcacheSearch the buckets that had an unused buffer all through a `bget`.

**Lifecycle** (`Lab4/kernel/proc.c`). One process per slot, `lock[s]` held by a
process, loops of `wait` and `reparent` one slot at a time, the unlocked reads of
`pp->parent` as steps of their own. CPUs are not modelled: a RUNNABLE process may
always be picked up. `kill` does not look at the slot's state, as in the code.

**Sched** (`Lab4/kernel/proc.c`, `Lab2/kernel/sysproc.c`). Here CPUs are explicit
and hold the locks: `cpc[c]` is scheduler()'s place, `proc[c]` is `c->proc`,
`satp[c]` the page table in use, `pc[p]` the thread's place. `sleep` is cut at
each lock operation. `ticks - ticks0 < n` is kept as `left`, the ticks still to
come. The clock interrupt of the first CPU runs when that CPU holds no lock and
suspends what it interrupts. There is one sleep channel, so `p->chan` is left out.

**UserVm** (`Lab4/kernel/{proc,vm,exec}.c`). Sizes are in bytes with a small
`PGSIZE`, because the rounding is where the errors are. A table is a function
from pages to physical pages; `kpt` is the part of `k_pagetable` below PLIC.
Pages are allocated one by one, so that calls of several processes compete;
the rest of each call is one step. `aligned` is a history variable.

**ProcMem** (`Lab4/kernel/{proc,vm,exec}.c`). What UserVm takes as one step or as a
function: a page table is the set of positions filled in its three levels, the
tuples of up to three indices, so that `walk` allocates the missing prefixes of a
position, `freewalk` panics when a mapping is left, and the pages of a table are
counted. Every `kalloc` of `fork`, `exec` and `sbrk` is a step that may find
nothing, at any time, as if other processes and pipes held the rest; `taken` counts
the pages that are out. `stage[p]` names the allocation that p's call is at, `i[p]`
its loop index, `np[p]` the slot that `fork` fills. `zeroed` records that
`proc_kvminit` went on with the address 0. A process appears and goes in
one step (Lifecycle has the steps). `procinit`'s kernel stacks are not counted.

**SysInfo** (`Lab2/kernel/{syscall,sysproc,proc,kalloc}.c`). Processes fork, exit, wait,
trace and ask at once. `check_freemem` walks the list page by page under
`kmem.lock`, `check_nproc` reads the slots one by one without a lock. A process has
one page, its trapframe's; a later allocation that fails is `ForkGiveUp`. `always`,
`ever` and `kin` are history variables. The same `PageAllocator` that Kalloc
implements is implemented here by one list under one lock, with the processes as
its callers.

**Sieve** (`Lab1/primes.c`). Process k + 1 is forked by process k and reads
`pipe[k + 1]`; `n` and `num` are the two ints of a stage (`n` is main's `i`),
`fds` the number of its open descriptors. A read waits while the pipe is empty
and its writer alive, a write while it is full. The program reads one byte into
an int that it never sets; the other three bytes are taken to be 0, without which
nothing about its output can be said.

## Runs

| run | instance | shows |
|---|---|---|
| `kalloc` | 3 CPUs, 3 pages | no page lost or in two places, `kalloc` returns 0 only if each list was empty at some moment of the call, some call always returns, implements `PageAllocator` |
| `bcache_shared` | 3 processes, 4 blocks, 3 buckets, 2 buffers, symmetric | counts exact, one place per buffer and the right bucket when in use, LRU in the own bucket, never stolen in use |
| `bcache_private` | 2 processes, 4 blocks, 3 buckets, 2 buffers, pins | when no block is shared, no write is lost, implements `BlockStore`; `bget` panics only if each bucket was without an unused buffer at some moment of the call |
| `bcache_two_users` | 2 processes, 2 buckets | **violated**: two buffers for one block |
| `bcache_deadlock` | 3 processes, 2 buckets, fairness | **violated**: two stealing processes wait for each other |
| `lifecycle` | 4 slots, one of them killed | living parents, links stable when used, exits noticed but for two cases of init, killed processes awake, no circle of locks without an exiting orphan, slots freed off their CPU |
| `sched` | 2 CPUs, 3 slots, naps of 2 ticks, fairness | one CPU per process, live page tables, sched()'s assertions, no lost wakeup, no starvation, `sys_sleep` returns |
| `uservm` | 3 slots, 5 pages of 2 bytes, symmetric | pages conserved, tables match sizes, no dangling entries, in step but for the last page of an unaligned size |
| `uservm_sync` | same | **violated**: growth from inside a page is not copied |
| `procmem` | 2 slots, 2 pages per page-table page, sizes to 4 pages, images of 3 | pages conserved whatever fails, no panic but for want of a page-table page, slots whole or empty |
| `sysinfo` | 4 slots, 2 pages, pids to 4, 2 slots ask, 2 trace | freemem of one moment, nproc within the scan's bounds, masks inherited and never left over, implements `PageAllocator` |
| `sieve` | the program's numbers, 2 to 35, and 16 descriptors; pipes of one byte | primes printed in order, descriptors suffice, main ends |

*Bounds.* Three CPUs are the least with a list already passed and a list not yet
reached. Three buckets let a steal go past one bucket; with two buffers every
lookup competes, and in `bcache_shared` three of the four blocks share a bucket, so that there is an
unused buffer to choose. Four slots allow init, a parent, a child and a grandchild in a
reused slot. Two CPUs and three slots make processes wait for a CPU; a nap of two
ticks makes the loop in `sys_sleep` go round. Two-byte pages have one size inside
a page; five pages are too few for three processes, so every allocation fails
somewhere. In ProcMem two slots are enough because processes share nothing there but the count
of pages and the slot that is filled, and two pages per page-table page make every
process need a second one; the overwritten page 0 happens once, because each time
leaks pages that nothing can find. In SysInfo two forks compete for a page and, with
three children for two pages, `kalloc` fails; one slot is used twice. A pipe of one byte makes writers wait most often; with longer ones a
stage only runs further ahead. `MAXPIN` bounds pins, `Naps`, `Sleepers`, `Mortal`, `Killable`,
`Deltas`, `SegBytes`, `Images`, `Tracers` and `Askers` are the inputs enumerated;
`MAXPID` bounds the forks.

Each module states its type invariant, and a theorem says that it holds; the runs check it
for UserVm, where a size could leave its range without another property noticing.

*Fairness.* Spin locks are not queues, so strong fairness is used where a lock is
waited for: a CPU that keeps trying gets a lock that keeps being released, which
the hardware's atomic swap gives in practice. Timer interrupts keep coming. The
sieve needs only that some process runs while one can. No
process is assumed to make system calls. Lifecycle, ProcMem, SysInfo and UserVm have
safety properties only.

## What the violated runs say

* `bio.c:146`: the lookup and the insertion are separate critical sections, so a
  block may get two buffers. In `bcache_private`, where blocks are not shared,
  everything else about the cache holds.
* `bio.c:165`: the own bucket's lock is taken while the victim's is held, with no
  order between the two.
* `proc.c:284`: `vmcopypage` starts at `sz - n`, inside a page, and misses the page
  that was added. A later `sbrk(-n)` or `exec` then panics in `uvmunmap`.

More, which the models contain without a violated run of their own. Where a passing
run has a property about them, it says that nothing worse happens:

* `proc.c:420`: the comment calls the wakeup of a wrong process harmless; the lock
  taken for it closes a circle of three exiting processes once slots are reused.
  `OnlyOrphansInACircle` (run `lifecycle`): every circle has such a process in it.
* `proc.c:428`: the comment says init may miss a wakeup and that this is harmless;
  the zombie stays until some other process exits. `NoLostExit` (run `lifecycle`):
  only init misses an exit, and only of a child it was given: never of one that exited when
  init was its parent already.
* `vm.c:54`: `proc_kvminit` uses what `kalloc` returned untested, clears the caller's
  first page and loses pages, and `proc_kvmmap` panics, where the comment on `allocproc`
  promises 0 (actions `NoKernelRoot`, `RootWasNull`, `NoTablePanics`).
* `vm.c:569`: `vmcopypage` panics where `sbrk` should return -1 (`proc.c:265`), when the kernel's
  page table needs one more page (action `NoTablePanics`). `OnlyMemoryPanics` and
  `PagesConserved` (run `procmem`) make an exception for these two: there is no other way to
  stop, and no other leak.
* `kalloc.c:118` of Lab3: with three CPUs `kalloc` may return 0 though at every moment of
  the call a page was free, freed to a list that the steal loop has passed (a call that
  fails is no step of `PageAllocator`). `FailsOnlyIfAllRanDry` (run `kalloc`): each
  list was empty at some moment of the call.
* `proc.c:678`: `kill(0)` marks a free slot, and the process forked into it is killed
  at birth (action `Kill`).
* `bio.c:183`: `bget` may panic with "no buffers" although at every moment some buffer
  was unused, because the buckets are looked at one after the other.
  `PanicsOnlyIfNoneSpare` (run `bcache_private`): each bucket was without one at some moment.
* `Lab2/kernel/proc.c:708`: the number that `sysinfo` calls `nproc` counts the free slots, and may be one that
  was never the number of free slots: a slot seen free is filled while one not yet
  seen becomes free. `NprocWithinTheScan` (run `sysinfo`) gives the bounds.

## Proofs

Each theorem module EXTENDS the module it is about and adds no constant and no
assumption to it, but for `NoSharing` and the number of descriptors below; what it proves holds for every value
of the constants that satisfies that module's `ASSUME`s: any number of CPUs,
slots, pages, buffers and processes, `NULL` different from all of them. Each has
one inductive invariant, `IInv`, a conjunction of named parts, which TLC checked on
the instances of the runs before it was proved; one lemma per action shows that
the step keeps it, and `Invariance` is `Spec => []IInv`. What follows says why the
properties alone are not inductive.

**KallocProofs**: type correctness, no page lost (`PagesConserved`), none in two places
(`PagesExclusive`), and that the per-CPU lists implement `PageAllocator`
(`Refinement`). A list's lock is held by the CPU whose `pc` says so, and by at most
one; a page loaded by a CPU between its two steps is still the head of the list
that the CPU has locked (`LocalInv`); pages in lists, in hands and picked are
pairwise disjoint and together all pages. Without the first two a step that unlinks
could take a page that another CPU has loaded. `FailureExplained` is about the specification
with the history: no list that the search has passed counts as stocked (`SearchInv`), and
(id + k) % NCPU, for k from 0 to NCPU - 1, meets every list.

**SchedProofs**: one CPU per process (`OneCPUEach`), page tables in use belong to live
processes (`TablesAlive`), `sched()` does not panic (`NoSchedPanic`), no wakeup is
lost (`NoWakeupMissed`). `LockInv` says which CPU has a `p->lock` at which label of
`scheduler()` and of the thread: a lock taken before `swtch` on one stack is held by the
same CPU on the other, and nobody else finds the process RUNNABLE until the stack is
left. `SleepInv` is what makes `sleep()` safe: a process between its test and
SLEEPING holds `tickslock` or its own lock, so that `wakeup` has not passed it.

**LifecycleProofs**: living parents (`ParentsLive`), children that stay while a loop is
about to lock them (`ChildrenStay`), no killed process asleep, `freeproc` only off the
CPU, exits missed by init only (`NoExitLost`), and that a circle of waiting processes
has an orphan in it (`DeadlockNeedsOrphan`). `LockInv` again says who holds
which lock at which label; `OrigInv` that the parent `exit` remembers is the parent or has given the
process to init; `ReparentInv` that `reparent` has no child behind it; `WaitInv` that
`wait` has no zombie behind it. Deadlock: the parent relation has no circle
(`NoCircle`), stated as "every set of processes has a member without a child in it",
which needs no recursion to preserve; a circle of waiting processes whose remembered
parents are their parents would be one.

**BcacheProofs**: type correctness, exact counts (`CountsExact`), one place per buffer
(`BuffersInOnePlace`), no buffer taken from its users (`NothingStolen`). The invariant
says which label holds which bucket's lock, that the buffer a process has chosen is
still on the list it has locked (`LocalInv`), that the lists are disjoint and
a carried buffer has one referrer (`ListInv`), that a buffer is on the list of
its block (`HomeInv`), that the number a process has read before it takes the lock is
still that of the buffer's block, which it is because the process has a counted
reference (`NumInv`), and that who uses a buffer has its sleep lock, without which two
processes could unpin it once each (`SleepInv`). `WritesKept` and `Refinement` (`BlockStore` under a mapping
that shows users, contents and disk) are proved under `NoSharing`, that no
two processes may ask for the same block: without it they are false, which
`bcache_two_users` shows. Their invariant adds that a block has one buffer (`CopyInv`)
and that a buffer that differs from the disk is in use or pinned (`DataInv`).
`OldestRecycled` is about the specification with the history of releases: on every list
the unused buffers are in that order (`OrderInv`), which only the last `brelse` of a
buffer changes (`CalmStep`), by moving it to the front of both; that `bunpin` never drops the
last reference, and a thief inserts only a buffer in use, is what it rests on.
`PanicExplained` is about the specification with the history of a search, in the
way of `FailureExplained`.

**SysInfoProofs**: masks inherited from callers of `trace` only (`MaskInherited`), `nproc`
within the bounds of its scan (`NprocBounded`), `freemem` exact when the list is
unlocked (`FreememExact`), and `PageAllocator` implemented by the one list
(`Refinement`). `PageInv` puts every page in the list, a trapframe or a call's
hands; `WalkInv` and `ScanInv` say what the loops have counted.

**UserVmProofs**: type correctness, pages conserved through every failure
(`FramesInOnePlace`), tables that follow sizes (`PagesFollowSize`), no dangling kernel
mappings (`KernelTableCurrent`), how far the two tables may differ (`InSyncButAtEnd`)
and where `uvmunmap` panics (`PanicsAtHoles`). It is proved for sizes in bytes and any `PGSIZE`: the first
part are lemmas on `PGROUNDUP`, among them `NotCopied`, which says exactly which
pages `vmcopypage(start, n)` passes over. `TableInv` gives the pages that each table
maps by number, also in the middle of a call; `HoleInv` is stronger than
the property, since it also holds inside calls.

**ProcMemProofs**: the pages that are out are those that the slots hold (`Conservation`),
`mappages`, `uvmunmap` and `freewalk` find every table as they expect it
(`OnlyForWantOfMemory`), slots are whole or empty (`NoneHalfMade`). The properties say
nothing of a process inside a call, so the invariant does: `NewOK` and `ForkOK` give
the mappings of a table that is being built as a function of the stage and the
index (`Built`, `BuiltKernel`), `UsedOK` those of a process while `sbrk` or `exec` is
half done, `EmptyOK` that nothing is left in a free slot, `CallOK` that a slot is filled by
one `fork` only. `CountInv` is `PagesConserved`, with an inequality once page 0 has been
overwritten. The counting is done on the set of all pages held, tagged with slot and
place: a step changes it at five places at most (`Balance`), and `AddTable`, `AddMapping`
and `RemovePages` give the counts of a table that gains or loses a page.

**SieveProofs**: the output (`OutputIsPrimes`) and the descriptors, for any limit that fits
a byte and pipes of any size. The numbers that reach a stage are described, not
listed: `Survives(k, x)` says that no stage before k sieves x out, `Got(k)` and `Sent(k)` how far
process k has come in receiving and in sending, and the pipe to k lists, in
ascending order, the survivors between `Sent(k - 1)` and `Got(k)` (`PipeInv`; the 0 at the
end counts as the limit). Then a stage's first number is the smallest that
survives the stages before it (`NumInv`), hence a prime, by transitivity of divisibility.
`ChainInv` gives the shape of the chain: those before a living process have forked, and a parent
ends after its child, so that `read` never meets an end of file. A stage that
opens a pipe has k + 5 descriptors and has printed its prime: `EnoughDescriptors` asks for
as many as there are primes, and 5; `ProgramHasDescriptors` counts the 11 primes below 36
and finds that 16 are exactly enough. `EndsWithAll` needs fairness and stays
with TLC, but what it rests on is proved: some process can go on until main() has ended
(`NoDeadlock`; its `Ready` writes out the guards of the actions, since ENABLED is
out of reach), every step takes a process further within bounds
(`EveryStepAdvances`), and main() ends last with all the primes printed (`MainEndsLast`).
`NoDeadlock` uses `ChainFits`: the set `Process`, a bound of the model, has always room for the next
`fork`, because the j-th stage's number is at least 2j - 1 (`StageBound`).

Each proof about lists has its own lemmas on popping, pushing and unlinking lists without
repetitions. Properties of every round of a loop, or of every stage of a chain, are proved
through a least counterexample (the library's well-founded minimum), where
an induction theorem would need an operator as parameter.

Only model-checked: liveness and everything with fairness (`SomeCallReturns`,
`ReadyRuns`, `SleepReturns`, `EndsWithAll`), because ENABLED and fairness are
out of the prover's reach. Every other property that a passing run checks is also
a theorem.

## Plan

1. Done: Kalloc, Bcache, Lifecycle, UserVm, Sched, Sieve, ProcMem, SysInfo, and the proofs
   about all of them.
2. `copyout` and `copyin` against a memory that changes under them, `Pingpong` and
   `Xargs`: small, and of little interaction.

## Not modelled

The disk and its interrupt, logging and the file system (not in the repository);
printing (`vmprint`, `procdump`, the line that `syscall` prints); ELF layout and argument
stacks; `copyout`, `copyin` and `walkaddr`, which move data and are sequential;
`pingpong`, `find` and `xargs`, sequential programs with a fork or two; filling freed
pages with junk; address-translation caches (`sfence_vma` after a change of
`k_pagetable`); preemption inside the kernel; header files and Makefiles.
