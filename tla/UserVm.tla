------------------------------- MODULE UserVm -------------------------------
(***************************************************************************)
(* User memory and its two page tables, Lab4/kernel: growproc(), the       *)
(* memory part of fork() and freeproc() in proc.c, exec() in exec.c, and   *)
(* the uvm functions and vmcopypage() of vm.c.  A process has a user page  *)
(* table and a kernel page table of its own (k_pagetable), which should    *)
(* map the same user pages so that copyin() can follow user pointers.      *)
(*                                                                         *)
(* Sizes are in bytes, with a small PGSIZE; a page table maps pages to     *)
(* physical pages.  Pages are allocated one by one, so that memory may run *)
(* out half-way while several processes grow; each table is private to its *)
(* process, and what happens without allocating is one step.  Page-table   *)
(* pages are not counted: when memory is out, a call may or may not have   *)
(* needed one.  The guard page keeps its PTE (less PTE_U).                 *)
(***************************************************************************)
EXTENDS Integers, FiniteSets

CONSTANTS
  PGSIZE,   \* bytes in a page
  NVPAGES,  \* user pages below PLIC
  Frame,    \* physical pages for user memory
  Proc,     \* slots of the process table
  Deltas,   \* the arguments of sbrk(), positive and negative
  SegBytes, \* the sizes of program images
  NULL      \* no page, no size, no process

ASSUME PGSIZEAssumption  == PGSIZE \in Nat \ {0}
ASSUME NVPAGESAssumption == NVPAGES \in Nat \ {0}
ASSUME DeltasAssumption  == Deltas \subseteq Int
ASSUME NULLAssumption    ==
  NULL \notin Nat \cup Frame \cup Proc \cup {"uvmunmap", "vmcopypage"}

PLIC  == NVPAGES * PGSIZE
VPage == 0 .. NVPAGES - 1
Unmapped == [a \in VPage |-> NULL]

(* exec() does not compare the new size with PLIC: only images that fit,   *)
(* with their guard and stack pages, are executed.                         *)
ASSUME SegBytesAssumption ==
  \A s \in SegBytes : s \in Nat /\ s + 2 * PGSIZE <= PLIC

VARIABLES
  sz,      \* p->sz; NULL for an UNUSED slot
  upt,     \* p->pagetable: user page to physical page
  kpt,     \* p->k_pagetable, its part below PLIC
  free,    \* physical pages that kalloc() can return
  pc,      \* "user", or inside "grow", "fork" or "exec"
  at,      \* the loop variable of uvmalloc() or uvmcopy(), in pages
  tgt,     \* the size that is being reached for
  img,     \* the page table that fork() or exec() is building
  child,   \* fork()'s np
  panic,   \* the function the kernel has stopped in, if it has
  aligned  \* history: no growth began inside a page since the last exec()

vars == <<sz, upt, kpt, free, pc, at, tgt, img, child, panic, aligned>>

(* PGROUNDUP(s) / PGSIZE                                                   *)
Pages(s) == (s + PGSIZE - 1) \div PGSIZE

Mapped(t) == {a \in VPage : t[a] # NULL}

(* uvmunmap(), and whether it panics.                                      *)
Unmap(t, pages) == [a \in VPage |-> IF a \in pages THEN NULL ELSE t[a]]
PanicUnless(pages, t) == IF pages \subseteq Mapped(t) THEN NULL ELSE "uvmunmap"

(* uvmfree(): the first pages of a table are free again.  The pages of the *)
(* table itself, freewalk()'s and proc_freewalk()'s, are not counted.      *)
FreePages(t, npages) == free \cup {t[a] : a \in 0 .. npages - 1}

(* uvminit(), vmcopypage(): the first process has one page.                *)
Init ==
  \E p \in Proc, f \in Frame :
    LET one == [Unmapped EXCEPT ![0] = f] IN
    /\ sz = [q \in Proc |-> IF q = p THEN PGSIZE ELSE NULL]
    /\ upt = [q \in Proc |-> IF q = p THEN one ELSE Unmapped]
    /\ kpt = upt
    /\ free = Frame \ {f}
    /\ pc = [q \in Proc |-> "user"]
    /\ at = [q \in Proc |-> 0]
    /\ tgt = [q \in Proc |-> 0]
    /\ img = [q \in Proc |-> Unmapped]
    /\ child = [q \in Proc |-> NULL]
    /\ panic = NULL
    /\ aligned = [q \in Proc |-> TRUE]

InUser(p) == panic = NULL /\ sz[p] # NULL /\ pc[p] = "user"

(* The call is over: its locals are gone.                                  *)
Return(p) ==
  /\ pc' = [pc EXCEPT ![p] = "user"]
  /\ at' = [at EXCEPT ![p] = 0]
  /\ tgt' = [tgt EXCEPT ![p] = 0]
  /\ img' = [img EXCEPT ![p] = Unmapped]
  /\ child' = [child EXCEPT ![p] = NULL]

(* Another page is wanted and kalloc() finds none for it, or none for the  *)
(* page table that is to map it.                                           *)
OutOfMemory(p, call) ==
  /\ panic = NULL
  /\ pc[p] = call
  /\ at[p] < Pages(tgt[p])
  /\ Cardinality(free) <= 1

-----------------------------------------------------------------------------
(* growproc(n)                                                             *)

(* Mutant: vmcopypage() begins after the first page.                       *)
CopiedPages_SkipFirst(start, n) ==
  {(start + j * PGSIZE) \div PGSIZE :
     j \in {j \in 1 .. n : start + j * PGSIZE < start + n}}

(* The pages whose PTE vmcopypage(start, n) copies: it steps by PGSIZE     *)
(* from start, wherever in its page that is.                               *)
CopiedPages(start, n) ==
  {(start + j * PGSIZE) \div PGSIZE :
     j \in {j \in 0 .. n : start + j * PGSIZE < start + n}}

(* vmcopypage()                                                            *)
Mirror(user, kernel, start, n) ==
  [a \in VPage |-> IF a \in CopiedPages(start, n) THEN user[a] ELSE kernel[a]]

GrowEnter(p, n) ==
  /\ InUser(p)
  /\ n > 0 /\ sz[p] + n < PLIC
  /\ pc' = [pc EXCEPT ![p] = "grow"]
  /\ tgt' = [tgt EXCEPT ![p] = sz[p] + n]
  /\ at' = [at EXCEPT ![p] = Pages(sz[p])]
  /\ UNCHANGED <<sz, upt, kpt, free, img, child, panic, aligned>>

(* uvmalloc(): kalloc() and mappages() of the next page.                   *)
GrowPage(p, f) ==
  /\ panic = NULL
  /\ pc[p] = "grow" /\ at[p] < Pages(tgt[p])
  /\ f \in free
  /\ free' = free \ {f}
  /\ upt' = [upt EXCEPT ![p][at[p]] = f]
  /\ at' = [at EXCEPT ![p] = @ + 1]
  /\ UNCHANGED <<sz, kpt, pc, tgt, img, child, panic, aligned>>

(* uvmdealloc(pagetable, a, oldsz), return -1.                             *)
GrowFail(p) ==
  LET new == {a \in VPage : Pages(sz[p]) <= a /\ a < at[p]} IN
  /\ OutOfMemory(p, "grow")
  /\ free' = free \cup {upt[p][a] : a \in new}
  /\ upt' = [upt EXCEPT ![p] = Unmap(@, new)]
  /\ Return(p)
  /\ UNCHANGED <<sz, kpt, panic, aligned>>

(* vmcopypage(): walk() finds no page for k_pagetable.                     *)
CopyPanics(p) ==
  /\ panic = NULL
  /\ pc[p] \in {"grow", "fork"} /\ at[p] >= Pages(tgt[p])
  /\ free = {}
  /\ panic' = "vmcopypage"
  /\ UNCHANGED <<sz, upt, kpt, free, pc, at, tgt, img, child, aligned>>

GrowDone(p) ==
  /\ panic = NULL
  /\ pc[p] = "grow" /\ at[p] >= Pages(tgt[p])
  /\ kpt' = [kpt EXCEPT ![p] = Mirror(upt[p], @, sz[p], tgt[p] - sz[p])]
  /\ aligned' = [aligned EXCEPT ![p] = @ /\ sz[p] % PGSIZE = 0]
  /\ sz' = [sz EXCEPT ![p] = tgt[p]]
  /\ Return(p)
  /\ UNCHANGED <<upt, free, panic>>

(* n < 0: uvmdealloc(), then uvmunmap() of the same pages in k_pagetable,  *)
(* which panics at a page that is not mapped (nothing runs after a panic,  *)
(* so what it leaves half done is not kept apart).  sz + n is unsigned: a  *)
(* process cannot give back more than it has.                              *)
(* Mutant: the page in which the new size ends is freed too.               *)
Above_RoundDown(p, n) ==
  {a \in VPage : (sz[p] + n) \div PGSIZE <= a /\ a < Pages(sz[p])}

Above(p, n) == {a \in VPage : Pages(sz[p] + n) <= a /\ a < Pages(sz[p])}

(* Mutant: a signed comparison with PLIC.                                  *)
Shrink_Signed(p, n) ==
  /\ InUser(p)
  /\ n < 0
  /\ sz' = [sz EXCEPT ![p] = @ + n]
  /\ free' = free \cup {upt[p][a] : a \in Above(p, n)}
  /\ upt' = [upt EXCEPT ![p] = Unmap(@, Above(p, n))]
  /\ kpt' = [kpt EXCEPT ![p] = Unmap(@, Above(p, n))]
  /\ panic' = PanicUnless(Above(p, n), kpt[p])
  /\ UNCHANGED <<pc, at, tgt, img, child, aligned>>

(* Mutant: k_pagetable keeps the pages that were freed.                    *)
Shrink_KeepKernel(p, n) ==
  /\ InUser(p)
  /\ n < 0 /\ sz[p] + n >= 0
  /\ sz' = [sz EXCEPT ![p] = @ + n]
  /\ free' = free \cup {upt[p][a] : a \in Above(p, n)}
  /\ upt' = [upt EXCEPT ![p] = Unmap(@, Above(p, n))]
  /\ UNCHANGED <<kpt, pc, at, tgt, img, child, panic, aligned>>

Shrink(p, n) ==
  /\ InUser(p)
  /\ n < 0 /\ sz[p] + n >= 0
  /\ sz' = [sz EXCEPT ![p] = @ + n]
  /\ free' = free \cup {upt[p][a] : a \in Above(p, n)}
  /\ upt' = [upt EXCEPT ![p] = Unmap(@, Above(p, n))]
  /\ kpt' = [kpt EXCEPT ![p] = Unmap(@, Above(p, n))]
  /\ panic' = PanicUnless(Above(p, n), kpt[p])
  /\ UNCHANGED <<pc, at, tgt, img, child, aligned>>

-----------------------------------------------------------------------------
(* fork()                                                                  *)

(* allocproc(): np gets empty page tables; uvmcopy() begins.               *)
ForkEnter(p, c) ==
  /\ InUser(p)
  /\ sz[c] = NULL /\ \A q \in Proc : child[q] # c
  /\ pc' = [pc EXCEPT ![p] = "fork"]
  /\ tgt' = [tgt EXCEPT ![p] = sz[p]]
  /\ child' = [child EXCEPT ![p] = c]
  /\ UNCHANGED <<sz, upt, kpt, free, at, img, panic, aligned>>

(* One more page for the table that uvmcopy() or exec()'s uvmalloc() calls *)
(* fill.                                                                   *)
BuildPage(p, f) ==
  /\ panic = NULL
  /\ pc[p] \in {"fork", "exec"} /\ at[p] < Pages(tgt[p])
  /\ f \in free
  /\ free' = free \ {f}
  /\ img' = [img EXCEPT ![p][at[p]] = f]
  /\ at' = [at EXCEPT ![p] = @ + 1]
  /\ UNCHANGED <<sz, upt, kpt, pc, tgt, child, panic, aligned>>

(* uvmcopy()'s err: uvmunmap(new, 0, i / PGSIZE, 1); then freeproc(np).    *)
ForkFail(p) ==
  /\ OutOfMemory(p, "fork")
  /\ free' = FreePages(img[p], at[p])
  /\ Return(p)
  /\ UNCHANGED <<sz, upt, kpt, panic, aligned>>

(* Mutant: fork() as it was before Lab4, without vmcopypage().             *)
ForkDone_NoCopy(p) ==
  LET c == child[p] IN
  /\ panic = NULL
  /\ pc[p] = "fork" /\ at[p] >= Pages(tgt[p])
  /\ sz' = [sz EXCEPT ![c] = tgt[p]]
  /\ upt' = [upt EXCEPT ![c] = img[p]]
  /\ aligned' = [aligned EXCEPT ![c] = TRUE]
  /\ Return(p)
  /\ UNCHANGED <<kpt, free, panic>>

(* np->sz = p->sz; vmcopypage(np->pagetable, np->k_pagetable, 0, np->sz)   *)
ForkDone(p) ==
  LET c == child[p] IN
  /\ panic = NULL
  /\ pc[p] = "fork" /\ at[p] >= Pages(tgt[p])
  /\ sz' = [sz EXCEPT ![c] = tgt[p]]
  /\ upt' = [upt EXCEPT ![c] = img[p]]
  /\ kpt' = [kpt EXCEPT ![c] = Mirror(img[p], @, 0, tgt[p])]
  /\ aligned' = [aligned EXCEPT ![c] = TRUE]
  /\ Return(p)
  /\ UNCHANGED <<free, panic>>

(* freeproc(): proc_freepagetable(pagetable, sz) frees the user pages,     *)
(* proc_freewalk(k_pagetable) none.  A process is freed by another one.    *)
FreeProc(p) ==
  /\ InUser(p)
  /\ \E q \in Proc \ {p} : sz[q] # NULL
  /\ free' = FreePages(upt[p], Pages(sz[p]))
  /\ sz' = [sz EXCEPT ![p] = NULL]
  /\ upt' = [upt EXCEPT ![p] = Unmapped]
  /\ kpt' = [kpt EXCEPT ![p] = Unmapped]
  /\ UNCHANGED <<pc, at, tgt, img, child, panic, aligned>>

-----------------------------------------------------------------------------
(* exec()                                                                  *)

(* A program of s bytes, then a guard page and a stack page.               *)
ExecEnter(p, s) ==
  /\ InUser(p)
  /\ pc' = [pc EXCEPT ![p] = "exec"]
  /\ tgt' = [tgt EXCEPT ![p] = (Pages(s) + 2) * PGSIZE]
  /\ UNCHANGED <<sz, upt, kpt, free, at, img, child, panic, aligned>>

(* bad: the half-built image is freed, the old one stays.  Not only memory *)
(* may be missing: the file may be bad, or the arguments too long.         *)
ExecFail(p) ==
  /\ panic = NULL
  /\ pc[p] = "exec"
  /\ free' = FreePages(img[p], at[p])
  /\ Return(p)
  /\ UNCHANGED <<sz, upt, kpt, panic, aligned>>

(* Mutant: the old image is not freed.                                     *)
ExecDone_KeepOld(p) ==
  LET old == 0 .. Pages(sz[p]) - 1 IN
  /\ panic = NULL
  /\ pc[p] = "exec" /\ at[p] >= Pages(tgt[p])
  /\ sz' = [sz EXCEPT ![p] = tgt[p]]
  /\ upt' = [upt EXCEPT ![p] = img[p]]
  /\ kpt' = [kpt EXCEPT ![p] = Mirror(img[p], Unmap(@, old), 0, tgt[p])]
  /\ panic' = PanicUnless(old, kpt[p])
  /\ aligned' = [aligned EXCEPT ![p] = TRUE]
  /\ Return(p)
  /\ UNCHANGED free

(* Commit: free the old image, unmap it from k_pagetable (which panics at  *)
(* a page that is not mapped), map the new one.                            *)
ExecDone(p) ==
  LET old == 0 .. Pages(sz[p]) - 1 IN
  /\ panic = NULL
  /\ pc[p] = "exec" /\ at[p] >= Pages(tgt[p])
  /\ free' = FreePages(upt[p], Pages(sz[p]))
  /\ sz' = [sz EXCEPT ![p] = tgt[p]]
  /\ upt' = [upt EXCEPT ![p] = img[p]]
  /\ kpt' = [kpt EXCEPT ![p] = Mirror(img[p], Unmap(@, old), 0, tgt[p])]
  /\ panic' = PanicUnless(old, kpt[p])
  /\ aligned' = [aligned EXCEPT ![p] = TRUE]
  /\ Return(p)

-----------------------------------------------------------------------------
Next ==
  \E p \in Proc :
    \/ \E n \in Deltas : GrowEnter(p, n) \/ Shrink(p, n)
    \/ \E f \in Frame : GrowPage(p, f) \/ BuildPage(p, f)
    \/ GrowFail(p) \/ CopyPanics(p) \/ GrowDone(p)
    \/ \E c \in Proc : ForkEnter(p, c)
    \/ ForkFail(p) \/ ForkDone(p)
    \/ FreeProc(p)
    \/ \E s \in SegBytes : ExecEnter(p, s)
    \/ ExecFail(p) \/ ExecDone(p)

Spec == Init /\ [][Next]_vars

-----------------------------------------------------------------------------
PageTable == [VPage -> Frame \cup {NULL}]

(* Every variable has its type.                                            *)
TypeOK ==
  /\ sz \in [Proc -> 0 .. PLIC \cup {NULL}]
  /\ upt \in [Proc -> PageTable]
  /\ kpt \in [Proc -> PageTable]
  /\ free \subseteq Frame
  /\ pc \in [Proc -> {"user", "grow", "fork", "exec"}]
  /\ at \in [Proc -> 0 .. NVPAGES]
  /\ tgt \in [Proc -> 0 .. PLIC]
  /\ img \in [Proc -> PageTable]
  /\ child \in [Proc -> Proc \cup {NULL}]
  /\ panic \in {NULL, "uvmunmap", "vmcopypage"}
  /\ aligned \in [Proc -> BOOLEAN]

(* Where a set of tables maps a physical page.                             *)
Places(tables, f) == {e \in Proc \X VPage : tables[e[1]][e[2]] = f}

(* Every physical page is free, or mapped once in one table, for good or   *)
(* while that table is built: none leaks and none is shared, also when     *)
(* memory runs out half-way through a call.                                *)
FrameInOnePlace ==
  \A f \in Frame :
    Cardinality(Places(upt, f)) + Cardinality(Places(img, f))
      = IF f \in free THEN 0 ELSE 1

(* Outside a call, a process has exactly the pages below its size: what    *)
(* uvmcopy(), uvmunmap() and freewalk() panic about never happens.         *)
ExactlySize ==
  \A p \in Proc : pc[p] = "user" =>
    Mapped(upt[p]) = IF sz[p] = NULL THEN {} ELSE 0 .. Pages(sz[p]) - 1

(* The kernel page table of a process never leads to a page that is not    *)
(* the process's own at that address: freed memory and other processes'    *)
(* memory stay out of copyin()'s reach.                                    *)
NoDangling ==
  \A p \in Proc : \A a \in Mapped(kpt[p]) : kpt[p][a] = upt[p][a]

(* "Whenever a mapping of the user page table is changed, the              *)
(* corresponding part of the kernel page table must be changed too so that *)
(* they stay synchronized" (Lab4.md:346): copyin() finds every byte below  *)
(* the process's size.                                                     *)
InSync == \A p \in Proc : pc[p] = "user" => kpt[p] = upt[p]

(* How far this goes wrong: the two tables are in step as long as the      *)
(* process never grew from a size inside a page; one that did lacks one    *)
(* page at most, the last one, and only while its size ends inside it.     *)
OutOfSyncAtEnd ==
  \A p \in Proc, a \in VPage : pc[p] = "user" /\ kpt[p][a] # upt[p][a] =>
    /\ ~aligned[p]
    /\ kpt[p][a] = NULL
    /\ a = Pages(sz[p]) - 1 /\ sz[p] % PGSIZE # 0

(* uvmunmap() panics only in a process, and at a page, that such a growth  *)
(* left out of its kernel page table.                                      *)
PanicOnlyAfterHole ==
  [][panic = NULL /\ panic' = "uvmunmap" =>
       \E p \in Proc : ~aligned[p] /\ Mapped(kpt[p]) # Mapped(upt[p])
                        /\ sz[p] # sz'[p]]_vars
=============================================================================
