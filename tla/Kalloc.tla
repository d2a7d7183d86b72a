------------------------------- MODULE Kalloc -------------------------------
(***************************************************************************)
(* The physical page allocator of Lab3/kernel/kalloc.c: one free list and  *)
(* one spin lock per CPU.  kfree() pushes on the list of the CPU it runs   *)
(* on; kalloc() pops from that list and, when it is empty, tries the lists *)
(* of the other CPUs in turn.                                              *)
(*                                                                         *)
(* kalloc() and kfree() run between push_off() and pop_off(), with         *)
(* interrupts disabled, so a CPU has at most one call in progress and the  *)
(* CPU itself is the actor.  A client is any kernel thread; `out' is what  *)
(* the clients own, on whatever CPU they run next.                         *)
(***************************************************************************)
EXTENDS Integers, Sequences, Functions

CONSTANTS
  NCPU,   \* number of CPUs
  NPAGES, \* number of pages between end and PHYSTOP
  NULL    \* the null pointer, and "no holder" of a lock

ASSUME NCPUAssumption   == NCPU \in Nat \ {0}
ASSUME NPAGESAssumption == NPAGES \in Nat
ASSUME NULLAssumption   == NULL \notin Nat

CPU  == 0 .. NCPU - 1
Page == 1 .. NPAGES

VARIABLES
  freelist, \* kmems[c].freelist
  lock,     \* kmems[c].lock: the CPU that holds it, or NULL
  pc,       \* where each CPU is in kalloc() or kfree()
  i,        \* kalloc()'s loop variable; 0 while it tries its own list
  r,        \* kalloc()'s and kfree()'s local r
  out       \* the pages owned by clients

vars == <<freelist, lock, pc, i, r, out>>

(***************************************************************************)
(* kinit() runs on one CPU and frees every page, from low to high          *)
(* addresses, onto that CPU's list.  The other lists stay empty.           *)
(***************************************************************************)
Init ==
  /\ \E id \in CPU :
       freelist = [c \in CPU |-> IF c = id
                                 THEN [k \in Page |-> NPAGES + 1 - k]
                                 ELSE <<>>]
  /\ lock = [c \in CPU |-> NULL]
  /\ pc = [c \in CPU |-> "idle"]
  /\ i = [c \in CPU |-> 0]
  /\ r = [c \in CPU |-> NULL]
  /\ out = {}

Goto(c, from, to) ==
  /\ pc[c] = from
  /\ pc' = [pc EXCEPT ![c] = to]

acquire(l, c) ==
  /\ lock[l] = NULL
  /\ lock' = [lock EXCEPT ![l] = c]

release(l) == lock' = [lock EXCEPT ![l] = NULL]

-----------------------------------------------------------------------------
(* kalloc()                                                                *)

(* The list a search looks at: its own first, then id_to_get.              *)
Target(c) == (c + i[c]) % NCPU

(* push_off(); id = cpuid()                                                *)
KallocEnter(c) ==
  /\ Goto(c, "idle", "acquire")
  /\ i' = [i EXCEPT ![c] = 0]
  /\ r' = [r EXCEPT ![c] = NULL]
  /\ UNCHANGED <<freelist, lock, out>>

(* Mutant: the lists of other CPUs are popped without their lock.          *)
KallocAcquire_NoVictimLock(c) ==
  /\ Goto(c, "acquire", "load")
  /\ IF i[c] = 0 THEN acquire(Target(c), c) ELSE UNCHANGED lock
  /\ UNCHANGED <<freelist, i, r, out>>

KallocAcquire(c) ==
  /\ Goto(c, "acquire", "load")
  /\ acquire(Target(c), c)
  /\ UNCHANGED <<freelist, i, r, out>>

(* r = kmems[..].freelist, and the test on r                               *)
KallocLoad(c) ==
  /\ IF freelist[Target(c)] = <<>>
     THEN /\ Goto(c, "load", "miss")
          /\ r' = [r EXCEPT ![c] = NULL]
     ELSE /\ Goto(c, "load", "unlink")
          /\ r' = [r EXCEPT ![c] = Head(freelist[Target(c)])]
  /\ UNCHANGED <<freelist, lock, i, out>>

(* kmems[..].freelist = r->next; release                                   *)
KallocUnlink(c) ==
  /\ Goto(c, "unlink", "return")
  /\ freelist' = [freelist EXCEPT ![Target(c)] = Tail(@)]
  /\ release(Target(c))
  /\ UNCHANGED <<i, r, out>>

(* Mutant: the loop ends one list too early, for(i=1;i<NCPU-1;i++).        *)
KallocMiss_SkipLast(c) ==
  /\ IF i[c] + 2 < NCPU
     THEN /\ Goto(c, "miss", "acquire")
          /\ i' = [i EXCEPT ![c] = @ + 1]
     ELSE /\ Goto(c, "miss", "return")
          /\ UNCHANGED i
  /\ release(Target(c))
  /\ UNCHANGED <<freelist, r, out>>

(* Mutant: the empty list stays locked while the next one is tried.        *)
KallocMiss_KeepLock(c) ==
  /\ IF i[c] + 1 < NCPU
     THEN /\ Goto(c, "miss", "acquire")
          /\ i' = [i EXCEPT ![c] = @ + 1]
     ELSE /\ Goto(c, "miss", "return")
          /\ UNCHANGED i
  /\ UNCHANGED <<freelist, lock, r, out>>

(* The list is empty: release it and go on with the next CPU's, if any.    *)
KallocMiss(c) ==
  /\ IF i[c] + 1 < NCPU
     THEN /\ Goto(c, "miss", "acquire")
          /\ i' = [i EXCEPT ![c] = @ + 1]
     ELSE /\ Goto(c, "miss", "return")
          /\ UNCHANGED i
  /\ release(Target(c))
  /\ UNCHANGED <<freelist, r, out>>

(* pop_off() and return r: the caller owns the page, or got 0.             *)
KallocReturn(c) ==
  /\ Goto(c, "return", "idle")
  /\ out' = out \cup ({r[c]} \ {NULL})
  /\ r' = [r EXCEPT ![c] = NULL]
  /\ UNCHANGED <<freelist, lock, i>>

-----------------------------------------------------------------------------
(* kfree()                                                                 *)

(* A client gives up a page it owns; the range checks pass.                *)
KfreeEnter(c, pa) ==
  /\ pa \in out
  /\ Goto(c, "idle", "f_acquire")
  /\ out' = out \ {pa}
  /\ r' = [r EXCEPT ![c] = pa]
  /\ UNCHANGED <<freelist, lock, i>>

KfreeAcquire(c) ==
  /\ Goto(c, "f_acquire", "f_push")
  /\ acquire(c, c)
  /\ UNCHANGED <<freelist, i, r, out>>

(* Mutant: r->next is not set, so the rest of the list is dropped.         *)
KfreePush_DropNext(c) ==
  /\ Goto(c, "f_push", "idle")
  /\ freelist' = [freelist EXCEPT ![c] = <<r[c]>>]
  /\ release(c)
  /\ r' = [r EXCEPT ![c] = NULL]
  /\ UNCHANGED <<i, out>>

(* r->next = freelist; freelist = r; release; pop_off()                    *)
KfreePush(c) ==
  /\ Goto(c, "f_push", "idle")
  /\ freelist' = [freelist EXCEPT ![c] = <<r[c]>> \o @]
  /\ release(c)
  /\ r' = [r EXCEPT ![c] = NULL]
  /\ UNCHANGED <<i, out>>

-----------------------------------------------------------------------------
(* The steps of a call that has begun.                                     *)
CallStep(c) ==
  \/ KallocAcquire(c)
  \/ KallocLoad(c)
  \/ KallocUnlink(c)
  \/ KallocMiss(c)
  \/ KallocReturn(c)
  \/ KfreeAcquire(c)
  \/ KfreePush(c)

Next ==
  \E c \in CPU :
    \/ KallocEnter(c)
    \/ \E pa \in Page : KfreeEnter(c, pa)
    \/ CallStep(c)

Spec == Init /\ [][Next]_vars

-----------------------------------------------------------------------------
Labels == {"idle", "acquire", "load", "unlink", "miss", "return",
           "f_acquire", "f_push"}

(* Every variable has its type.                                            *)
TypeOK ==
  /\ freelist \in [CPU -> Seq(Page)]
  /\ lock \in [CPU -> CPU \cup {NULL}]
  /\ pc \in [CPU -> Labels]
  /\ i \in [CPU -> CPU]
  /\ r \in [CPU -> Page \cup {NULL}]
  /\ out \subseteq Page

(* The page a CPU carries between a free list and a client, if any.  A     *)
(* page at label "unlink" is still on its list.                            *)
InHand(c) == IF pc[c] = "unlink" THEN {} ELSE {r[c]} \ {NULL}

OnList(c) == Range(freelist[c])

(* No page is lost: each is on some free list, on its way between a list   *)
(* and a client, or owned by a client.                                     *)
NoPageLost ==
  \A p \in Page :
    \/ p \in out
    \/ \E c \in CPU : p \in OnList(c) \cup InHand(c)

(* No page is in two places: kalloc() never hands out a page that is       *)
(* still free or that another client has, and no list holds a page twice.  *)
NoPageTwice ==
  /\ \A c \in CPU : out \cap (OnList(c) \cup InHand(c)) = {}
  /\ \A c, d \in CPU : OnList(c) \cap InHand(d) = {}
  /\ \A c, d \in CPU : c # d => /\ OnList(c) \cap OnList(d) = {}
                                /\ InHand(c) \cap InHand(d) = {}
  /\ \A c \in CPU : IsInjective(freelist[c])

(* The lock of a list is held by the CPU that is between its acquire and    *)
(* its release of that list, and by no other.                              *)
LockInv ==
  \A l, c \in CPU :
    lock[l] = c <=> \/ pc[c] \in {"load", "unlink", "miss"} /\ Target(c) = l
                    \/ pc[c] = "f_push" /\ c = l

(* What the local r is at each label: while a pop is under way it is still *)
(* the head of the list that the CPU has locked.                           *)
LocalInv ==
  \A c \in CPU :
    /\ pc[c] \in {"idle", "acquire", "load", "miss"} => r[c] = NULL
    /\ pc[c] \in {"f_acquire", "f_push"} => r[c] \in Page
    /\ pc[c] = "unlink" => /\ freelist[Target(c)] # <<>>
                           /\ r[c] = Head(freelist[Target(c)])

(* The inductive invariant behind NoPageLost and NoPageTwice.              *)
IInv == TypeOK /\ LockInv /\ LocalInv /\ NoPageLost /\ NoPageTwice

(* The page a kalloc() has unlinked for its caller and not yet returned.   *)
Picked(c) == IF pc[c] = "return" THEN r[c] ELSE NULL

Abstract == INSTANCE PageAllocator WITH hand <- [c \in CPU |-> Picked(c)]

(* Seen from its clients the allocator is the abstract one, whatever list  *)
(* a page travels through: a page is picked only while nobody owns it or   *)
(* is about to, each pick reaches one caller, and only its owner frees it. *)
ImplementsPageAllocator == Abstract!Spec

(* The allocator never wedges: when every CPU is inside it, one gets out.  *)
SomeCallReturns ==
  (\A c \in CPU : pc[c] # "idle") ~> (\E c \in CPU : pc[c] = "idle")
=============================================================================
