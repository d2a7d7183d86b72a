--------------------------- MODULE SysInfoProofs ----------------------------
(***************************************************************************)
(* Proofs about SysInfo, for any number of slots, of pages and of calls:   *)
(* what trace() and sysinfo() can rely on, and that the allocator with one *)
(* list keeps the promise of PageAllocator.                                *)
(***************************************************************************)
EXTENDS SysInfo, FiniteSetTheorems, TLAPS

-----------------------------------------------------------------------------
(* The free list, as a stack without repetitions                           *)

(* Popping a list without repetitions removes its head from its elements.  *)
LEMMA PopLemma ==
  ASSUME NEW S, NEW s \in Seq(S), s # <<>>, IsInjective(s)
  PROVE  /\ Head(s) \in Range(s)
         /\ Tail(s) \in Seq(S)
         /\ Range(Tail(s)) = Range(s) \ {Head(s)}
         /\ IsInjective(Tail(s))
<1>1. /\ Len(s) \in Nat \ {0}
      /\ DOMAIN s = 1 .. Len(s)
      /\ Head(s) = s[1]
      /\ Tail(s) \in Seq(S)
      /\ DOMAIN Tail(s) = 1 .. (Len(s) - 1)
      /\ \A k \in 1 .. (Len(s) - 1) : Tail(s)[k] = s[k + 1]
  OBVIOUS
<1>2. Head(s) \in Range(s)
  BY <1>1 DEF Range
<1>3. Range(Tail(s)) \subseteq Range(s) \ {Head(s)}
  BY <1>1 DEF Range, IsInjective
<1>4. Range(s) \ {Head(s)} \subseteq Range(Tail(s))
  <2> SUFFICES ASSUME NEW k \in 1 .. Len(s), s[k] # s[1]
               PROVE  s[k] \in Range(Tail(s))
    BY <1>1 DEF Range
  <2>1. k - 1 \in 1 .. (Len(s) - 1) /\ Tail(s)[k - 1] = s[k]
    BY <1>1
  <2> QED BY <1>1, <2>1 DEF Range
<1>5. IsInjective(Tail(s))
  BY <1>1 DEF IsInjective
<1> QED BY <1>1, <1>2, <1>3, <1>4, <1>5

(* Pushing a new element on such a list adds it to the elements.           *)
LEMMA PushLemma ==
  ASSUME NEW S, NEW s \in Seq(S), NEW p \in S, p \notin Range(s), IsInjective(s)
  PROVE  /\ <<p>> \o s \in Seq(S)
         /\ Range(<<p>> \o s) = {p} \cup Range(s)
         /\ IsInjective(<<p>> \o s)
<1> DEFINE t == <<p>> \o s
<1>1. /\ Len(s) \in Nat
      /\ DOMAIN s = 1 .. Len(s)
      /\ t \in Seq(S)
      /\ DOMAIN t = 1 .. (Len(s) + 1)
      /\ t[1] = p
      /\ \A k \in 1 .. Len(s) : t[k + 1] = s[k]
  OBVIOUS
<1> HIDE DEF t
<1>2. \A k \in DOMAIN t : k = 1 \/ (k - 1 \in DOMAIN s /\ t[k] = s[k - 1])
  <2> SUFFICES ASSUME NEW k \in 1 .. (Len(s) + 1), k # 1
               PROVE  k - 1 \in 1 .. Len(s) /\ t[k] = s[k - 1]
    BY <1>1
  <2> QED BY <1>1
<1>3. Range(t) = {p} \cup Range(s)
  <2>1. Range(t) \subseteq {p} \cup Range(s)
    BY <1>1, <1>2 DEF Range
  <2>2. \A k \in DOMAIN s : k + 1 \in DOMAIN t /\ t[k + 1] = s[k]
    BY <1>1
  <2>3. {p} \cup Range(s) \subseteq Range(t)
    BY <1>1, <2>2 DEF Range
  <2> QED BY <2>1, <2>3
<1>4. IsInjective(t)
  <2> SUFFICES ASSUME NEW a \in DOMAIN t, NEW b \in DOMAIN t, t[a] = t[b]
               PROVE  a = b
    BY DEF IsInjective
  <2> QED BY <1>1, <1>2 DEF IsInjective, Range
<1> QED BY <1>1, <1>3, <1>4 DEF t

-----------------------------------------------------------------------------
(* The inductive invariant                                                 *)

(* The labels of a process that has a slot locked, to fill it or to free   *)
(* it, and those of one that has kmem.lock.                                *)
Filling  == {"a_load", "a_unlink", "a_return", "f_done"}
Freeing  == {"k_acquire", "k_push", "k_freed"}
WithKmem == {"a_unlink", "k_push", "m_walk"}

Labels == Filling \cup Freeing \cup WithKmem \cup {"none", "user", "n_scan"}

TypeControl ==
  /\ state \in [Slot -> {"UNUSED", "ALIVE", "ZOMBIE"}]
  /\ parent \in [Slot -> Slot \cup {NULL}]
  /\ trapframe \in [Slot -> Page \cup {NULL}]
  /\ lock \in [Slot -> Slot \cup {NULL}]
  /\ klock \in Slot \cup {NULL}
  /\ pc \in [Slot -> Labels]
  /\ c \in [Slot -> Slot \cup {NULL}]
  /\ r \in [Slot -> Page \cup {NULL}]

TypeData ==
  /\ pid \in [Slot -> Nat]
  /\ mask \in [Slot -> Nat]
  /\ nextpid \in Nat
  /\ freelist \in Seq(Page)
  /\ i \in [Slot -> 1 .. NPROC + 1]
  /\ n \in [Slot -> Nat]
  /\ kin \in [Slot -> SUBSET Nat]
  /\ always \in [Slot -> SUBSET Slot]
  /\ ever \in [Slot -> SUBSET Slot]

TypeOK == TypeControl /\ TypeData

(* A process runs while its slot is neither UNUSED nor a ZOMBIE; the first *)
(* one always does.                                                        *)
PcInv ==
  /\ state[initproc] = "ALIVE"
  /\ \A s \in Slot : pc[s] = "none" <=> state[s] # "ALIVE"

(* c[p] is a slot that p has locked: one that fork() fills is UNUSED, one  *)
(* that freeproc() frees is not in use.                                    *)
LockInv ==
  /\ \A p \in Slot : c[p] # NULL <=> pc[p] \in Filling \cup Freeing
  /\ \A p, s \in Slot : lock[s] = p <=> c[p] = s
  /\ \A p \in Slot :
       /\ pc[p] \in Filling => state[c[p]] = "UNUSED"
       /\ pc[p] \in Freeing => state[c[p]] # "ALIVE"

(* A process counts itself among the ones it may have its mask from.       *)
KinInv == \A s \in Slot : state[s] # "UNUSED" => pid[s] \in kin[s]

(* Who has kmem.lock, and the page that kalloc() is about to unlink.       *)
KmemInv ==
  \A p \in Slot :
    /\ klock = p <=> pc[p] \in WithKmem
    /\ pc[p] = "a_unlink" =>
         r[p] = IF freelist = <<>> THEN NULL ELSE Head(freelist)

(* Which slots have a trapframe.                                           *)
FrameInv ==
  /\ \A s \in Slot : lock[s] = NULL =>
       IF state[s] = "UNUSED" \/ s = initproc THEN trapframe[s] = NULL
                                              ELSE trapframe[s] # NULL
  /\ \A p \in Slot :
       /\ pc[p] \in (Filling \ {"f_done"}) \cup Freeing =>
            trapframe[c[p]] = NULL
       /\ pc[p] = "f_done" => trapframe[c[p]] # NULL
       /\ pc[p] \in {"k_acquire", "k_push"} => r[p] # NULL

(* The page in a call's hands: picked and not yet returned by kalloc(), or *)
(* given back and not yet pushed by kfree().                               *)
InHand(p) ==
  IF pc[p] \in {"a_return", "k_acquire", "k_push"} THEN r[p] ELSE NULL

(* Every page has one place: the list, a slot's trapframe or a call's      *)
(* hands.                                                                  *)
PageInv ==
  /\ IsInjective(freelist)
  /\ \A p \in Slot : /\ trapframe[p] \notin Range(freelist)
                     /\ InHand(p) \notin Range(freelist)
  /\ \A p, q \in Slot :
       /\ trapframe[p] # NULL => trapframe[p] # InHand(q)
       /\ trapframe[p] # NULL /\ trapframe[p] = trapframe[q] => p = q
       /\ InHand(p) # NULL /\ InHand(p) = InHand(q) => p = q

(* check_freemem() has counted the pages ahead of r.                       *)
WalkInv ==
  \A p \in Slot :
    pc[p] = "m_walk" =>
      IF r[p] = NULL THEN n[p] = Len(freelist)
                     ELSE /\ n[p] + 1 \in DOMAIN freelist
                          /\ r[p] = freelist[n[p] + 1]

(* check_nproc() has counted the slots behind i: no fewer than were UNUSED *)
(* all the while, no more than were at some time.                          *)
ScanInv ==
  \A p \in Slot :
    pc[p] = "n_scan" =>
      /\ always[p] \subseteq Unused(state) /\ Unused(state) \subseteq ever[p]
      /\ Cardinality(always[p] \cap (1 .. i[p] - 1)) <= n[p]
      /\ n[p] <= Cardinality(ever[p] \cap (1 .. i[p] - 1))

IInv ==
  /\ TypeOK
  /\ PcInv /\ LockInv
  /\ KinInv /\ TracedByAncestors
  /\ KmemInv /\ FrameInv /\ PageInv
  /\ WalkInv /\ ScanInv

-----------------------------------------------------------------------------
(* NULL is neither a slot nor a page; the first process has a slot.        *)
LEMMA Constants ==
  NULL \notin Slot /\ NULL \notin Page /\ initproc \in Slot
BY NULLAssumption, NPROCAssumption, PageAssumption DEF Slot, initproc

(* The slot that a process is filling or freeing is its own to change.     *)
Own(p) ==
  /\ c[p] \in Slot /\ c[p] # p /\ lock[c[p]] = p
  /\ c[p] # initproc
  /\ state[p] = "ALIVE"
  /\ state[c[p]] # "ALIVE" /\ pc[c[p]] = "none" /\ c[c[p]] = NULL
  /\ \A q \in Slot : c[q] = c[p] => q = p

LEMMA OwnSlot ==
  ASSUME TypeControl, PcInv, LockInv, NEW p \in Slot, pc[p] \in Filling \cup
         Freeing
  PROVE  Own(p)
<1>1. c[p] \in Slot /\ lock[c[p]] = p
  BY DEF TypeControl, LockInv
<1>2. state[c[p]] # "ALIVE" /\ pc[c[p]] = "none"
  BY <1>1 DEF PcInv, LockInv, Filling
<1>3. state[p] = "ALIVE"
  BY DEF PcInv, Filling, Freeing
<1>4. c[c[p]] = NULL
  BY <1>1, <1>2 DEF TypeControl, LockInv, Filling, Freeing
<1>5. \A q \in Slot : c[q] = c[p] => q = p
  BY <1>1 DEF LockInv
<1> QED BY <1>1, <1>2, <1>3, <1>4, <1>5 DEF Own, PcInv

(* A step that changes neither the table nor a scan under way keeps ScanInv. *)
LEMMA ScanSame ==
  ASSUME ScanInv, Unused(state') = Unused(state),
         \A q \in Slot : pc'[q] = "n_scan" =>
           /\ pc[q] = "n_scan" /\ i'[q] = i[q] /\ n'[q] = n[q]
           /\ always'[q] = always[q] /\ ever'[q] = ever[q]
  PROVE  ScanInv'
BY DEF ScanInv

LEMMA SlotFinite == IsFiniteSet(Slot)
BY FS_Interval, NPROCAssumption DEF Slot

(* Of two sets of slots, the larger has no fewer slots up to k.            *)
LEMMA Count ==
  ASSUME NEW B \in SUBSET Slot, NEW A \in SUBSET B, NEW k
  PROVE  /\ Cardinality(A \cap (1 .. k)) \in Nat
         /\ Cardinality(B \cap (1 .. k)) \in Nat
         /\ Cardinality(A \cap (1 .. k)) <= Cardinality(B \cap (1 .. k))
<1>1. IsFiniteSet(B \cap (1 .. k))
  BY SlotFinite, FS_Subset
<1>2. A \cap (1 .. k) \in SUBSET (B \cap (1 .. k))
  OBVIOUS
<1>3. IsFiniteSet(A \cap (1 .. k))
  BY <1>1, <1>2, FS_Subset
<1> QED BY <1>1, <1>2, <1>3, FS_Subset, FS_CardinalityType

(* Counting one slot more.                                                 *)
LEMMA CountNext ==
  ASSUME NEW A \in SUBSET Slot, NEW k \in Slot
  PROVE  /\ Cardinality(A \cap (1 .. k - 1)) \in Nat
         /\ Cardinality(A \cap (1 .. (k + 1) - 1)) =
              IF k \in A THEN Cardinality(A \cap (1 .. k - 1)) + 1
                         ELSE Cardinality(A \cap (1 .. k - 1))
<1>1. IsFiniteSet(A \cap (1 .. k - 1))
  BY SlotFinite, FS_Subset
<1>2. k \notin A \cap (1 .. k - 1)
  BY NPROCAssumption DEF Slot
<1>3. CASE k \in A
  <2>1. A \cap (1 .. (k + 1) - 1) = (A \cap (1 .. k - 1)) \cup {k}
    BY <1>3, NPROCAssumption DEF Slot
  <2> QED BY <1>1, <1>2, <1>3, <2>1, FS_AddElement, FS_CardinalityType
<1>4. CASE k \notin A
  <2>1. A \cap (1 .. (k + 1) - 1) = A \cap (1 .. k - 1)
    BY <1>4, NPROCAssumption DEF Slot
  <2> QED BY <1>1, <1>4, <2>1, FS_CardinalityType
<1> QED BY <1>3, <1>4

(* A change of the table that the scans under way take notice of.          *)
LEMMA ScanWitness ==
  ASSUME TypeData, ScanInv, Witness(state'), UNCHANGED <<i, n>>,
         \A q \in Slot : pc'[q] = "n_scan" => pc[q] = "n_scan"
  PROVE  ScanInv'
<1> SUFFICES ASSUME NEW q \in Slot, pc[q] = "n_scan"
             PROVE  /\ always'[q] \subseteq Unused(state')
                    /\ Unused(state') \subseteq ever'[q]
                    /\ Cardinality(always'[q] \cap (1 .. i[q] - 1)) <= n[q]
                    /\ n[q] <= Cardinality(ever'[q] \cap (1 .. i[q] - 1))
  BY DEF ScanInv
<1>1. /\ always'[q] = always[q] \cap Unused(state')
      /\ ever'[q] = ever[q] \cup Unused(state')
  BY DEF Witness
<1>2. /\ always[q] \in SUBSET Slot /\ ever'[q] \in SUBSET Slot
      /\ always'[q] \in SUBSET always[q] /\ ever[q] \in SUBSET ever'[q]
  BY <1>1 DEF TypeData, Unused
<1>3. /\ Cardinality(always'[q] \cap (1 .. i[q] - 1)) \in Nat
      /\ Cardinality(always[q] \cap (1 .. i[q] - 1)) \in Nat
      /\ Cardinality(always'[q] \cap (1 .. i[q] - 1))
           <= Cardinality(always[q] \cap (1 .. i[q] - 1))
  BY <1>2, Count
<1>4. /\ Cardinality(ever'[q] \cap (1 .. i[q] - 1)) \in Nat
      /\ Cardinality(ever[q] \cap (1 .. i[q] - 1)) \in Nat
      /\ Cardinality(ever[q] \cap (1 .. i[q] - 1))
           <= Cardinality(ever'[q] \cap (1 .. i[q] - 1))
  BY <1>2, Count
<1>5. /\ Cardinality(always[q] \cap (1 .. i[q] - 1)) <= n[q]
      /\ n[q] <= Cardinality(ever[q] \cap (1 .. i[q] - 1))
      /\ n[q] \in Nat
  BY DEF ScanInv, TypeData
<1> QED BY <1>1, <1>3, <1>4, <1>5

(* r->next, while r is on the list, is the page one further.               *)
LEMMA NextPage ==
  ASSUME freelist \in Seq(Page), IsInjective(freelist),
         NEW k \in DOMAIN freelist
  PROVE  next(freelist[k]) = IF k = Len(freelist) THEN NULL
                                                  ELSE freelist[k + 1]
<1> DEFINE after == {l \in 2 .. Len(freelist) : freelist[l - 1] = freelist[k]}
<1>1. Len(freelist) \in Nat /\ DOMAIN freelist = 1 .. Len(freelist)
  OBVIOUS
<1>2. \A l \in after : l - 1 \in DOMAIN freelist /\ l - 1 = k
  BY <1>1 DEF IsInjective
<1>3. after = IF k = Len(freelist) THEN {} ELSE {k + 1}
  BY <1>1, <1>2
<1> QED BY <1>3 DEF next

LEMMA ForkFindStep ==
  ASSUME IInv, NEW p \in Slot, NEW s \in Slot, ForkFind(p, s)
  PROVE  IInv'
<1> USE Constants DEF IInv, TypeOK, ForkFind, Set, tableVars, listVars,
        localVars, history, Goto
<1>1. TypeControl'
  BY DEF TypeControl, Labels, Filling, Freeing, WithKmem
<1>2. TypeData'
  BY DEF TypeData
<1>3. PcInv'
  BY DEF TypeControl, PcInv, Filling, Freeing
<1>4. LockInv'
  <2>1. \A q, t \in Slot : lock'[t] = q <=> c'[q] = t
    BY DEF TypeControl, LockInv, Filling, Freeing
  <2>2. \A q \in Slot : c'[q] # NULL <=> pc'[q] \in Filling \cup Freeing
    BY DEF TypeControl, PcInv, LockInv, Filling, Freeing
  <2>3. \A q \in Slot : pc'[q] \in Filling => state'[c'[q]] = "UNUSED"
    BY DEF TypeControl, PcInv, LockInv, Filling, Freeing
  <2>4. \A q \in Slot : pc'[q] \in Freeing => state'[c'[q]] # "ALIVE"
    BY DEF TypeControl, PcInv, LockInv, Filling, Freeing
  <2> QED BY <2>1, <2>2, <2>3, <2>4 DEF LockInv
<1>5. KinInv' /\ TracedByAncestors'
  <2> SUFFICES ASSUME NEW q \in Slot, state'[q] # "UNUSED"
               PROVE  pid'[q] \in kin[q] /\ mask[q] \in kin[q] \cup {0}
    BY DEF KinInv, TracedByAncestors
  <2>1. state[q] # "UNUSED" /\ pid'[q] = pid[q]
    BY DEF TypeControl, TypeData, PcInv
  <2> QED BY <2>1 DEF KinInv, TracedByAncestors
<1>6. KmemInv'
  BY DEF TypeControl, PcInv, KmemInv, WithKmem
<1>7. FrameInv'
  BY DEF TypeControl, PcInv, LockInv, FrameInv, Filling, Freeing
<1>8. PageInv'
  <2>1. \A q \in Slot : InHand(q)' = InHand(q)
    BY DEF TypeControl, PcInv, LockInv, InHand
  <2> QED BY <2>1 DEF PageInv
<1>9. WalkInv'
  BY DEF TypeControl, TypeData, PcInv, KmemInv, WalkInv, WithKmem
<1>10. ScanInv'
  <2>1. \A q \in Slot : pc'[q] = "n_scan" =>
          /\ pc[q] = "n_scan" /\ i'[q] = i[q] /\ n'[q] = n[q]
          /\ always'[q] = always[q] /\ ever'[q] = ever[q]
    BY DEF TypeControl, PcInv
  <2>2. Unused(state') = Unused(state)
    BY DEF TypeControl, PcInv, Unused
  <2> QED BY <2>1, <2>2, ScanSame
<1> QED BY <1>1, <1>2, <1>3, <1>4, <1>5, <1>6, <1>7, <1>8, <1>9, <1>10

LEMMA KallocLoadStep ==
  ASSUME IInv, NEW p \in Slot, KallocLoad(p)
  PROVE  IInv'
<1> USE Constants DEF IInv, TypeOK, KallocLoad, Set, tableVars, listVars,
        localVars, history, Goto, acquireKmem
<1>1. Own(p)
  BY OwnSlot DEF Filling, Freeing
<1>2. TypeControl'
  <2>1. freelist # <<>> => Head(freelist) \in Page
    BY DEF TypeData
  <2> QED BY <2>1 DEF TypeControl, Labels, Filling, Freeing, WithKmem
<1>3. TypeData'
  BY <1>1 DEF TypeControl, TypeData, Own
<1>4. PcInv'
  BY <1>1 DEF TypeControl, PcInv, Filling, Freeing, Own
<1>5. LockInv'
  <2>1. \A q, t \in Slot : lock'[t] = q <=> c'[q] = t
    BY <1>1 DEF TypeControl, LockInv, Filling, Freeing, Own
  <2>2. \A q \in Slot : c'[q] # NULL <=> pc'[q] \in Filling \cup Freeing
    BY <1>1 DEF TypeControl, PcInv, LockInv, Filling, Freeing, Own
  <2>3. \A q \in Slot : pc'[q] \in Filling => state'[c'[q]] = "UNUSED"
    BY <1>1 DEF TypeControl, PcInv, LockInv, Filling, Freeing, Own
  <2>4. \A q \in Slot : pc'[q] \in Freeing => state'[c'[q]] # "ALIVE"
    BY <1>1 DEF TypeControl, PcInv, LockInv, Filling, Freeing, Own
  <2> QED BY <2>1, <2>2, <2>3, <2>4 DEF LockInv
<1>6. KinInv' /\ TracedByAncestors'
  BY <1>1 DEF TypeControl, TypeData, PcInv, LockInv, KinInv, TracedByAncestors,
              Own
<1>7. KmemInv'
  BY <1>1 DEF TypeControl, PcInv, KmemInv, WithKmem, Own
<1>8. FrameInv'
  BY <1>1 DEF TypeControl, PcInv, LockInv, FrameInv, Filling, Freeing, Own
<1>9. PageInv'
  <2>1. \A q \in Slot : InHand(q)' = InHand(q)
    BY <1>1 DEF TypeControl, PcInv, LockInv, InHand, Own
  <2> QED BY <2>1 DEF PageInv
<1>10. WalkInv'
  BY <1>1 DEF TypeControl, TypeData, PcInv, KmemInv, WalkInv, WithKmem, Own
<1>11. ScanInv'
  <2>1. \A q \in Slot : pc'[q] = "n_scan" =>
          /\ pc[q] = "n_scan" /\ i'[q] = i[q] /\ n'[q] = n[q]
          /\ always'[q] = always[q] /\ ever'[q] = ever[q]
    BY <1>1 DEF TypeControl, PcInv, Own
  <2>2. Unused(state') = Unused(state)
    BY <1>1 DEF TypeControl, PcInv, Unused, Own
  <2> QED BY <2>1, <2>2, ScanSame
<1> QED BY <1>1, <1>2, <1>3, <1>4, <1>5, <1>6, <1>7, <1>8, <1>9, <1>10, <1>11

LEMMA KallocUnlinkStep ==
  ASSUME IInv, NEW p \in Slot, KallocUnlink(p)
  PROVE  IInv'
<1> USE Constants DEF IInv, TypeOK, KallocUnlink, Set, tableVars, listVars,
        localVars, history, Goto, releaseKmem
<1>1. Own(p)
  BY OwnSlot DEF Filling, Freeing
<1>2. TypeControl'
  BY <1>1 DEF TypeControl, Labels, Filling, Freeing, WithKmem, Own
<1>3. TypeData'
  BY <1>1 DEF TypeControl, TypeData, Own
<1>4. PcInv'
  BY <1>1 DEF TypeControl, PcInv, Filling, Freeing, Own
<1>5. LockInv'
  <2>1. \A q, t \in Slot : lock'[t] = q <=> c'[q] = t
    BY <1>1 DEF TypeControl, LockInv, Filling, Freeing, Own
  <2>2. \A q \in Slot : c'[q] # NULL <=> pc'[q] \in Filling \cup Freeing
    BY <1>1 DEF TypeControl, PcInv, LockInv, Filling, Freeing, Own
  <2>3. \A q \in Slot : pc'[q] \in Filling => state'[c'[q]] = "UNUSED"
    BY <1>1 DEF TypeControl, PcInv, LockInv, Filling, Freeing, Own
  <2>4. \A q \in Slot : pc'[q] \in Freeing => state'[c'[q]] # "ALIVE"
    BY <1>1 DEF TypeControl, PcInv, LockInv, Filling, Freeing, Own
  <2> QED BY <2>1, <2>2, <2>3, <2>4 DEF LockInv
<1>6. KinInv' /\ TracedByAncestors'
  BY <1>1 DEF TypeControl, TypeData, PcInv, LockInv, KinInv, TracedByAncestors,
              Own
<1>7. KmemInv'
  BY <1>1 DEF TypeControl, PcInv, KmemInv, WithKmem, Own
<1>8. FrameInv'
  BY <1>1 DEF TypeControl, PcInv, LockInv, FrameInv, Filling, Freeing, Own
<1>9. PageInv'
  <2>1. InHand(p) = NULL /\ InHand(p)' = r[p]
    BY DEF TypeControl, InHand
  <2>2. \A q \in Slot \ {p} : InHand(q)' = InHand(q)
    BY DEF TypeControl, InHand
  <2>3. r[p] = IF freelist = <<>> THEN NULL ELSE Head(freelist)
    BY DEF KmemInv
  <2>4. CASE freelist = <<>>
    BY <2>1, <2>2, <2>3, <2>4 DEF PageInv
  <2>5. CASE freelist # <<>>
    <3>1. /\ Head(freelist) \in Range(freelist)
          /\ Range(freelist') = Range(freelist) \ {Head(freelist)}
          /\ IsInjective(freelist')
      BY <2>5, PopLemma DEF TypeData, PageInv
    <3> QED BY <2>1, <2>2, <2>3, <2>5, <3>1 DEF PageInv
  <2> QED BY <2>4, <2>5
<1>10. WalkInv'
  BY <1>1 DEF TypeControl, TypeData, PcInv, KmemInv, WalkInv, WithKmem, Own
<1>11. ScanInv'
  <2>1. \A q \in Slot : pc'[q] = "n_scan" =>
          /\ pc[q] = "n_scan" /\ i'[q] = i[q] /\ n'[q] = n[q]
          /\ always'[q] = always[q] /\ ever'[q] = ever[q]
    BY <1>1 DEF TypeControl, PcInv, Own
  <2>2. Unused(state') = Unused(state)
    BY <1>1 DEF TypeControl, PcInv, Unused, Own
  <2> QED BY <2>1, <2>2, ScanSame
<1> QED BY <1>1, <1>2, <1>3, <1>4, <1>5, <1>6, <1>7, <1>8, <1>9, <1>10, <1>11

LEMMA ForkFrameStep ==
  ASSUME IInv, NEW p \in Slot, ForkFrame(p)
  PROVE  IInv'
<1> USE Constants DEF IInv, TypeOK, ForkFrame, Set, tableVars, listVars,
        localVars, history, Goto
<1>1. Own(p)
  BY OwnSlot DEF Filling, Freeing
<1>2. TypeControl'
  BY <1>1 DEF TypeControl, Labels, Filling, Freeing, WithKmem, Own
<1>3. TypeData'
  BY <1>1 DEF TypeControl, TypeData, Own
<1>4. PcInv'
  BY <1>1 DEF TypeControl, PcInv, Filling, Freeing, Own
<1>5. LockInv'
  <2>1. \A q, t \in Slot : lock'[t] = q <=> c'[q] = t
    BY <1>1 DEF TypeControl, LockInv, Filling, Freeing, Own
  <2>2. \A q \in Slot : c'[q] # NULL <=> pc'[q] \in Filling \cup Freeing
    BY <1>1 DEF TypeControl, PcInv, LockInv, Filling, Freeing, Own
  <2>3. \A q \in Slot : pc'[q] \in Filling => state'[c'[q]] = "UNUSED"
    BY <1>1 DEF TypeControl, PcInv, LockInv, Filling, Freeing, Own
  <2>4. \A q \in Slot : pc'[q] \in Freeing => state'[c'[q]] # "ALIVE"
    BY <1>1 DEF TypeControl, PcInv, LockInv, Filling, Freeing, Own
  <2> QED BY <2>1, <2>2, <2>3, <2>4 DEF LockInv
<1>6. KinInv' /\ TracedByAncestors'
  BY <1>1 DEF TypeControl, TypeData, PcInv, LockInv, KinInv, TracedByAncestors,
              Own
<1>7. KmemInv'
  BY <1>1 DEF TypeControl, PcInv, KmemInv, WithKmem, Own
<1>8. FrameInv'
  BY <1>1 DEF TypeControl, PcInv, LockInv, FrameInv, Filling, Freeing, Own
<1>9. PageInv'
  <2>1. InHand(p) = r[p] /\ InHand(p)' = NULL
    BY <1>1 DEF TypeControl, InHand
  <2>2. \A q \in Slot \ {p} : InHand(q)' = InHand(q)
    BY DEF TypeControl, InHand
  <2>3. NULL \notin Range(freelist)
    BY DEF TypeData, Range
  <2> QED BY <1>1, <2>1, <2>2, <2>3 DEF TypeControl, PageInv, Own
<1>10. WalkInv'
  BY <1>1 DEF TypeControl, TypeData, PcInv, KmemInv, WalkInv, WithKmem, Own
<1>11. ScanInv'
  <2>1. \A q \in Slot : pc'[q] = "n_scan" =>
          /\ pc[q] = "n_scan" /\ i'[q] = i[q] /\ n'[q] = n[q]
          /\ always'[q] = always[q] /\ ever'[q] = ever[q]
    BY <1>1 DEF TypeControl, PcInv, Own
  <2>2. Unused(state') = Unused(state)
    BY <1>1 DEF TypeControl, PcInv, Unused, Own
  <2> QED BY <2>1, <2>2, ScanSame
<1> QED BY <1>1, <1>2, <1>3, <1>4, <1>5, <1>6, <1>7, <1>8, <1>9, <1>10, <1>11

LEMMA ForkNoFrameStep ==
  ASSUME IInv, NEW p \in Slot, ForkNoFrame(p)
  PROVE  IInv'
<1> USE Constants DEF IInv, TypeOK, ForkNoFrame, Set, tableVars, listVars,
        localVars, history, Goto
<1>1. Own(p)
  BY OwnSlot DEF Filling, Freeing
<1>2. TypeControl'
  BY <1>1 DEF TypeControl, Labels, Filling, Freeing, WithKmem, Own
<1>3. TypeData'
  BY <1>1 DEF TypeControl, TypeData, Own
<1>4. PcInv'
  BY <1>1 DEF TypeControl, PcInv, Filling, Freeing, Own
<1>5. LockInv'
  <2>1. \A q, t \in Slot : lock'[t] = q <=> c'[q] = t
    BY <1>1 DEF TypeControl, LockInv, Filling, Freeing, Own
  <2>2. \A q \in Slot : c'[q] # NULL <=> pc'[q] \in Filling \cup Freeing
    BY <1>1 DEF TypeControl, PcInv, LockInv, Filling, Freeing, Own
  <2>3. \A q \in Slot : pc'[q] \in Filling => state'[c'[q]] = "UNUSED"
    BY <1>1 DEF TypeControl, PcInv, LockInv, Filling, Freeing, Own
  <2>4. \A q \in Slot : pc'[q] \in Freeing => state'[c'[q]] # "ALIVE"
    BY <1>1 DEF TypeControl, PcInv, LockInv, Filling, Freeing, Own
  <2> QED BY <2>1, <2>2, <2>3, <2>4 DEF LockInv
<1>6. KinInv' /\ TracedByAncestors'
  BY <1>1 DEF TypeControl, TypeData, PcInv, LockInv, KinInv, TracedByAncestors,
              Own
<1>7. KmemInv'
  BY <1>1 DEF TypeControl, PcInv, KmemInv, WithKmem, Own
<1>8. FrameInv'
  BY <1>1 DEF TypeControl, PcInv, LockInv, FrameInv, Filling, Freeing, Own
<1>9. PageInv'
  <2>1. \A q \in Slot : InHand(q)' = InHand(q)
    BY <1>1 DEF TypeControl, PcInv, LockInv, InHand, Own
  <2> QED BY <2>1 DEF PageInv
<1>10. WalkInv'
  BY <1>1 DEF TypeControl, TypeData, PcInv, KmemInv, WalkInv, WithKmem, Own
<1>11. ScanInv'
  <2>1. \A q \in Slot : pc'[q] = "n_scan" =>
          /\ pc[q] = "n_scan" /\ i'[q] = i[q] /\ n'[q] = n[q]
          /\ always'[q] = always[q] /\ ever'[q] = ever[q]
    BY <1>1 DEF TypeControl, PcInv, Own
  <2>2. Unused(state') = Unused(state)
    BY <1>1 DEF TypeControl, PcInv, Unused, Own
  <2> QED BY <2>1, <2>2, ScanSame
<1> QED BY <1>1, <1>2, <1>3, <1>4, <1>5, <1>6, <1>7, <1>8, <1>9, <1>10, <1>11

LEMMA ForkDoneStep ==
  ASSUME IInv, NEW p \in Slot, ForkDone(p)
  PROVE  IInv'
<1> USE Constants DEF IInv, TypeOK, ForkDone, Set, tableVars, listVars,
        localVars, history, Witness, Unused
<1>1. Own(p)
  BY OwnSlot DEF Filling, Freeing
<1>2. TypeControl'
  BY <1>1 DEF TypeControl, Labels, Filling, Freeing, WithKmem, Own
<1>3. TypeData'
  <2>1. always' \in [Slot -> SUBSET Slot] /\ ever' \in [Slot -> SUBSET Slot]
    BY DEF TypeData
  <2>2. kin' \in [Slot -> SUBSET Nat]
    BY <1>1 DEF TypeData, Own
  <2> QED BY <1>1, <2>1, <2>2 DEF TypeData, Own
<1>4. PcInv'
  BY <1>1 DEF TypeControl, PcInv, Filling, Freeing, Own
<1>5. LockInv'
  <2>1. \A q, t \in Slot : lock'[t] = q <=> c'[q] = t
    BY <1>1 DEF TypeControl, LockInv, Filling, Freeing, Own
  <2>2. \A q \in Slot : c'[q] # NULL <=> pc'[q] \in Filling \cup Freeing
    BY <1>1 DEF TypeControl, PcInv, LockInv, Filling, Freeing, Own
  <2>3. \A q \in Slot : pc'[q] \in Filling => state'[c'[q]] = "UNUSED"
    BY <1>1 DEF TypeControl, PcInv, LockInv, Filling, Freeing, Own
  <2>4. \A q \in Slot : pc'[q] \in Freeing => state'[c'[q]] # "ALIVE"
    BY <1>1 DEF TypeControl, PcInv, LockInv, Filling, Freeing, Own
  <2> QED BY <2>1, <2>2, <2>3, <2>4 DEF LockInv
<1>6. KinInv' /\ TracedByAncestors'
  <2> SUFFICES ASSUME NEW q \in Slot, state'[q] # "UNUSED"
               PROVE  pid[q] \in kin'[q] /\ mask'[q] \in kin'[q] \cup {0}
    BY DEF KinInv, TracedByAncestors
  <2>1. CASE q = c[p]
    <3>1. kin'[q] = kin[p] \cup {pid[q]} /\ mask'[q] = mask[p]
      BY <1>1, <2>1 DEF TypeData, Own
    <3> QED BY <1>1, <3>1 DEF TracedByAncestors, Own
  <2>2. CASE q # c[p]
    <3>1. /\ kin'[q] = kin[q] /\ mask'[q] = mask[q]
          /\ state[q] # "UNUSED"
      BY <1>1, <2>2 DEF TypeControl, TypeData, Own
    <3> QED BY <3>1 DEF KinInv, TracedByAncestors
  <2> QED BY <2>1, <2>2
<1>7. KmemInv'
  BY <1>1 DEF TypeControl, PcInv, KmemInv, WithKmem, Own
<1>8. FrameInv'
  BY <1>1 DEF TypeControl, PcInv, LockInv, FrameInv, Filling, Freeing, Own
<1>9. PageInv'
  <2>1. \A q \in Slot : InHand(q)' = InHand(q)
    BY <1>1 DEF TypeControl, PcInv, LockInv, InHand, Own
  <2> QED BY <2>1 DEF PageInv
<1>10. WalkInv'
  BY <1>1 DEF TypeControl, TypeData, PcInv, KmemInv, WalkInv, WithKmem, Own
<1>11. ScanInv'
  <2>1. \A q \in Slot : pc'[q] = "n_scan" => pc[q] = "n_scan"
    BY <1>1 DEF TypeControl, Own
  <2> QED BY <2>1, ScanWitness
<1> QED BY <1>1, <1>2, <1>3, <1>4, <1>5, <1>6, <1>7, <1>8, <1>9, <1>10, <1>11

LEMMA ForkGiveUpStep ==
  ASSUME IInv, NEW p \in Slot, ForkGiveUp(p)
  PROVE  IInv'
<1> USE Constants DEF IInv, TypeOK, ForkGiveUp, Set, tableVars, listVars,
        localVars, history, Goto
<1>1. Own(p)
  BY OwnSlot DEF Filling, Freeing
<1>2. TypeControl'
  BY <1>1 DEF TypeControl, Labels, Filling, Freeing, WithKmem, Own
<1>3. TypeData'
  BY <1>1 DEF TypeControl, TypeData, Own
<1>4. PcInv'
  BY <1>1 DEF TypeControl, PcInv, Filling, Freeing, Own
<1>5. LockInv'
  <2>1. \A q, t \in Slot : lock'[t] = q <=> c'[q] = t
    BY <1>1 DEF TypeControl, LockInv, Filling, Freeing, Own
  <2>2. \A q \in Slot : c'[q] # NULL <=> pc'[q] \in Filling \cup Freeing
    BY <1>1 DEF TypeControl, PcInv, LockInv, Filling, Freeing, Own
  <2>3. \A q \in Slot : pc'[q] \in Filling => state'[c'[q]] = "UNUSED"
    BY <1>1 DEF TypeControl, PcInv, LockInv, Filling, Freeing, Own
  <2>4. \A q \in Slot : pc'[q] \in Freeing => state'[c'[q]] # "ALIVE"
    BY <1>1 DEF TypeControl, PcInv, LockInv, Filling, Freeing, Own
  <2> QED BY <2>1, <2>2, <2>3, <2>4 DEF LockInv
<1>6. KinInv' /\ TracedByAncestors'
  BY <1>1 DEF TypeControl, TypeData, PcInv, LockInv, KinInv, TracedByAncestors,
              Own
<1>7. KmemInv'
  BY <1>1 DEF TypeControl, PcInv, KmemInv, WithKmem, Own
<1>8. FrameInv'
  BY <1>1 DEF TypeControl, PcInv, LockInv, FrameInv, Filling, Freeing, Own
<1>9. PageInv'
  <2>1. InHand(p) = NULL /\ InHand(p)' = trapframe[c[p]]
    BY <1>1 DEF TypeControl, InHand
  <2>2. \A q \in Slot \ {p} : InHand(q)' = InHand(q)
    BY DEF TypeControl, InHand
  <2>3. NULL \notin Range(freelist)
    BY DEF TypeData, Range
  <2> QED BY <1>1, <2>1, <2>2, <2>3 DEF TypeControl, PageInv, Own
<1>10. WalkInv'
  BY <1>1 DEF TypeControl, TypeData, PcInv, KmemInv, WalkInv, WithKmem, Own
<1>11. ScanInv'
  <2>1. \A q \in Slot : pc'[q] = "n_scan" =>
          /\ pc[q] = "n_scan" /\ i'[q] = i[q] /\ n'[q] = n[q]
          /\ always'[q] = always[q] /\ ever'[q] = ever[q]
    BY <1>1 DEF TypeControl, PcInv, Own
  <2>2. Unused(state') = Unused(state)
    BY <1>1 DEF TypeControl, PcInv, Unused, Own
  <2> QED BY <2>1, <2>2, ScanSame
<1> QED BY <1>1, <1>2, <1>3, <1>4, <1>5, <1>6, <1>7, <1>8, <1>9, <1>10, <1>11

LEMMA ExitStep ==
  ASSUME IInv, NEW p \in Slot, Exit(p)
  PROVE  IInv'
<1> USE Constants DEF IInv, TypeOK, Exit, Set, tableVars, listVars, localVars,
        history, Goto
<1>1. TypeControl'
  BY DEF TypeControl, Labels, Filling, Freeing, WithKmem
<1>2. TypeData'
  BY DEF TypeControl, TypeData
<1>3. PcInv'
  BY DEF TypeControl, PcInv, Filling, Freeing
<1>4. LockInv'
  <2>1. \A q, t \in Slot : lock'[t] = q <=> c'[q] = t
    BY DEF TypeControl, LockInv, Filling, Freeing
  <2>2. \A q \in Slot : c'[q] # NULL <=> pc'[q] \in Filling \cup Freeing
    BY DEF TypeControl, PcInv, LockInv, Filling, Freeing
  <2>3. \A q \in Slot : pc'[q] \in Filling => state'[c'[q]] = "UNUSED"
    BY DEF TypeControl, PcInv, LockInv, Filling, Freeing
  <2>4. \A q \in Slot : pc'[q] \in Freeing => state'[c'[q]] # "ALIVE"
    BY DEF TypeControl, PcInv, LockInv, Filling, Freeing
  <2> QED BY <2>1, <2>2, <2>3, <2>4 DEF LockInv
<1>5. KinInv' /\ TracedByAncestors'
  <2> SUFFICES ASSUME NEW q \in Slot, state'[q] # "UNUSED"
               PROVE  pid'[q] \in kin[q] /\ mask[q] \in kin[q] \cup {0}
    BY DEF KinInv, TracedByAncestors
  <2>1. state[q] # "UNUSED" /\ pid'[q] = pid[q]
    BY DEF TypeControl, TypeData, PcInv
  <2> QED BY <2>1 DEF KinInv, TracedByAncestors
<1>6. KmemInv'
  BY DEF TypeControl, PcInv, KmemInv, WithKmem
<1>7. FrameInv'
  BY DEF TypeControl, PcInv, LockInv, FrameInv, Filling, Freeing
<1>8. PageInv'
  <2>1. \A q \in Slot : InHand(q)' = InHand(q)
    BY DEF TypeControl, PcInv, LockInv, InHand
  <2> QED BY <2>1 DEF PageInv
<1>9. WalkInv'
  BY DEF TypeControl, TypeData, PcInv, KmemInv, WalkInv, WithKmem
<1>10. ScanInv'
  <2>1. \A q \in Slot : pc'[q] = "n_scan" =>
          /\ pc[q] = "n_scan" /\ i'[q] = i[q] /\ n'[q] = n[q]
          /\ always'[q] = always[q] /\ ever'[q] = ever[q]
    BY DEF TypeControl, PcInv
  <2>2. Unused(state') = Unused(state)
    BY DEF TypeControl, PcInv, Unused
  <2> QED BY <2>1, <2>2, ScanSame
<1> QED BY <1>1, <1>2, <1>3, <1>4, <1>5, <1>6, <1>7, <1>8, <1>9, <1>10

LEMMA WaitFoundStep ==
  ASSUME IInv, NEW p \in Slot, NEW s \in Slot, WaitFound(p, s)
  PROVE  IInv'
<1> USE Constants DEF IInv, TypeOK, WaitFound, Set, tableVars, listVars,
        localVars, history, Goto
<1>1. TypeControl'
  BY DEF TypeControl, Labels, Filling, Freeing, WithKmem
<1>2. TypeData'
  BY DEF TypeControl, TypeData
<1>3. PcInv'
  BY DEF TypeControl, PcInv, Filling, Freeing
<1>4. LockInv'
  <2>1. \A q, t \in Slot : lock'[t] = q <=> c'[q] = t
    BY DEF TypeControl, LockInv, Filling, Freeing
  <2>2. \A q \in Slot : c'[q] # NULL <=> pc'[q] \in Filling \cup Freeing
    BY DEF TypeControl, PcInv, LockInv, Filling, Freeing
  <2>3. \A q \in Slot : pc'[q] \in Filling => state'[c'[q]] = "UNUSED"
    BY DEF TypeControl, PcInv, LockInv, Filling, Freeing
  <2>4. \A q \in Slot : pc'[q] \in Freeing => state'[c'[q]] # "ALIVE"
    BY DEF TypeControl, PcInv, LockInv, Filling, Freeing
  <2> QED BY <2>1, <2>2, <2>3, <2>4 DEF LockInv
<1>5. KinInv' /\ TracedByAncestors'
  BY DEF TypeControl, TypeData, PcInv, LockInv, KinInv, TracedByAncestors
<1>6. KmemInv'
  BY DEF TypeControl, PcInv, KmemInv, WithKmem
<1>7. FrameInv'
  BY DEF TypeControl, PcInv, LockInv, FrameInv, Filling, Freeing
<1>8. PageInv'
  <2>1. InHand(p) = NULL /\ InHand(p)' = trapframe[s]
    BY DEF TypeControl, InHand
  <2>2. \A q \in Slot \ {p} : InHand(q)' = InHand(q)
    BY DEF TypeControl, InHand
  <2>3. NULL \notin Range(freelist)
    BY DEF TypeData, Range
  <2> QED BY <2>1, <2>2, <2>3 DEF TypeControl, PageInv
<1>9. WalkInv'
  BY DEF TypeControl, TypeData, PcInv, KmemInv, WalkInv, WithKmem
<1>10. ScanInv'
  <2>1. \A q \in Slot : pc'[q] = "n_scan" =>
          /\ pc[q] = "n_scan" /\ i'[q] = i[q] /\ n'[q] = n[q]
          /\ always'[q] = always[q] /\ ever'[q] = ever[q]
    BY DEF TypeControl, PcInv
  <2>2. Unused(state') = Unused(state)
    BY DEF TypeControl, PcInv, Unused
  <2> QED BY <2>1, <2>2, ScanSame
<1> QED BY <1>1, <1>2, <1>3, <1>4, <1>5, <1>6, <1>7, <1>8, <1>9, <1>10

LEMMA KfreeAcquireStep ==
  ASSUME IInv, NEW p \in Slot, KfreeAcquire(p)
  PROVE  IInv'
<1> USE Constants DEF IInv, TypeOK, KfreeAcquire, Set, tableVars, listVars,
        localVars, history, Goto, acquireKmem
<1>1. Own(p)
  BY OwnSlot DEF Filling, Freeing
<1>2. TypeControl'
  BY <1>1 DEF TypeControl, Labels, Filling, Freeing, WithKmem, Own
<1>3. TypeData'
  BY <1>1 DEF TypeControl, TypeData, Own
<1>4. PcInv'
  BY <1>1 DEF TypeControl, PcInv, Filling, Freeing, Own
<1>5. LockInv'
  <2>1. \A q, t \in Slot : lock'[t] = q <=> c'[q] = t
    BY <1>1 DEF TypeControl, LockInv, Filling, Freeing, Own
  <2>2. \A q \in Slot : c'[q] # NULL <=> pc'[q] \in Filling \cup Freeing
    BY <1>1 DEF TypeControl, PcInv, LockInv, Filling, Freeing, Own
  <2>3. \A q \in Slot : pc'[q] \in Filling => state'[c'[q]] = "UNUSED"
    BY <1>1 DEF TypeControl, PcInv, LockInv, Filling, Freeing, Own
  <2>4. \A q \in Slot : pc'[q] \in Freeing => state'[c'[q]] # "ALIVE"
    BY <1>1 DEF TypeControl, PcInv, LockInv, Filling, Freeing, Own
  <2> QED BY <2>1, <2>2, <2>3, <2>4 DEF LockInv
<1>6. KinInv' /\ TracedByAncestors'
  BY <1>1 DEF TypeControl, TypeData, PcInv, LockInv, KinInv, TracedByAncestors,
              Own
<1>7. KmemInv'
  BY <1>1 DEF TypeControl, PcInv, KmemInv, WithKmem, Own
<1>8. FrameInv'
  BY <1>1 DEF TypeControl, PcInv, LockInv, FrameInv, Filling, Freeing, Own
<1>9. PageInv'
  <2>1. \A q \in Slot : InHand(q)' = InHand(q)
    BY <1>1 DEF TypeControl, PcInv, LockInv, InHand, Own
  <2> QED BY <2>1 DEF PageInv
<1>10. WalkInv'
  BY <1>1 DEF TypeControl, TypeData, PcInv, KmemInv, WalkInv, WithKmem, Own
<1>11. ScanInv'
  <2>1. \A q \in Slot : pc'[q] = "n_scan" =>
          /\ pc[q] = "n_scan" /\ i'[q] = i[q] /\ n'[q] = n[q]
          /\ always'[q] = always[q] /\ ever'[q] = ever[q]
    BY <1>1 DEF TypeControl, PcInv, Own
  <2>2. Unused(state') = Unused(state)
    BY <1>1 DEF TypeControl, PcInv, Unused, Own
  <2> QED BY <2>1, <2>2, ScanSame
<1> QED BY <1>1, <1>2, <1>3, <1>4, <1>5, <1>6, <1>7, <1>8, <1>9, <1>10, <1>11

LEMMA KfreePushStep ==
  ASSUME IInv, NEW p \in Slot, KfreePush(p)
  PROVE  IInv'
<1> USE Constants DEF IInv, TypeOK, KfreePush, Set, tableVars, listVars,
        localVars, history, Goto, releaseKmem
<1>1. Own(p)
  BY OwnSlot DEF Filling, Freeing
<1>2. TypeControl'
  BY <1>1 DEF TypeControl, Labels, Filling, Freeing, WithKmem, Own
<1>3. TypeData'
  <2>1. r[p] \in Page
    BY DEF TypeControl, FrameInv
  <2>2. <<r[p]>> \o freelist \in Seq(Page)
    BY <2>1 DEF TypeData
  <2> QED BY <2>2 DEF TypeData
<1>4. PcInv'
  BY <1>1 DEF TypeControl, PcInv, Filling, Freeing, Own
<1>5. LockInv'
  <2>1. \A q, t \in Slot : lock'[t] = q <=> c'[q] = t
    BY <1>1 DEF TypeControl, LockInv, Filling, Freeing, Own
  <2>2. \A q \in Slot : c'[q] # NULL <=> pc'[q] \in Filling \cup Freeing
    BY <1>1 DEF TypeControl, PcInv, LockInv, Filling, Freeing, Own
  <2>3. \A q \in Slot : pc'[q] \in Filling => state'[c'[q]] = "UNUSED"
    BY <1>1 DEF TypeControl, PcInv, LockInv, Filling, Freeing, Own
  <2>4. \A q \in Slot : pc'[q] \in Freeing => state'[c'[q]] # "ALIVE"
    BY <1>1 DEF TypeControl, PcInv, LockInv, Filling, Freeing, Own
  <2> QED BY <2>1, <2>2, <2>3, <2>4 DEF LockInv
<1>6. KinInv' /\ TracedByAncestors'
  BY <1>1 DEF TypeControl, TypeData, PcInv, LockInv, KinInv, TracedByAncestors,
              Own
<1>7. KmemInv'
  BY <1>1 DEF TypeControl, PcInv, KmemInv, WithKmem, Own
<1>8. FrameInv'
  BY <1>1 DEF TypeControl, PcInv, LockInv, FrameInv, Filling, Freeing, Own
<1>9. PageInv'
  <2>1. InHand(p) = r[p] /\ InHand(p)' = NULL /\ r[p] \in Page
    BY DEF TypeControl, FrameInv, InHand
  <2>2. \A q \in Slot \ {p} : InHand(q)' = InHand(q)
    BY DEF TypeControl, InHand
  <2>3. NULL \notin Range(freelist) /\ r[p] \notin Range(freelist)
    BY <2>1 DEF TypeData, PageInv, Range
  <2>4. /\ Range(freelist') = {r[p]} \cup Range(freelist)
        /\ IsInjective(freelist')
    BY <2>1, <2>3, PushLemma DEF TypeData, PageInv
  <2> QED BY <2>1, <2>2, <2>3, <2>4 DEF PageInv
<1>10. WalkInv'
  BY <1>1 DEF TypeControl, TypeData, PcInv, KmemInv, WalkInv, WithKmem, Own
<1>11. ScanInv'
  <2>1. \A q \in Slot : pc'[q] = "n_scan" =>
          /\ pc[q] = "n_scan" /\ i'[q] = i[q] /\ n'[q] = n[q]
          /\ always'[q] = always[q] /\ ever'[q] = ever[q]
    BY <1>1 DEF TypeControl, PcInv, Own
  <2>2. Unused(state') = Unused(state)
    BY <1>1 DEF TypeControl, PcInv, Unused, Own
  <2> QED BY <2>1, <2>2, ScanSame
<1> QED BY <1>1, <1>2, <1>3, <1>4, <1>5, <1>6, <1>7, <1>8, <1>9, <1>10, <1>11

LEMMA FreeprocDoneStep ==
  ASSUME IInv, NEW p \in Slot, FreeprocDone(p)
  PROVE  IInv'
<1> USE Constants DEF IInv, TypeOK, FreeprocDone, Set, tableVars, listVars,
        localVars, history, Goto, Witness, Unused
<1>1. Own(p)
  BY OwnSlot DEF Filling, Freeing
<1>2. TypeControl'
  BY <1>1 DEF TypeControl, Labels, Filling, Freeing, WithKmem, Own
<1>3. TypeData'
  <2>1. always' \in [Slot -> SUBSET Slot] /\ ever' \in [Slot -> SUBSET Slot]
    BY DEF TypeData
  <2>2. kin' \in [Slot -> SUBSET Nat]
    BY <1>1 DEF TypeData, Own
  <2> QED BY <1>1, <2>1, <2>2 DEF TypeData, Own
<1>4. PcInv'
  BY <1>1 DEF TypeControl, PcInv, Filling, Freeing, Own
<1>5. LockInv'
  <2>1. \A q, t \in Slot : lock'[t] = q <=> c'[q] = t
    BY <1>1 DEF TypeControl, LockInv, Filling, Freeing, Own
  <2>2. \A q \in Slot : c'[q] # NULL <=> pc'[q] \in Filling \cup Freeing
    BY <1>1 DEF TypeControl, PcInv, LockInv, Filling, Freeing, Own
  <2>3. \A q \in Slot : pc'[q] \in Filling => state'[c'[q]] = "UNUSED"
    BY <1>1 DEF TypeControl, PcInv, LockInv, Filling, Freeing, Own
  <2>4. \A q \in Slot : pc'[q] \in Freeing => state'[c'[q]] # "ALIVE"
    BY <1>1 DEF TypeControl, PcInv, LockInv, Filling, Freeing, Own
  <2> QED BY <2>1, <2>2, <2>3, <2>4 DEF LockInv
<1>6. KinInv' /\ TracedByAncestors'
  <2> SUFFICES ASSUME NEW q \in Slot, state'[q] # "UNUSED"
               PROVE  pid'[q] \in kin'[q] /\ mask[q] \in kin'[q] \cup {0}
    BY DEF KinInv, TracedByAncestors
  <2>1. /\ q # c[p] /\ state[q] # "UNUSED"
        /\ kin'[q] = kin[q] /\ pid'[q] = pid[q]
    BY <1>1 DEF TypeControl, TypeData, Own
  <2> QED BY <2>1 DEF KinInv, TracedByAncestors
<1>7. KmemInv'
  BY <1>1 DEF TypeControl, PcInv, KmemInv, WithKmem, Own
<1>8. FrameInv'
  BY <1>1 DEF TypeControl, PcInv, LockInv, FrameInv, Filling, Freeing, Own
<1>9. PageInv'
  <2>1. \A q \in Slot : InHand(q)' = InHand(q)
    BY <1>1 DEF TypeControl, PcInv, LockInv, InHand, Own
  <2> QED BY <2>1 DEF PageInv
<1>10. WalkInv'
  BY <1>1 DEF TypeControl, TypeData, PcInv, KmemInv, WalkInv, WithKmem, Own
<1>11. ScanInv'
  <2>1. \A q \in Slot : pc'[q] = "n_scan" => pc[q] = "n_scan"
    BY <1>1 DEF TypeControl, Own
  <2> QED BY <2>1, ScanWitness
<1> QED BY <1>1, <1>2, <1>3, <1>4, <1>5, <1>6, <1>7, <1>8, <1>9, <1>10, <1>11

LEMMA Sys_traceStep ==
  ASSUME IInv, NEW p \in Slot, sys_trace(p)
  PROVE  IInv'
<1> USE Constants DEF IInv, TypeOK, sys_trace, Set, tableVars, listVars,
        localVars, history
<1>1. TypeControl'
  BY DEF TypeControl, Labels, Filling, Freeing, WithKmem
<1>2. TypeData'
  BY DEF TypeControl, TypeData
<1>3. PcInv'
  BY DEF TypeControl, PcInv, Filling, Freeing
<1>4. LockInv'
  <2>1. \A q, t \in Slot : lock'[t] = q <=> c'[q] = t
    BY DEF TypeControl, LockInv, Filling, Freeing
  <2>2. \A q \in Slot : c'[q] # NULL <=> pc'[q] \in Filling \cup Freeing
    BY DEF TypeControl, PcInv, LockInv, Filling, Freeing
  <2>3. \A q \in Slot : pc'[q] \in Filling => state'[c'[q]] = "UNUSED"
    BY DEF TypeControl, PcInv, LockInv, Filling, Freeing
  <2>4. \A q \in Slot : pc'[q] \in Freeing => state'[c'[q]] # "ALIVE"
    BY DEF TypeControl, PcInv, LockInv, Filling, Freeing
  <2> QED BY <2>1, <2>2, <2>3, <2>4 DEF LockInv
<1>5. KinInv' /\ TracedByAncestors'
  BY DEF TypeControl, TypeData, PcInv, LockInv, KinInv, TracedByAncestors
<1>6. KmemInv'
  BY DEF TypeControl, PcInv, KmemInv, WithKmem
<1>7. FrameInv'
  BY DEF TypeControl, PcInv, LockInv, FrameInv, Filling, Freeing
<1>8. PageInv'
  <2>1. \A q \in Slot : InHand(q)' = InHand(q)
    BY DEF TypeControl, PcInv, LockInv, InHand
  <2> QED BY <2>1 DEF PageInv
<1>9. WalkInv'
  BY DEF TypeControl, TypeData, PcInv, KmemInv, WalkInv, WithKmem
<1>10. ScanInv'
  <2>1. \A q \in Slot : pc'[q] = "n_scan" =>
          /\ pc[q] = "n_scan" /\ i'[q] = i[q] /\ n'[q] = n[q]
          /\ always'[q] = always[q] /\ ever'[q] = ever[q]
    BY DEF TypeControl, PcInv
  <2>2. Unused(state') = Unused(state)
    BY DEF TypeControl, PcInv, Unused
  <2> QED BY <2>1, <2>2, ScanSame
<1> QED BY <1>1, <1>2, <1>3, <1>4, <1>5, <1>6, <1>7, <1>8, <1>9, <1>10

LEMMA FreememAcquireStep ==
  ASSUME IInv, NEW p \in Slot, FreememAcquire(p)
  PROVE  IInv'
<1> USE Constants DEF IInv, TypeOK, FreememAcquire, Set, tableVars, listVars,
        localVars, history, Goto, acquireKmem
<1>1. TypeControl'
  <2>1. freelist # <<>> => Head(freelist) \in Page
    BY DEF TypeData
  <2> QED BY <2>1 DEF TypeControl, Labels, Filling, Freeing, WithKmem
<1>2. TypeData'
  BY DEF TypeControl, TypeData
<1>3. PcInv'
  BY DEF TypeControl, PcInv, Filling, Freeing
<1>4. LockInv'
  <2>1. \A q, t \in Slot : lock'[t] = q <=> c'[q] = t
    BY DEF TypeControl, LockInv, Filling, Freeing
  <2>2. \A q \in Slot : c'[q] # NULL <=> pc'[q] \in Filling \cup Freeing
    BY DEF TypeControl, PcInv, LockInv, Filling, Freeing
  <2>3. \A q \in Slot : pc'[q] \in Filling => state'[c'[q]] = "UNUSED"
    BY DEF TypeControl, PcInv, LockInv, Filling, Freeing
  <2>4. \A q \in Slot : pc'[q] \in Freeing => state'[c'[q]] # "ALIVE"
    BY DEF TypeControl, PcInv, LockInv, Filling, Freeing
  <2> QED BY <2>1, <2>2, <2>3, <2>4 DEF LockInv
<1>5. KinInv' /\ TracedByAncestors'
  BY DEF TypeControl, TypeData, PcInv, LockInv, KinInv, TracedByAncestors
<1>6. KmemInv'
  BY DEF TypeControl, PcInv, KmemInv, WithKmem
<1>7. FrameInv'
  BY DEF TypeControl, PcInv, LockInv, FrameInv, Filling, Freeing
<1>8. PageInv'
  <2>1. \A q \in Slot : InHand(q)' = InHand(q)
    BY DEF TypeControl, PcInv, LockInv, InHand
  <2> QED BY <2>1 DEF PageInv
<1>9. WalkInv'
  BY DEF TypeControl, TypeData, PcInv, KmemInv, WalkInv, WithKmem
<1>10. ScanInv'
  <2>1. \A q \in Slot : pc'[q] = "n_scan" =>
          /\ pc[q] = "n_scan" /\ i'[q] = i[q] /\ n'[q] = n[q]
          /\ always'[q] = always[q] /\ ever'[q] = ever[q]
    BY DEF TypeControl, PcInv
  <2>2. Unused(state') = Unused(state)
    BY DEF TypeControl, PcInv, Unused
  <2> QED BY <2>1, <2>2, ScanSame
<1> QED BY <1>1, <1>2, <1>3, <1>4, <1>5, <1>6, <1>7, <1>8, <1>9, <1>10

LEMMA FreememStepStep ==
  ASSUME IInv, NEW p \in Slot, FreememStep(p)
  PROVE  IInv'
<1> USE Constants DEF IInv, TypeOK, FreememStep, Set, tableVars, listVars,
        localVars, history
<1>1. TypeControl'
  <2>1. next(r[p]) \in Page \cup {NULL}
    <3>1. freelist[n[p] + 1] = r[p] /\ n[p] + 1 \in DOMAIN freelist
      BY DEF WalkInv
    <3>2. /\ freelist \in Seq(Page) /\ IsInjective(freelist)
      BY DEF TypeData, PageInv
    <3> QED BY <3>1, <3>2, NextPage
  <2> QED BY <2>1 DEF TypeControl
<1>2. TypeData'
  BY DEF TypeData
<1>3. PcInv'
  BY DEF TypeControl, PcInv, Filling, Freeing
<1>4. LockInv'
  <2>1. \A q, t \in Slot : lock'[t] = q <=> c'[q] = t
    BY DEF TypeControl, LockInv, Filling, Freeing
  <2>2. \A q \in Slot : c'[q] # NULL <=> pc'[q] \in Filling \cup Freeing
    BY DEF TypeControl, PcInv, LockInv, Filling, Freeing
  <2>3. \A q \in Slot : pc'[q] \in Filling => state'[c'[q]] = "UNUSED"
    BY DEF TypeControl, PcInv, LockInv, Filling, Freeing
  <2>4. \A q \in Slot : pc'[q] \in Freeing => state'[c'[q]] # "ALIVE"
    BY DEF TypeControl, PcInv, LockInv, Filling, Freeing
  <2> QED BY <2>1, <2>2, <2>3, <2>4 DEF LockInv
<1>5. KinInv' /\ TracedByAncestors'
  BY DEF TypeControl, TypeData, PcInv, LockInv, KinInv, TracedByAncestors
<1>6. KmemInv'
  BY DEF TypeControl, PcInv, KmemInv, WithKmem
<1>7. FrameInv'
  BY DEF TypeControl, PcInv, LockInv, FrameInv, Filling, Freeing
<1>8. PageInv'
  <2>1. \A q \in Slot : InHand(q)' = InHand(q)
    BY DEF TypeControl, PcInv, LockInv, InHand
  <2> QED BY <2>1 DEF PageInv
<1>9. WalkInv'
  <2>1. n[p] + 1 \in DOMAIN freelist /\ r[p] = freelist[n[p] + 1]
    BY DEF WalkInv
  <2>2. freelist \in Seq(Page) /\ IsInjective(freelist) /\ n[p] \in Nat
    BY DEF TypeData, PageInv
  <2>3. next(r[p]) = IF n[p] + 1 = Len(freelist) THEN NULL
                                                 ELSE freelist[n[p] + 1 + 1]
    BY <2>1, <2>2, NextPage
  <2>4. \A k \in DOMAIN freelist : freelist[k] # NULL /\ k <= Len(freelist)
    BY <2>2
  <2>5. n'[p] = n[p] + 1 /\ r'[p] = next(r[p])
    BY DEF TypeControl, TypeData
  <2>6. IF r'[p] = NULL THEN n'[p] = Len(freelist)
        ELSE n'[p] + 1 \in DOMAIN freelist /\ r'[p] = freelist[n'[p] + 1]
    BY <2>1, <2>2, <2>3, <2>4, <2>5
  <2> QED BY <2>6 DEF TypeControl, KmemInv, WalkInv, WithKmem
<1>10. ScanInv'
  <2>1. \A q \in Slot : pc'[q] = "n_scan" =>
          /\ pc[q] = "n_scan" /\ i'[q] = i[q] /\ n'[q] = n[q]
          /\ always'[q] = always[q] /\ ever'[q] = ever[q]
    BY DEF TypeControl, PcInv
  <2>2. Unused(state') = Unused(state)
    BY DEF TypeControl, PcInv, Unused
  <2> QED BY <2>1, <2>2, ScanSame
<1> QED BY <1>1, <1>2, <1>3, <1>4, <1>5, <1>6, <1>7, <1>8, <1>9, <1>10

LEMMA FreememReleaseStep ==
  ASSUME IInv, NEW p \in Slot, FreememRelease(p)
  PROVE  IInv'
<1> USE Constants DEF IInv, TypeOK, FreememRelease, Set, tableVars, listVars,
        localVars, history, Goto, releaseKmem
<1>1. TypeControl'
  BY DEF TypeControl, Labels, Filling, Freeing, WithKmem
<1>2. TypeData'
  <2>1. 1 \in 1 .. NPROC + 1
    BY NPROCAssumption
  <2>2. always' \in [Slot -> SUBSET Slot] /\ ever' \in [Slot -> SUBSET Slot]
    BY DEF TypeData, Unused
  <2> QED BY <2>1, <2>2 DEF TypeData
<1>3. PcInv'
  BY DEF TypeControl, PcInv, Filling, Freeing
<1>4. LockInv'
  <2>1. \A q, t \in Slot : lock'[t] = q <=> c'[q] = t
    BY DEF TypeControl, LockInv, Filling, Freeing
  <2>2. \A q \in Slot : c'[q] # NULL <=> pc'[q] \in Filling \cup Freeing
    BY DEF TypeControl, PcInv, LockInv, Filling, Freeing
  <2>3. \A q \in Slot : pc'[q] \in Filling => state'[c'[q]] = "UNUSED"
    BY DEF TypeControl, PcInv, LockInv, Filling, Freeing
  <2>4. \A q \in Slot : pc'[q] \in Freeing => state'[c'[q]] # "ALIVE"
    BY DEF TypeControl, PcInv, LockInv, Filling, Freeing
  <2> QED BY <2>1, <2>2, <2>3, <2>4 DEF LockInv
<1>5. KinInv' /\ TracedByAncestors'
  BY DEF TypeControl, TypeData, PcInv, LockInv, KinInv, TracedByAncestors
<1>6. KmemInv'
  BY DEF TypeControl, PcInv, KmemInv, WithKmem
<1>7. FrameInv'
  BY DEF TypeControl, PcInv, LockInv, FrameInv, Filling, Freeing
<1>8. PageInv'
  <2>1. \A q \in Slot : InHand(q)' = InHand(q)
    BY DEF TypeControl, PcInv, LockInv, InHand
  <2> QED BY <2>1 DEF PageInv
<1>9. WalkInv'
  BY DEF TypeControl, TypeData, PcInv, KmemInv, WalkInv, WithKmem
<1>10. ScanInv'
  <2>1. /\ i'[p] = 1 /\ n'[p] = 0
        /\ always'[p] = Unused(state) /\ ever'[p] = Unused(state)
    BY DEF TypeData
  <2>2. \A q \in Slot \ {p} : pc'[q] = "n_scan" =>
          /\ pc[q] = "n_scan" /\ i'[q] = i[q] /\ n'[q] = n[q]
          /\ always'[q] = always[q] /\ ever'[q] = ever[q]
    BY DEF TypeControl, TypeData
  <2>3. Unused(state') = Unused(state)
    OBVIOUS
  <2>4. /\ always'[p] \subseteq Unused(state')
        /\ Unused(state') \subseteq ever'[p]
        /\ Cardinality(always'[p] \cap (1 .. i'[p] - 1)) <= n'[p]
        /\ n'[p] <= Cardinality(ever'[p] \cap (1 .. i'[p] - 1))
    <3>1. always'[p] \cap (1 .. i'[p] - 1) = {}
      BY <2>1
    <3>2. ever'[p] \cap (1 .. i'[p] - 1) = {}
      BY <2>1
    <3>3. /\ Cardinality(always'[p] \cap (1 .. i'[p] - 1)) = 0
          /\ Cardinality(ever'[p] \cap (1 .. i'[p] - 1)) = 0
      BY <3>1, <3>2, FS_EmptySet
    <3>4. n'[p] = 0 /\ 0 <= 0
      BY <2>1
    <3>5. /\ Cardinality(always'[p] \cap (1 .. i'[p] - 1)) <= n'[p]
          /\ n'[p] <= Cardinality(ever'[p] \cap (1 .. i'[p] - 1))
      BY ONLY <3>3, <3>4
    <3> QED BY <2>1, <2>3, <3>5
  <2>5. ASSUME NEW q \in Slot \ {p}, pc'[q] = "n_scan"
        PROVE  /\ always'[q] \subseteq Unused(state')
               /\ Unused(state') \subseteq ever'[q]
               /\ Cardinality(always'[q] \cap (1 .. i'[q] - 1)) <= n'[q]
               /\ n'[q] <= Cardinality(ever'[q] \cap (1 .. i'[q] - 1))
    BY <2>2, <2>3, <2>5 DEF ScanInv
  <2> QED BY <2>4, <2>5 DEF ScanInv
<1> QED BY <1>1, <1>2, <1>3, <1>4, <1>5, <1>6, <1>7, <1>8, <1>9, <1>10

LEMMA NprocStepStep ==
  ASSUME IInv, NEW p \in Slot, NprocStep(p)
  PROVE  IInv'
<1> USE Constants DEF IInv, TypeOK, NprocStep, Set, tableVars, listVars,
        localVars, history
<1>1. TypeControl'
  BY DEF TypeControl, Labels, Filling, Freeing, WithKmem
<1>2. TypeData'
  <2>1. i' \in [Slot -> 1 .. NPROC + 1]
    <3>1. i[p] + 1 \in 1 .. NPROC + 1
      BY NPROCAssumption DEF Slot
    <3> QED BY <3>1 DEF TypeData
  <2>2. n' \in [Slot -> Nat]
    <3>1. n[p] \in Nat /\ n[p] + 1 \in Nat
      BY DEF TypeData
    <3> QED BY <3>1 DEF TypeData
  <2> QED BY <2>1, <2>2 DEF TypeData
<1>3. PcInv'
  BY DEF TypeControl, PcInv, Filling, Freeing
<1>4. LockInv'
  <2>1. \A q, t \in Slot : lock'[t] = q <=> c'[q] = t
    BY DEF TypeControl, LockInv, Filling, Freeing
  <2>2. \A q \in Slot : c'[q] # NULL <=> pc'[q] \in Filling \cup Freeing
    BY DEF TypeControl, PcInv, LockInv, Filling, Freeing
  <2>3. \A q \in Slot : pc'[q] \in Filling => state'[c'[q]] = "UNUSED"
    BY DEF TypeControl, PcInv, LockInv, Filling, Freeing
  <2>4. \A q \in Slot : pc'[q] \in Freeing => state'[c'[q]] # "ALIVE"
    BY DEF TypeControl, PcInv, LockInv, Filling, Freeing
  <2> QED BY <2>1, <2>2, <2>3, <2>4 DEF LockInv
<1>5. KinInv' /\ TracedByAncestors'
  BY DEF TypeControl, TypeData, PcInv, LockInv, KinInv, TracedByAncestors
<1>6. KmemInv'
  BY DEF TypeControl, PcInv, KmemInv, WithKmem
<1>7. FrameInv'
  BY DEF TypeControl, PcInv, LockInv, FrameInv, Filling, Freeing
<1>8. PageInv'
  <2>1. \A q \in Slot : InHand(q)' = InHand(q)
    BY DEF TypeControl, PcInv, LockInv, InHand
  <2> QED BY <2>1 DEF PageInv
<1>9. WalkInv'
  BY DEF TypeControl, TypeData, PcInv, KmemInv, WalkInv, WithKmem
<1>10. ScanInv'
  <2>1. /\ always[p] \subseteq Unused(state) /\ Unused(state) \subseteq ever[p]
        /\ Cardinality(always[p] \cap (1 .. i[p] - 1)) <= n[p]
        /\ n[p] <= Cardinality(ever[p] \cap (1 .. i[p] - 1))
    BY DEF ScanInv
  <2>2. /\ always[p] \in SUBSET Slot /\ ever[p] \in SUBSET Slot
        /\ n[p] \in Nat
        /\ i'[p] = i[p] + 1
        /\ n'[p] = IF state[i[p]] = "UNUSED" THEN n[p] + 1 ELSE n[p]
    BY DEF TypeData
  <2>3. /\ state[i[p]] = "UNUSED" => i[p] \in ever[p]
        /\ state[i[p]] # "UNUSED" => i[p] \notin always[p]
    BY <2>1 DEF Unused
  <2>4. /\ Cardinality(always[p] \cap (1 .. i'[p] - 1)) <= n'[p]
        /\ n'[p] <= Cardinality(ever[p] \cap (1 .. i'[p] - 1))
    <3>1. /\ Cardinality(always[p] \cap (1 .. i[p] - 1)) \in Nat
          /\ Cardinality(always[p] \cap (1 .. (i[p] + 1) - 1)) =
               IF i[p] \in always[p]
               THEN Cardinality(always[p] \cap (1 .. i[p] - 1)) + 1
               ELSE Cardinality(always[p] \cap (1 .. i[p] - 1))
      BY <2>2, CountNext
    <3>2. /\ Cardinality(ever[p] \cap (1 .. i[p] - 1)) \in Nat
          /\ Cardinality(ever[p] \cap (1 .. (i[p] + 1) - 1)) =
               IF i[p] \in ever[p]
               THEN Cardinality(ever[p] \cap (1 .. i[p] - 1)) + 1
               ELSE Cardinality(ever[p] \cap (1 .. i[p] - 1))
      BY <2>2, CountNext
    <3>3. /\ Cardinality(always[p] \cap (1 .. (i[p] + 1) - 1)) <= n'[p]
          /\ n'[p] <= Cardinality(ever[p] \cap (1 .. (i[p] + 1) - 1))
      BY <2>1, <2>2, <2>3, <3>1, <3>2
    <3> QED BY <2>2, <3>3
  <2>5. \A q \in Slot \ {p} : i'[q] = i[q] /\ n'[q] = n[q]
    BY DEF TypeData
  <2>6. ASSUME NEW q \in Slot, pc[q] = "n_scan"
        PROVE  /\ always[q] \subseteq Unused(state)
               /\ Unused(state) \subseteq ever[q]
               /\ Cardinality(always[q] \cap (1 .. i'[q] - 1)) <= n'[q]
               /\ n'[q] <= Cardinality(ever[q] \cap (1 .. i'[q] - 1))
    BY <2>1, <2>4, <2>5, <2>6 DEF ScanInv
  <2>7. Unused(state') = Unused(state)
    OBVIOUS
  <2> QED BY <2>6, <2>7 DEF ScanInv
<1> QED BY <1>1, <1>2, <1>3, <1>4, <1>5, <1>6, <1>7, <1>8, <1>9, <1>10

LEMMA SysinfoReturnStep ==
  ASSUME IInv, NEW p \in Slot, SysinfoReturn(p)
  PROVE  IInv'
<1> USE Constants DEF IInv, TypeOK, SysinfoReturn, Set, tableVars, listVars,
        localVars, history, Goto
<1>1. TypeControl'
  BY DEF TypeControl, Labels, Filling, Freeing, WithKmem
<1>2. TypeData'
  <2>1. 1 \in 1 .. NPROC + 1
    BY NPROCAssumption
  <2> QED BY <2>1 DEF TypeData
<1>3. PcInv'
  BY DEF TypeControl, PcInv, Filling, Freeing
<1>4. LockInv'
  <2>1. \A q, t \in Slot : lock'[t] = q <=> c'[q] = t
    BY DEF TypeControl, LockInv, Filling, Freeing
  <2>2. \A q \in Slot : c'[q] # NULL <=> pc'[q] \in Filling \cup Freeing
    BY DEF TypeControl, PcInv, LockInv, Filling, Freeing
  <2>3. \A q \in Slot : pc'[q] \in Filling => state'[c'[q]] = "UNUSED"
    BY DEF TypeControl, PcInv, LockInv, Filling, Freeing
  <2>4. \A q \in Slot : pc'[q] \in Freeing => state'[c'[q]] # "ALIVE"
    BY DEF TypeControl, PcInv, LockInv, Filling, Freeing
  <2> QED BY <2>1, <2>2, <2>3, <2>4 DEF LockInv
<1>5. KinInv' /\ TracedByAncestors'
  BY DEF TypeControl, TypeData, PcInv, LockInv, KinInv, TracedByAncestors
<1>6. KmemInv'
  BY DEF TypeControl, PcInv, KmemInv, WithKmem
<1>7. FrameInv'
  BY DEF TypeControl, PcInv, LockInv, FrameInv, Filling, Freeing
<1>8. PageInv'
  <2>1. \A q \in Slot : InHand(q)' = InHand(q)
    BY DEF TypeControl, PcInv, LockInv, InHand
  <2> QED BY <2>1 DEF PageInv
<1>9. WalkInv'
  BY DEF TypeControl, TypeData, PcInv, KmemInv, WalkInv, WithKmem
<1>10. ScanInv'
  <2>1. \A q \in Slot : pc'[q] = "n_scan" =>
          /\ pc[q] = "n_scan" /\ i'[q] = i[q] /\ n'[q] = n[q]
          /\ always'[q] = always[q] /\ ever'[q] = ever[q]
    BY DEF TypeControl, PcInv
  <2>2. Unused(state') = Unused(state)
    BY DEF TypeControl, PcInv, Unused
  <2> QED BY <2>1, <2>2, ScanSame
<1> QED BY <1>1, <1>2, <1>3, <1>4, <1>5, <1>6, <1>7, <1>8, <1>9, <1>10
LEMMA ListOfAll ==
  /\ SetToSeq(Page) \in Seq(Page)
  /\ IsInjective(SetToSeq(Page))
<1>1. /\ Cardinality(Page) \in Nat
      /\ ExistsBijection(1 .. Cardinality(Page), Page)
  BY PageAssumption, FS_CardinalityType
<1>2. \E f \in [1 .. Cardinality(Page) -> Page] : IsInjective(f)
  BY <1>1 DEF ExistsBijection, Bijection, Injection, IsInjective
<1>3. /\ SetToSeq(Page) \in [1 .. Cardinality(Page) -> Page]
      /\ IsInjective(SetToSeq(Page))
  BY <1>2 DEF SetToSeq
<1> QED BY <1>1, <1>3

LEMMA InitIInv == Init => IInv
<1> SUFFICES ASSUME Init PROVE IInv
  OBVIOUS
<1> USE Constants, ListOfAll DEF Init
<1>1. TypeControl
  BY DEF TypeControl, Labels
<1>2. TypeData
  <2>1. 1 \in 1 .. NPROC + 1
    BY NPROCAssumption
  <2> QED BY <2>1 DEF TypeData
<1>3. PcInv /\ LockInv /\ KmemInv
  BY DEF PcInv, LockInv, KmemInv, Filling, Freeing, WithKmem
<1>4. KinInv /\ TracedByAncestors
  BY DEF KinInv, TracedByAncestors
<1>5. FrameInv
  BY DEF FrameInv, Filling, Freeing
<1>6. PageInv
  <2>1. NULL \notin Range(freelist)
    BY DEF Range
  <2> QED BY <2>1 DEF PageInv, InHand
<1>7. WalkInv /\ ScanInv
  BY DEF WalkInv, ScanInv
<1> QED BY <1>1, <1>2, <1>3, <1>4, <1>5, <1>6, <1>7 DEF IInv, TypeOK

LEMMA NextIInv == IInv /\ [Next]_vars => IInv'
<1> SUFFICES ASSUME IInv, [Next]_vars PROVE IInv'
  OBVIOUS
<1>1. CASE UNCHANGED vars
  <2> USE <1>1 DEF vars, tableVars, listVars, localVars, history
  <2>1. /\ TypeOK' /\ PcInv' /\ LockInv'
        /\ KinInv' /\ TracedByAncestors' /\ KmemInv'
    BY DEF IInv, TypeOK, TypeControl, TypeData, PcInv, LockInv, KinInv,
           TracedByAncestors, KmemInv
  <2>2. FrameInv' /\ PageInv' /\ WalkInv'
    BY DEF IInv, FrameInv, PageInv, InHand, WalkInv
  <2>3. ScanInv'
    BY DEF IInv, ScanInv, Unused
  <2> QED BY <2>1, <2>2, <2>3 DEF IInv
<1>2. CASE Next
  BY <1>2, ForkFindStep, KallocLoadStep, KallocUnlinkStep, ForkFrameStep,
     ForkNoFrameStep, ForkDoneStep, ForkGiveUpStep, ExitStep, WaitFoundStep,
     KfreeAcquireStep, KfreePushStep, FreeprocDoneStep, Sys_traceStep,
     FreememAcquireStep, FreememStepStep, FreememReleaseStep, NprocStepStep,
     SysinfoReturnStep
  DEF Next
<1> QED BY <1>1, <1>2

-----------------------------------------------------------------------------
(* In every reachable state, whatever the number of slots, of pages and of *)
(* callers: where every page is, who has which lock, and how far the walks *)
(* and the scans of sysinfo() have come.                                   *)
THEOREM Invariance == Spec => []IInv
BY InitIInv, NextIInv, PTL DEF Spec

(* A process is traced because it or an ancestor called trace(), never     *)
(* because of the process that had its slot before (Lab2/kernel/proc.c,    *)
(* freeproc() leaves the mask and fork() overwrites it).                   *)
THEOREM MaskInherited == Spec => []TracedByAncestors
<1>1. IInv => TracedByAncestors
  BY DEF IInv
<1> QED BY <1>1, Invariance, PTL

(* check_nproc() of Lab2/kernel/proc.c takes no lock, and is wrong by no   *)
(* more than the processes that came or went while it ran.                 *)
THEOREM NprocBounded == Spec => []NprocWithinTheScan
<1>1. IInv => NprocWithinTheScan
  <2> SUFFICES ASSUME IInv, NEW p \in Slot, pc[p] = "n_scan", i[p] \notin Slot
               PROVE  /\ Cardinality(always[p]) <= n[p]
                      /\ n[p] <= Cardinality(ever[p])
    BY DEF NprocWithinTheScan
  <2>1. /\ always[p] \in SUBSET Slot /\ ever[p] \in SUBSET Slot
        /\ i[p] \in 1 .. NPROC + 1
    BY DEF IInv, TypeOK, TypeData
  <2>2. i[p] - 1 = NPROC
    BY <2>1, NPROCAssumption DEF Slot
  <2>3. /\ always[p] \cap (1 .. i[p] - 1) = always[p]
        /\ ever[p] \cap (1 .. i[p] - 1) = ever[p]
    BY <2>1, <2>2 DEF Slot
  <2> QED BY <2>3 DEF IInv, ScanInv
<1> QED BY <1>1, Invariance, PTL

(* check_freemem() of Lab2/kernel/kalloc.c counts the list as it is when   *)
(* the lock is released.                                                   *)
THEOREM FreememExact == Spec => FreememOfAMoment
<1>1. IInv /\ [Next]_vars =>
        [\A p \in Slot :
           pc[p] = "m_walk" /\ pc'[p] # "m_walk" => n[p] = Len(freelist)]_vars
  <2> SUFFICES ASSUME IInv, Next, NEW p \in Slot,
                      pc[p] = "m_walk", pc'[p] # "m_walk"
               PROVE  n[p] = Len(freelist)
    OBVIOUS
  <2> USE DEF IInv, TypeOK, TypeControl
  <2>1. ASSUME NEW q \in Slot, FreememRelease(q) PROVE n[p] = Len(freelist)
    BY <2>1 DEF FreememRelease, Goto, WalkInv
  <2>2. ASSUME NEW q \in Slot, ForkDone(q) PROVE FALSE
    <3>1. pc[c[q]] = "none" /\ c[q] \in Slot
      BY <2>2, OwnSlot DEF ForkDone, Filling, Own
    <3> QED BY <2>2, <3>1 DEF ForkDone
  <2>3. ASSUME NEW q \in Slot, NEW s \in Slot,
               ForkFind(q, s) \/ WaitFound(q, s)
        PROVE FALSE
    BY <2>3 DEF ForkFind, WaitFound, Goto
  <2>4. ASSUME NEW q \in Slot,
               \/ KallocLoad(q) \/ KallocUnlink(q) \/ ForkFrame(q)
               \/ ForkNoFrame(q) \/ ForkGiveUp(q) \/ Exit(q)
        PROVE  FALSE
    BY <2>4 DEF KallocLoad, KallocUnlink, ForkFrame, ForkNoFrame, ForkGiveUp,
                Exit, Goto
  <2>5. ASSUME NEW q \in Slot,
               \/ KfreeAcquire(q) \/ KfreePush(q) \/ FreeprocDone(q)
               \/ sys_trace(q) \/ FreememAcquire(q) \/ FreememStep(q)
               \/ NprocStep(q) \/ SysinfoReturn(q)
        PROVE  FALSE
    BY <2>5 DEF KfreeAcquire, KfreePush, FreeprocDone, sys_trace,
                FreememAcquire, FreememStep, NprocStep, SysinfoReturn, Goto
  <2> QED BY <2>1, <2>2, <2>3, <2>4, <2>5 DEF Next
<1> QED BY <1>1, Invariance, PTL DEF Spec, FreememOfAMoment

(* Seen from its clients the allocator of Lab2/kernel/kalloc.c is the      *)
(* abstract one, as the lists per CPU of Lab3 are: unlinking the head of   *)
(* the list is a Pick, an allocproc() that got its page a Return, the call *)
(* of kfree() a Free, and every other step a stutter.                      *)
THEOREM Refinement == Spec => ImplementsPageAllocator
<1> DEFINE hand == [p \in Slot |-> Picked(p)]
           out == {trapframe[s] : s \in Slot} \ {NULL}
<1>1. Init => Abstract!Init
  BY DEF Init, Abstract!Init, Picked
<1>2. IInv /\ [Next]_vars => [Abstract!Next]_(Abstract!avars)
  <2> SUFFICES ASSUME IInv, [Next]_vars
               PROVE  Abstract!Next \/ UNCHANGED <<hand, out>>
    BY DEF Abstract!avars
  <2> USE Constants DEF IInv, TypeOK
  <2>1. CASE UNCHANGED vars
    BY <2>1 DEF vars, tableVars, localVars, Picked
  <2>2. ASSUME NEW p \in Slot, KallocUnlink(p)
        PROVE  Abstract!Next \/ UNCHANGED <<hand, out>>
    <3>1. /\ hand[p] = NULL /\ hand' = [hand EXCEPT ![p] = r[p]]
          /\ UNCHANGED out
      <4>1. Picked(p) = NULL /\ Picked(p)' = r[p]
        BY <2>2 DEF KallocUnlink, Goto, localVars, Picked, TypeControl
      <4>2. \A q \in Slot \ {p} : Picked(q)' = Picked(q)
        BY <2>2 DEF KallocUnlink, Goto, localVars, Picked, TypeControl
      <4>3. UNCHANGED trapframe
        BY <2>2 DEF KallocUnlink, tableVars
      <4> QED BY <4>1, <4>2, <4>3
    <3>2. r[p] = IF freelist = <<>> THEN NULL ELSE Head(freelist)
      BY <2>2 DEF KallocUnlink, Goto, KmemInv
    <3>3. CASE freelist = <<>>
      <4>1. hand' = hand
        BY <3>1, <3>2, <3>3
      <4> QED BY <3>1, <4>1
    <3>4. CASE freelist # <<>>
      <4>1. r[p] \in Range(freelist) /\ r[p] \in Page
        BY <3>2, <3>4, PopLemma DEF TypeData, PageInv
      <4>2. r[p] \notin out
        BY <4>1 DEF PageInv
      <4>3. \A q \in Slot : hand[q] # r[p]
        BY <4>1 DEF PageInv, Picked, InHand
      <4>4. Abstract!Pick(p, r[p])
        BY <3>1, <4>2, <4>3 DEF Abstract!Pick
      <4> QED BY <4>1, <4>4 DEF Abstract!Next
    <3> QED BY <3>3, <3>4
  <2>3. ASSUME NEW p \in Slot, ForkFrame(p)
        PROVE  Abstract!Next
    <3>1. Own(p)
      BY <2>3, OwnSlot DEF ForkFrame, Goto, Filling
    <3>2. trapframe[c[p]] = NULL
      BY <2>3 DEF ForkFrame, Goto, FrameInv, Filling
    <3>3. /\ hand[p] = r[p] /\ r[p] # NULL
          /\ hand' = [hand EXCEPT ![p] = NULL]
      BY <2>3 DEF ForkFrame, Goto, Set, Picked, TypeControl
    <3>4. out' = out \cup {r[p]}
      <4>1. trapframe' = [trapframe EXCEPT ![c[p]] = r[p]] /\ c[p] \in Slot
        BY <2>3, <3>1 DEF ForkFrame, Set, Own
      <4> QED BY <3>2, <3>3, <4>1 DEF TypeControl
    <3>5. Abstract!Return(p)
      BY <3>3, <3>4 DEF Abstract!Return
    <3> QED BY <3>5 DEF Abstract!Next
  <2>4. ASSUME NEW s \in Slot, trapframe[s] # NULL,
               trapframe' = [trapframe EXCEPT ![s] = NULL],
               \A q \in Slot : Picked(q)' = Picked(q)
        PROVE  Abstract!Next
    <3>1. trapframe[s] \in out /\ trapframe[s] \in Page
      BY <2>4 DEF TypeControl
    <3>2. out' = out \ {trapframe[s]}
      <4>1. \A t \in Slot : trapframe[t] = trapframe[s] => t = s
        BY <2>4 DEF PageInv
      <4>2. \A t \in Slot : trapframe'[t] = IF t = s THEN NULL ELSE trapframe[t]
        BY <2>4 DEF TypeControl
      <4> QED BY <4>1, <4>2
    <3>3. UNCHANGED hand
      BY <2>4
    <3> QED BY <3>1, <3>2, <3>3 DEF Abstract!Next, Abstract!Free
  <2>5. ASSUME NEW p \in Slot, ForkGiveUp(p)
        PROVE  Abstract!Next
    <3>1. Own(p)
      BY <2>5, OwnSlot DEF ForkGiveUp, Goto, Filling
    <3>2. trapframe[c[p]] # NULL
      BY <2>5 DEF ForkGiveUp, Goto, FrameInv
    <3>3. \A q \in Slot : Picked(q)' = Picked(q)
      BY <2>5 DEF ForkGiveUp, Goto, Set, Picked, TypeControl
    <3> QED BY <2>4, <2>5, <3>1, <3>2, <3>3 DEF ForkGiveUp, Set, Own
  <2>6. ASSUME NEW p \in Slot, NEW s \in Slot, WaitFound(p, s)
        PROVE  Abstract!Next
    <3>1. trapframe[s] # NULL
      BY <2>6 DEF WaitFound, FrameInv, PcInv
    <3>2. \A q \in Slot : Picked(q)' = Picked(q)
      BY <2>6 DEF WaitFound, Goto, Set, Picked, TypeControl
    <3> QED BY <2>4, <2>6, <3>1, <3>2 DEF WaitFound, Set
  <2>7. ASSUME NEW p \in Slot, ForkDone(p)
        PROVE  UNCHANGED <<hand, out>>
    <3>1. Own(p)
      BY <2>7, OwnSlot DEF ForkDone, Filling
    <3>2. \A q \in Slot : Picked(q)' = Picked(q)
      BY <2>7, <3>1 DEF ForkDone, Picked, TypeControl, Own
    <3> QED BY <2>7, <3>2 DEF ForkDone
  <2>8. ASSUME NEW p \in Slot,
               \/ KallocLoad(p) \/ ForkNoFrame(p) \/ Exit(p)
               \/ KfreeAcquire(p) \/ KfreePush(p) \/ FreeprocDone(p)
               \/ \E s \in Slot : ForkFind(p, s)
        PROVE  UNCHANGED <<hand, out>>
    <3>1. UNCHANGED trapframe
      BY <2>8 DEF KallocLoad, ForkNoFrame, Exit, KfreeAcquire, KfreePush,
                  FreeprocDone, ForkFind, tableVars
    <3>2. \A q \in Slot : Picked(q)' = Picked(q)
      BY <2>8 DEF KallocLoad, ForkNoFrame, Exit, KfreeAcquire, KfreePush,
                  FreeprocDone, ForkFind, localVars, Goto, Set, Picked,
                  TypeControl
    <3> QED BY <3>1, <3>2
  <2>9. ASSUME NEW p \in Slot,
               \/ sys_trace(p) \/ FreememAcquire(p) \/ FreememStep(p)
               \/ FreememRelease(p) \/ NprocStep(p) \/ SysinfoReturn(p)
        PROVE  UNCHANGED <<hand, out>>
    <3>1. UNCHANGED trapframe
      BY <2>9 DEF sys_trace, FreememAcquire, FreememStep, FreememRelease,
                  NprocStep, SysinfoReturn, tableVars
    <3>2. \A q \in Slot : Picked(q)' = Picked(q)
      BY <2>9 DEF sys_trace, FreememAcquire, FreememStep, FreememRelease,
                  NprocStep, SysinfoReturn, localVars, Goto, Set, Picked,
                  TypeControl
    <3> QED BY <3>1, <3>2
  <2> QED BY <2>1, <2>2, <2>3, <2>5, <2>6, <2>7, <2>8, <2>9 DEF Next
<1> QED BY <1>1, <1>2, Invariance, PTL
        DEF Spec, ImplementsPageAllocator, Abstract!Spec
=============================================================================
