---------------------------- MODULE UserVmProofs ----------------------------
(***************************************************************************)
(* Proofs about user memory and its two page tables, UserVm.tla, for any   *)
(* page size, number of pages, processes and arguments of the calls.       *)
(***************************************************************************)
EXTENDS UserVm, FiniteSetTheorems, TLAPS

(* The pages below the size of a process; those that its user page table   *)
(* maps, more of them inside growproc(); and those of the image that       *)
(* fork() or exec() is building.                                           *)
Below(p) == IF sz[p] = NULL THEN 0 ELSE Pages(sz[p])
Top(p)   == IF pc[p] = "grow" THEN at[p] ELSE Below(p)
Built(p) == IF pc[p] \in {"fork", "exec"} THEN at[p] ELSE 0

(* What a call knows between its allocations.                              *)
CallInv ==
  \A p \in Proc :
    /\ pc[p] # "user" => sz[p] # NULL /\ at[p] <= Pages(tgt[p])
    /\ pc[p] = "user" => at[p] = 0
    /\ pc[p] = "grow" => sz[p] < tgt[p] /\ Below(p) <= at[p]
    /\ pc[p] = "exec" => tgt[p] % PGSIZE = 0
    /\ pc[p] = "fork" => child[p] # NULL /\ sz[child[p]] = NULL
    /\ pc[p] # "fork" => child[p] = NULL

ChildInv ==
  \A p, q \in Proc : child[p] = child[q] /\ child[p] # NULL => p = q

(* Which pages the tables map.                                             *)
TableInv ==
  \A p \in Proc, a \in VPage :
    /\ upt[p][a] # NULL <=> a < Top(p)
    /\ img[p][a] # NULL <=> a < Built(p)
    /\ kpt[p][a] # NULL => a < Below(p) /\ kpt[p][a] = upt[p][a]

(* A physical page is free or mapped at one place of one table, for the    *)
(* tables U of the processes, I of the images they build, and free pages F.*)
Owned(U, I, F) ==
  /\ \A p, q \in Proc, a, b \in VPage :
       /\ U[p][a] # NULL /\ U[p][a] = U[q][b] => p = q /\ a = b
       /\ I[p][a] # NULL /\ I[p][a] = I[q][b] => p = q /\ a = b
       /\ U[p][a] # NULL => U[p][a] # I[q][b]
  /\ \A p \in Proc, a \in VPage : U[p][a] \notin F /\ I[p][a] \notin F
  /\ \A f \in Frame : \/ f \in F
                      \/ \E p \in Proc, a \in VPage :
                           U[p][a] = f \/ I[p][a] = f

OwnerInv == Owned(upt, img, free)

(* A page that is missing in the kernel page table is the last one below a *)
(* size that ends inside it.                                               *)
HoleInv ==
  \A p \in Proc, a \in VPage :
    a < Below(p) /\ kpt[p][a] # upt[p][a] =>
      ~aligned[p] /\ a + 1 = Pages(sz[p]) /\ sz[p] % PGSIZE # 0

(* Types, the numbers apart from the rest.                                 *)
TypeSizes ==
  /\ sz \in [Proc -> 0 .. PLIC \cup {NULL}]
  /\ at \in [Proc -> 0 .. NVPAGES]
  /\ tgt \in [Proc -> 0 .. PLIC]

TypeTables ==
  /\ upt \in [Proc -> PageTable]
  /\ kpt \in [Proc -> PageTable]
  /\ img \in [Proc -> PageTable]
  /\ free \subseteq Frame
  /\ pc \in [Proc -> {"user", "grow", "fork", "exec"}]
  /\ child \in [Proc -> Proc \cup {NULL}]
  /\ panic \in {NULL, "uvmunmap", "vmcopypage"}
  /\ aligned \in [Proc -> BOOLEAN]

IInv ==
  /\ TypeSizes /\ TypeTables
  /\ CallInv /\ ChildInv /\ TableInv /\ OwnerInv /\ HoleInv

-----------------------------------------------------------------------------
(* Sizes and pages.                                                        *)
USE PGSIZEAssumption, NVPAGESAssumption

LEMMA MulMonotone ==
  \A a, b \in Nat : a < b => a * PGSIZE + PGSIZE <= b * PGSIZE
<1> SUFFICES ASSUME NEW a \in Nat, NEW b \in Nat, a < b
             PROVE  a * PGSIZE + PGSIZE <= b * PGSIZE
  OBVIOUS
<1>1. PICK d \in Nat : b = a + 1 + d
  <2>1. b - a - 1 \in Nat /\ b = a + 1 + (b - a - 1)
    OBVIOUS
  <2> QED BY <2>1
<1>2. b * PGSIZE = a * PGSIZE + PGSIZE + d * PGSIZE
  BY <1>1
<1>3. d * PGSIZE >= 0
  OBVIOUS
<1> QED BY <1>2, <1>3

LEMMA DivMod ==
  ASSUME NEW x \in Nat
  PROVE  /\ x \div PGSIZE \in Nat
         /\ x % PGSIZE \in 0 .. PGSIZE - 1
         /\ x = (x \div PGSIZE) * PGSIZE + (x % PGSIZE)
OBVIOUS

LEMMA DivModUnique ==
  ASSUME NEW q \in Nat, NEW r \in 0 .. PGSIZE - 1
  PROVE  /\ (q * PGSIZE + r) \div PGSIZE = q
         /\ (q * PGSIZE + r) % PGSIZE = r
<1> DEFINE x == q * PGSIZE + r
           d == x \div PGSIZE
           m == x % PGSIZE
<1>1. x \in Nat
  OBVIOUS
<1>2. d \in Nat /\ m \in 0 .. PGSIZE - 1 /\ x = d * PGSIZE + m
  BY <1>1, DivMod
<1> HIDE DEF d, m
<1>3. ~(d < q)
  <2> SUFFICES ASSUME d < q PROVE FALSE
    OBVIOUS
  <2>1. d * PGSIZE + PGSIZE <= q * PGSIZE
    BY <1>2, MulMonotone
  <2> QED BY <1>2, <2>1
<1>4. ~(q < d)
  <2> SUFFICES ASSUME q < d PROVE FALSE
    OBVIOUS
  <2>1. q * PGSIZE + PGSIZE <= d * PGSIZE
    BY <1>2, MulMonotone
  <2> QED BY <1>2, <2>1
<1>5. d = q
  BY <1>2, <1>3, <1>4
<1>6. m = r
  BY <1>2, <1>5
<1> QED BY <1>5, <1>6 DEF d, m

(* A page lies below a size when its first byte does.                      *)
LEMMA PagesBelow ==
  ASSUME NEW s \in Nat
  PROVE  /\ Pages(s) \in Nat
         /\ \A a \in Nat : a < Pages(s) <=> a * PGSIZE < s
<1> DEFINE x == s + PGSIZE - 1
<1>1. x \in Nat
  OBVIOUS
<1>2. /\ Pages(s) \in Nat /\ x % PGSIZE \in 0 .. PGSIZE - 1
      /\ x = Pages(s) * PGSIZE + (x % PGSIZE)
  BY <1>1, DivMod DEF Pages
<1>3. ASSUME NEW a \in Nat
      PROVE  a < Pages(s) <=> a * PGSIZE < s
  <2>1. ASSUME a < Pages(s) PROVE a * PGSIZE < s
    <3>1. a * PGSIZE + PGSIZE <= Pages(s) * PGSIZE
      BY <1>2, <2>1, MulMonotone
    <3>2. a * PGSIZE \in Nat /\ Pages(s) * PGSIZE \in Nat
      BY <1>2
    <3> QED BY <1>2, <3>1, <3>2
  <2>2. ASSUME ~(a < Pages(s)) PROVE ~(a * PGSIZE < s)
    <3>0. Pages(s) * PGSIZE \in Nat /\ Pages(s) * PGSIZE >= s
      <4>1. Pages(s) * PGSIZE \in Nat
        BY <1>2
      <4> QED BY <1>2, <4>1
    <3>1. CASE a = Pages(s)
      BY <3>0, <3>1
    <3>2. CASE Pages(s) < a
      <4>1. Pages(s) * PGSIZE + PGSIZE <= a * PGSIZE
        BY <1>2, <3>2, MulMonotone
      <4>2. a * PGSIZE \in Nat /\ Pages(s) * PGSIZE \in Nat
        BY <1>2
      <4> QED BY <1>2, <4>1, <4>2
    <3> QED BY <1>2, <2>2, <3>1, <3>2
  <2> QED BY <2>1, <2>2
<1> QED BY <1>2, <1>3

LEMMA PagesMonotone ==
  ASSUME NEW s \in Nat, NEW t \in Nat, s <= t
  PROVE  Pages(s) <= Pages(t)
<1>1. Pages(s) \in Nat /\ Pages(t) \in Nat
  BY PagesBelow
<1>2. CASE Pages(t) < Pages(s)
  <2>1. Pages(t) * PGSIZE < s
    BY <1>1, <1>2, PagesBelow
  <2>2. Pages(t) * PGSIZE \in Nat
    BY <1>1
  <2>3. Pages(t) * PGSIZE < t
    BY <2>1, <2>2
  <2>4. Pages(t) < Pages(t)
    BY <1>1, <2>3, PagesBelow
  <2> QED BY <1>1, <2>4
<1> QED BY <1>1, <1>2

LEMMA PagesExact ==
  \A k \in Nat : Pages(k * PGSIZE) = k
<1> SUFFICES ASSUME NEW k \in Nat PROVE Pages(k * PGSIZE) = k
  OBVIOUS
<1>1. k * PGSIZE + PGSIZE - 1 = k * PGSIZE + (PGSIZE - 1)
      /\ PGSIZE - 1 \in 0 .. PGSIZE - 1
  OBVIOUS
<1> QED BY <1>1, DivModUnique DEF Pages

LEMMA PagesInRange ==
  ASSUME NEW s \in 0 .. PLIC
  PROVE  Pages(s) \in 0 .. NVPAGES
<1>1. s \in Nat /\ PLIC \in Nat /\ s <= PLIC
  BY DEF PLIC
<1>2. Pages(PLIC) = NVPAGES
  BY PagesExact DEF PLIC
<1>3. Pages(s) \in Nat
  BY <1>1, PagesBelow
<1>4. Pages(s) <= NVPAGES
  BY <1>1, <1>2, PagesMonotone
<1> QED BY <1>3, <1>4

LEMMA PagesInside ==
  ASSUME NEW s \in Nat
  PROVE  /\ s % PGSIZE # 0 => Pages(s) = (s \div PGSIZE) + 1
         /\ s % PGSIZE = 0 => Pages(s) = s \div PGSIZE
<1> DEFINE k == s \div PGSIZE
           r == s % PGSIZE
<1>1. k \in Nat /\ r \in 0 .. PGSIZE - 1 /\ s = k * PGSIZE + r
  BY DivMod
<1> HIDE DEF k, r
<1>2. k * PGSIZE \in Nat
  BY <1>1
<1>3. ASSUME r # 0 PROVE Pages(s) = k + 1
  <2>1. k * PGSIZE < s
    BY <1>1, <1>2, <1>3
  <2>2. (k + 1) * PGSIZE = k * PGSIZE + PGSIZE
    BY <1>1
  <2>3. ~((k + 1) * PGSIZE < s)
    BY <1>1, <1>2, <2>2
  <2>4. k < Pages(s) /\ ~(k + 1 < Pages(s)) /\ Pages(s) \in Nat
    BY <1>1, <2>1, <2>3, PagesBelow
  <2> QED BY <1>1, <2>4
<1>4. ASSUME r = 0 PROVE Pages(s) = k
  BY <1>1, <1>4, PagesExact
<1> QED BY <1>3, <1>4 DEF k, r

(* The pages below the end that vmcopypage() passes over: those below the  *)
(* page it starts in, and the last page if it starts further inside its    *)
(* page than it ends.                                                      *)
LEMMA NotCopied ==
  ASSUME NEW s \in Nat, NEW n \in Nat, n > 0, NEW a \in Nat,
         a < Pages(s + n), a \notin CopiedPages(s, n)
  PROVE  \/ a < s \div PGSIZE
         \/ s % PGSIZE # 0 /\ a + 1 = Pages(s + n) /\ (s + n) % PGSIZE # 0
<1> DEFINE k == s \div PGSIZE
           r == s % PGSIZE
           e == s + n
           ap == a * PGSIZE
<1>1. k \in Nat /\ r \in 0 .. PGSIZE - 1 /\ s = k * PGSIZE + r
  BY DivMod
<1>2. e \in Nat /\ ap \in Nat /\ (a + 1) * PGSIZE = ap + PGSIZE
  OBVIOUS
<1>3. ap < e
  BY PagesBelow
<1>4. (ap + r) \div PGSIZE = a
  BY <1>1, DivModUnique
<1> SUFFICES ASSUME ~(a < k)
             PROVE  r # 0 /\ a + 1 = Pages(e) /\ e % PGSIZE # 0
  OBVIOUS
<1> DEFINE j == a - k
           jp == j * PGSIZE
<1>5. j \in Nat /\ a = k + j
  BY <1>1
<1>6. ap = k * PGSIZE + jp /\ jp \in Nat
  <2> HIDE DEF k, j
  <2> QED BY <1>1, <1>5
<1>7. s + jp = ap + r
  <2>1. k * PGSIZE \in Nat
    BY <1>1
  <2> HIDE DEF k, r, ap, jp, j
  <2> QED BY <1>1, <1>6, <2>1
<1>8. j <= jp
  <2> HIDE DEF j
  <2>1. CASE j = 0
    BY <1>6, <2>1
  <2>2. CASE j # 0
    <3>1. j * PGSIZE >= j * 1
      BY <1>5, <2>2
    <3> QED BY <1>5, <3>1
  <2> QED BY <2>1, <2>2
<1>9. ~(s + jp < e)
  <2> SUFFICES ASSUME s + jp < e PROVE FALSE
    OBVIOUS
  <2>1. j \in 0 .. n
    <3> HIDE DEF j, jp
    <3> QED BY <1>5, <1>6, <1>8
  <2>2. (s + j * PGSIZE) \div PGSIZE \in CopiedPages(s, n)
    BY <2>1 DEF CopiedPages
  <2> QED BY <1>4, <1>7, <2>2
<1> HIDE DEF k, r, e, ap, j, jp
<1>10. PICK t \in 1 .. PGSIZE - 1 : e = ap + t /\ t <= r
  <2>1. e - ap \in 1 .. PGSIZE - 1 /\ e = ap + (e - ap) /\ e - ap <= r
    BY <1>1, <1>2, <1>3, <1>7, <1>9
  <2> QED BY <2>1
<1>11. r # 0
  BY <1>1, <1>10
<1>12. e % PGSIZE = t
  BY <1>10, DivModUnique DEF ap
<1>13. Pages(e) \in Nat /\ a < Pages(e) /\ ~(a + 1 < Pages(e))
  <2>1. ~((a + 1) * PGSIZE < e)
    BY <1>2, <1>10
  <2> QED BY <1>2, <2>1, PagesBelow DEF e
<1> QED BY <1>10, <1>11, <1>12, <1>13

(* vmcopypage() from address 0 passes over no page.                        *)
LEMMA CopiedFromZero ==
  ASSUME NEW n \in Nat, NEW a \in Nat, a < Pages(n)
  PROVE  a \in CopiedPages(0, n)
<1>1. a * PGSIZE < n /\ a * PGSIZE \in Nat
  BY PagesBelow
<1>2. n > 0 /\ 0 + n = n
  BY <1>1
<1>3. 0 \div PGSIZE = 0 /\ 0 % PGSIZE = 0
  <2>1. 0 * PGSIZE + 0 = 0 /\ 0 \in 0 .. PGSIZE - 1
    OBVIOUS
  <2> QED BY <2>1, DivModUnique
<1>4. a \notin CopiedPages(0, n) =>
        a < 0 \div PGSIZE \/ 0 % PGSIZE # 0
  <2>1. 0 \in Nat /\ a < Pages(0 + n)
    BY <1>2
  <2> QED BY <1>2, <2>1, NotCopied, Zenon
<1> QED BY <1>3, <1>4

-----------------------------------------------------------------------------
(* What the inductive invariant says of a process.                         *)

LEMMA SizesInRange ==
  ASSUME IInv, NEW p \in Proc
  PROVE  /\ at[p] \in 0 .. NVPAGES
         /\ tgt[p] \in Nat /\ Pages(tgt[p]) \in 0 .. NVPAGES
         /\ Below(p) \in 0 .. NVPAGES
         /\ Top(p) \in 0 .. NVPAGES
         /\ Built(p) \in 0 .. NVPAGES
         /\ sz[p] # NULL => /\ sz[p] \in Nat
                            /\ Below(p) = Pages(sz[p])
                            /\ sz[p] <= PLIC
<1>1. at[p] \in 0 .. NVPAGES /\ tgt[p] \in 0 .. PLIC
      /\ (sz[p] # NULL => sz[p] \in 0 .. PLIC)
  BY DEF IInv, TypeSizes
<1>2. Pages(tgt[p]) \in 0 .. NVPAGES
      /\ (sz[p] # NULL => Pages(sz[p]) \in 0 .. NVPAGES)
  BY <1>1, PagesInRange
<1>3. PLIC \in Nat
  BY DEF PLIC
<1>4. Below(p) \in 0 .. NVPAGES
  BY <1>2 DEF Below
<1>5. Top(p) \in 0 .. NVPAGES /\ Built(p) \in 0 .. NVPAGES
  BY <1>1, <1>4 DEF Top, Built
<1>6. sz[p] # NULL => Below(p) = Pages(sz[p])
  BY DEF Below
<1> QED BY <1>1, <1>2, <1>3, <1>4, <1>5, <1>6

-----------------------------------------------------------------------------
(* Who owns the pages, when tables change.                                 *)

LEMMA OwnedSymmetric ==
  ASSUME NEW U, NEW I, NEW F, Owned(U, I, F)
  PROVE  Owned(I, U, F)
BY DEF Owned

(* Pages that one table gives up are free.                                 *)
LEMMA OwnedFreed ==
  ASSUME NEW U, NEW I, NEW F, Owned(U, I, F), NULL \notin F,
         NEW p \in Proc, NEW S \in SUBSET VPage,
         \A a \in S : U[p][a] # NULL,
         NEW V,
         \A q \in Proc, a \in VPage :
           V[q][a] = IF q = p /\ a \in S THEN NULL ELSE U[q][a]
  PROVE  Owned(V, I, F \cup {U[p][a] : a \in S})
<1> PICK G : G = F \cup {U[p][a] : a \in S}
  OBVIOUS
<1>1. ASSUME NEW q \in Proc, NEW r \in Proc, NEW a \in VPage, NEW b \in VPage
      PROVE  /\ V[q][a] # NULL /\ V[q][a] = V[r][b] => q = r /\ a = b
             /\ I[q][a] # NULL /\ I[q][a] = I[r][b] => q = r /\ a = b
             /\ V[q][a] # NULL => V[q][a] # I[r][b]
  BY DEF Owned
<1>2. ASSUME NEW q \in Proc, NEW a \in VPage
      PROVE  V[q][a] \notin G /\ I[q][a] \notin G
  <2>1. V[q][a] \notin F /\ I[q][a] \notin F
    BY DEF Owned
  <2>2. \A b \in S : V[q][a] # U[p][b]
    BY DEF Owned
  <2>3. \A b \in S : I[q][a] # U[p][b]
    BY DEF Owned
  <2> QED BY <2>1, <2>2, <2>3
<1>3. ASSUME NEW f \in Frame
      PROVE  \/ f \in G
             \/ \E q \in Proc, a \in VPage : V[q][a] = f \/ I[q][a] = f
  BY DEF Owned
<1> QED BY <1>1, <1>2, <1>3 DEF Owned

(* A table that a process has built becomes the table of one that has      *)
(* none.                                                                   *)
LEMMA OwnedMoved ==
  ASSUME NEW U, NEW I, NEW F, Owned(U, I, F), NULL \notin F,
         NEW p \in Proc, NEW c \in Proc,
         \A a \in VPage : U[c][a] = NULL,
         NEW V, NEW J,
         \A q \in Proc, a \in VPage :
           V[q][a] = IF q = c THEN I[p][a] ELSE U[q][a],
         \A q \in Proc, a \in VPage :
           J[q][a] = IF q = p THEN NULL ELSE I[q][a]
  PROVE  Owned(V, J, F)
<1>1. ASSUME NEW q \in Proc, NEW r \in Proc, NEW a \in VPage, NEW b \in VPage
      PROVE  /\ V[q][a] # NULL /\ V[q][a] = V[r][b] => q = r /\ a = b
             /\ J[q][a] # NULL /\ J[q][a] = J[r][b] => q = r /\ a = b
             /\ V[q][a] # NULL => V[q][a] # J[r][b]
  BY DEF Owned
<1>2. ASSUME NEW q \in Proc, NEW a \in VPage
      PROVE  V[q][a] \notin F /\ J[q][a] \notin F
  BY DEF Owned
<1>3. ASSUME NEW f \in Frame
      PROVE  \/ f \in F
             \/ \E q \in Proc, a \in VPage : V[q][a] = f \/ J[q][a] = f
  BY NULLAssumption DEF Owned
<1> QED BY <1>1, <1>2, <1>3 DEF Owned

(* A free page is mapped where nothing was.                                *)
LEMMA OwnedTaken ==
  ASSUME NEW U, NEW I, NEW F, Owned(U, I, F),
         NEW f \in F, f # NULL, NEW p \in Proc, NEW k \in VPage,
         U[p][k] = NULL,
         NEW V,
         \A q \in Proc, a \in VPage :
           V[q][a] = IF q = p /\ a = k THEN f ELSE U[q][a]
  PROVE  Owned(V, I, F \ {f})
<1>1. ASSUME NEW q \in Proc, NEW r \in Proc, NEW a \in VPage, NEW b \in VPage
      PROVE  /\ V[q][a] # NULL /\ V[q][a] = V[r][b] => q = r /\ a = b
             /\ I[q][a] # NULL /\ I[q][a] = I[r][b] => q = r /\ a = b
             /\ V[q][a] # NULL => V[q][a] # I[r][b]
  BY DEF Owned
<1>2. ASSUME NEW q \in Proc, NEW a \in VPage
      PROVE  V[q][a] \notin F \ {f} /\ I[q][a] \notin F \ {f}
  BY DEF Owned
<1>3. ASSUME NEW g \in Frame
      PROVE  \/ g \in F \ {f}
             \/ \E q \in Proc, a \in VPage : V[q][a] = g \/ I[q][a] = g
  BY NULLAssumption DEF Owned
<1> QED BY <1>1, <1>2, <1>3 DEF Owned

-----------------------------------------------------------------------------
(* A process that builds no image has none.                                *)
LEMMA NoImage ==
  ASSUME IInv, NEW p \in Proc, pc[p] \notin {"fork", "exec"}
  PROVE  img[p] = Unmapped
<1>1. \A a \in VPage : img[p][a] = NULL
  <2>1. \A a \in VPage : img[p][a] # NULL => a < 0
    BY DEF IInv, TableInv, Built
  <2> QED BY <2>1 DEF VPage
<1>2. img \in [Proc -> PageTable]
  BY DEF IInv, TypeTables
<1> QED BY <1>1, <1>2 DEF Unmapped, PageTable

(* What an action that is not inside a call leaves, and one that ends one. *)
LEMMA ReturnResets ==
  ASSUME IInv, NEW p \in Proc, Return(p)
  PROVE  /\ \A q \in Proc : q # p => /\ pc'[q] = pc[q]
                                     /\ at'[q] = at[q]
                                     /\ tgt'[q] = tgt[q]
                                     /\ img'[q] = img[q]
                                     /\ child'[q] = child[q]
         /\ pc'[p] = "user" /\ at'[p] = 0 /\ tgt'[p] = 0 /\ child'[p] = NULL
         /\ img'[p] = Unmapped
         /\ pc' \in [Proc -> {"user", "grow", "fork", "exec"}]
         /\ at' \in [Proc -> 0 .. NVPAGES]
         /\ tgt' \in [Proc -> 0 .. PLIC]
         /\ img' \in [Proc -> PageTable]
         /\ child' \in [Proc -> Proc \cup {NULL}]
         /\ pc[p] \notin {"fork", "exec"} => img' = img
<1>1. 0 \in 0 .. PLIC /\ 0 \in 0 .. NVPAGES
  BY DEF PLIC
<1>2. Unmapped \in PageTable
  BY DEF Unmapped, PageTable
<1>3. pc[p] \notin {"fork", "exec"} => img' = img
  BY NoImage DEF Return, IInv, TypeTables
<1> QED BY <1>1, <1>2, <1>3 DEF Return, IInv, TypeSizes, TypeTables

-----------------------------------------------------------------------------
(* Every step preserves it.                                                *)

LEMMA GrowEnterStep ==
  ASSUME IInv, NEW p \in Proc, NEW n \in Deltas, GrowEnter(p, n)
  PROVE  IInv'
<1> USE NULLAssumption DEF IInv
<1>1. /\ panic = NULL /\ sz[p] # NULL /\ pc[p] = "user"
      /\ n > 0 /\ sz[p] + n < PLIC
      /\ pc' = [pc EXCEPT ![p] = "grow"]
      /\ tgt' = [tgt EXCEPT ![p] = sz[p] + n]
      /\ at' = [at EXCEPT ![p] = Pages(sz[p])]
      /\ UNCHANGED <<sz, upt, kpt, free, img, child, panic, aligned>>
  BY DEF GrowEnter, InUser
<1>2. n \in Int /\ sz[p] \in Nat /\ PLIC \in Nat
  BY <1>1, DeltasAssumption, SizesInRange DEF PLIC
<1>3. /\ sz[p] + n \in 0 .. PLIC /\ sz[p] < sz[p] + n
      /\ Pages(sz[p]) \in 0 .. NVPAGES
      /\ Pages(sz[p]) <= Pages(sz[p] + n)
  <2>1. sz[p] + n \in Nat /\ sz[p] <= sz[p] + n
    BY <1>1, <1>2
  <2>2. Pages(sz[p]) <= Pages(sz[p] + n)
    BY <1>2, <2>1, PagesMonotone
  <2>3. Pages(sz[p]) \in 0 .. NVPAGES
    BY <1>1, SizesInRange
  <2> QED BY <1>1, <1>2, <2>1, <2>2, <2>3
<1>4. TypeSizes'
  BY <1>1, <1>3 DEF TypeSizes
<1>5. TypeTables'
  BY <1>1 DEF TypeTables
<1>6. /\ \A q \in Proc : q # p => /\ pc'[q] = pc[q]
                                  /\ at'[q] = at[q]
                                  /\ tgt'[q] = tgt[q]
      /\ pc'[p] = "grow" /\ at'[p] = Pages(sz[p]) /\ tgt'[p] = sz[p] + n
  BY <1>1 DEF TypeSizes, TypeTables
<1>7. \A q \in Proc : /\ Below(q)' = Below(q)
                      /\ Top(q)' = Top(q)
                      /\ Built(q)' = Built(q)
  BY <1>1, <1>6 DEF Below, Top, Built
<1>8. CallInv'
  BY <1>1, <1>3, <1>6, <1>7 DEF CallInv, Below
<1>9. ChildInv' /\ OwnerInv'
  BY <1>1 DEF ChildInv, OwnerInv
<1>10. TableInv'
  BY <1>1, <1>7 DEF TableInv
<1>11. HoleInv'
  BY <1>1, <1>7 DEF HoleInv
<1> QED BY <1>4, <1>5, <1>8, <1>9, <1>10, <1>11

LEMMA GrowPageStep ==
  ASSUME IInv, NEW p \in Proc, NEW f \in Frame, GrowPage(p, f)
  PROVE  IInv'
<1> USE NULLAssumption DEF IInv
<1> PICK k : k = at[p]
  OBVIOUS
<1>1. /\ panic = NULL /\ pc[p] = "grow" /\ k < Pages(tgt[p])
      /\ f \in free /\ free' = free \ {f}
      /\ upt' = [upt EXCEPT ![p] = [upt[p] EXCEPT ![k] = f]]
      /\ at' = [at EXCEPT ![p] = k + 1]
      /\ UNCHANGED <<sz, kpt, pc, tgt, img, child, panic, aligned>>
  BY DEF GrowPage
<1>2. k \in VPage /\ k + 1 \in 0 .. NVPAGES /\ k + 1 <= Pages(tgt[p])
      /\ Below(p) <= k /\ Below(p) \in 0 .. NVPAGES
  BY <1>1, SizesInRange DEF VPage, CallInv
<1>3. /\ \A q \in Proc : q # p => at'[q] = at[q] /\ upt'[q] = upt[q]
      /\ at'[p] = k + 1
      /\ \A a \in VPage : upt'[p][a] = IF a = k THEN f ELSE upt[p][a]
  BY <1>1, <1>2 DEF TypeSizes, TypeTables, PageTable
<1>4. TypeSizes'
  BY <1>1, <1>2 DEF TypeSizes
<1>5. TypeTables'
  BY <1>1, <1>2 DEF TypeTables, PageTable
<1>6. /\ \A q \in Proc : Below(q)' = Below(q) /\ Built(q)' = Built(q)
      /\ \A q \in Proc : q # p => Top(q)' = Top(q)
      /\ Top(p) = k /\ Top(p)' = k + 1
  BY <1>1, <1>3 DEF Below, Top, Built
<1>7. CallInv'
  <2>1. Below(p) <= k + 1
    BY <1>2 DEF VPage
  <2>2. Below(p)' <= at'[p] /\ at'[p] <= Pages(tgt'[p])
    BY <1>1, <1>2, <1>3, <1>6, <2>1
  <2> HIDE <1>2
  <2> QED BY <1>1, <1>3, <1>6, <2>2 DEF CallInv
<1>8. ChildInv'
  BY <1>1 DEF ChildInv
<1>9. TableInv'
  <2>1. \A a \in VPage : a \in Int /\ (a < k + 1 <=> a < k \/ a = k)
    BY <1>2 DEF VPage
  <2>2. \A a \in VPage : a < Below(p) => a # k
    BY <1>2 DEF VPage
  <2> QED BY <1>1, <1>3, <1>6, <2>1, <2>2 DEF TableInv
<1>10. OwnerInv'
  <2>1. upt[p][k] = NULL
    BY <1>2, <1>6 DEF TableInv, VPage
  <2>2. \A q \in Proc, a \in VPage :
          upt'[q][a] = IF q = p /\ a = k THEN f ELSE upt[q][a]
    BY <1>3
  <2>3. f # NULL /\ Owned(upt, img, free)
    BY DEF OwnerInv
  <2>4. f \in free /\ k \in VPage
    BY <1>1, <1>2
  <2>5. Owned(upt', img, free \ {f})
    BY <2>1, <2>2, <2>3, <2>4, OwnedTaken
  <2> QED BY <1>1, <2>5 DEF OwnerInv
<1>11. HoleInv'
  <2>1. \A a \in VPage : a < Below(p) => a # k
    BY <1>2 DEF VPage
  <2> QED BY <1>1, <1>3, <1>6, <2>1 DEF HoleInv
<1> QED BY <1>4, <1>5, <1>7, <1>8, <1>9, <1>10, <1>11

LEMMA GrowFailStep ==
  ASSUME IInv, NEW p \in Proc, GrowFail(p)
  PROVE  IInv'
<1> USE NULLAssumption DEF IInv
<1> PICK new : new = {a \in VPage : Pages(sz[p]) <= a /\ a < at[p]}
  OBVIOUS
<1>1. /\ panic = NULL /\ pc[p] = "grow" /\ sz[p] # NULL
      /\ free' = free \cup {upt[p][a] : a \in new}
      /\ upt' = [upt EXCEPT ![p] = Unmap(upt[p], new)]
      /\ pc' = [pc EXCEPT ![p] = "user"]
      /\ at' = [at EXCEPT ![p] = 0]
      /\ tgt' = [tgt EXCEPT ![p] = 0]
      /\ img' = [img EXCEPT ![p] = Unmapped]
      /\ child' = [child EXCEPT ![p] = NULL]
      /\ UNCHANGED <<sz, kpt, panic, aligned>>
  BY DEF GrowFail, OutOfMemory, Return, CallInv
<1>2. /\ Below(p) \in 0 .. NVPAGES /\ at[p] \in 0 .. NVPAGES
      /\ Below(p) <= at[p] /\ Below(p) = Pages(sz[p])
      /\ new \subseteq VPage
      /\ \A a \in VPage : a \in new <=> a < at[p] /\ ~(a < Below(p))
  <2>1. Below(p) \in 0 .. NVPAGES /\ at[p] \in 0 .. NVPAGES
        /\ Below(p) <= at[p] /\ Below(p) = Pages(sz[p])
    BY <1>1, SizesInRange DEF CallInv
  <2>2. \A a \in VPage : a \in new <=> a < at[p] /\ ~(a < Below(p))
    BY <2>1 DEF VPage
  <2> QED BY <2>1, <2>2
<1>3. /\ \A q \in Proc : q # p => /\ pc'[q] = pc[q]
                                  /\ at'[q] = at[q]
                                  /\ tgt'[q] = tgt[q]
                                  /\ upt'[q] = upt[q]
                                  /\ img'[q] = img[q]
                                  /\ child'[q] = child[q]
      /\ pc'[p] = "user" /\ at'[p] = 0 /\ tgt'[p] = 0 /\ child'[p] = NULL
      /\ \A a \in VPage : img'[p][a] = NULL
      /\ \A a \in VPage : upt'[p][a] = IF a \in new THEN NULL ELSE upt[p][a]
  BY <1>1 DEF TypeSizes, TypeTables, Unmap, Unmapped
<1>4. TypeSizes'
  <2>1. 0 \in 0 .. PLIC /\ 0 \in 0 .. NVPAGES
    BY DEF PLIC
  <2> QED BY <1>1, <2>1 DEF TypeSizes
<1>5. Top(p) = at[p] /\ Built(p) = 0
  BY <1>1 DEF Top, Built
<1>6. \A a \in new : upt[p][a] \in Frame
  BY <1>2, <1>5 DEF TableInv, TypeTables, PageTable
<1>7. TypeTables'
  BY <1>1, <1>6 DEF TypeTables, PageTable, Unmap, Unmapped
<1>8. /\ \A q \in Proc : Below(q)' = Below(q) /\ Built(q)' = Built(q)
      /\ \A q \in Proc : q # p => Top(q)' = Top(q)
      /\ Top(p)' = Below(p)
  BY <1>1, <1>3 DEF Below, Top, Built
<1>9. CallInv'
  BY <1>1, <1>3, <1>8 DEF CallInv
<1>10. ChildInv'
  BY <1>1, <1>3 DEF ChildInv, TypeTables
<1>11. TableInv'
  <2>1. \A a \in VPage : a < Below(p) => a < at[p]
    BY <1>2 DEF VPage
  <2>2. \A a \in VPage : ~(a < 0)
    BY DEF VPage
  <2>3. ASSUME NEW a \in VPage
        PROVE  /\ upt'[p][a] # NULL <=> a < Below(p)
               /\ img'[p][a] = NULL
               /\ kpt[p][a] # NULL => a < Below(p) /\ kpt[p][a] = upt'[p][a]
    BY <1>2, <1>3, <1>5, <2>1 DEF TableInv
  <2> SUFFICES ASSUME NEW q \in Proc, NEW a \in VPage
               PROVE  /\ upt'[q][a] # NULL <=> a < Top(q)'
                      /\ img'[q][a] # NULL <=> a < Built(q)'
                      /\ kpt'[q][a] # NULL =>
                           a < Below(q)' /\ kpt'[q][a] = upt'[q][a]
    BY DEF TableInv
  <2>4. CASE q = p
    BY <1>1, <1>5, <1>8, <2>2, <2>3, <2>4
  <2>5. CASE q # p
    BY <1>1, <1>3, <1>8, <2>5 DEF TableInv
  <2> QED BY <2>4, <2>5
<1>12. OwnerInv'
  <2>1. img' = img
    <3>1. \A a \in VPage : img[p][a] = NULL
      BY <1>5 DEF TableInv, VPage
    <3>2. img \in [Proc -> PageTable]
      BY DEF TypeTables
    <3>3. img[p] = Unmapped
      BY <3>1, <3>2 DEF Unmapped, PageTable
    <3> QED BY <1>1, <3>2, <3>3
  <2>2. \A q \in Proc, a \in VPage :
          upt'[q][a] = IF q = p /\ a \in new THEN NULL ELSE upt[q][a]
    BY <1>3
  <2>3. NULL \notin free /\ Owned(upt, img, free)
    BY DEF OwnerInv, TypeTables
  <2>4. new \in SUBSET VPage /\ \A a \in new : upt[p][a] # NULL
    BY <1>2, <1>6
  <2>5. Owned(upt', img, free \cup {upt[p][a] : a \in new})
    BY <2>2, <2>3, <2>4, OwnedFreed
  <2> QED BY <1>1, <2>1, <2>5 DEF OwnerInv
<1>13. HoleInv'
  BY <1>1, <1>2, <1>3, <1>8 DEF HoleInv
<1> QED BY <1>4, <1>7, <1>9, <1>10, <1>11, <1>12, <1>13

LEMMA CopyPanicsStep ==
  ASSUME IInv, NEW p \in Proc, CopyPanics(p)
  PROVE  IInv'
<1> USE DEF IInv
<1>1. /\ panic' = "vmcopypage"
      /\ UNCHANGED <<sz, upt, kpt, free, pc, at, tgt, img, child, aligned>>
  BY DEF CopyPanics
<1>2. TypeSizes' /\ TypeTables'
  BY <1>1 DEF TypeSizes, TypeTables
<1>3. \A q \in Proc : /\ Below(q)' = Below(q)
                      /\ Top(q)' = Top(q)
                      /\ Built(q)' = Built(q)
  BY <1>1 DEF Below, Top, Built
<1>4. CallInv' /\ ChildInv' /\ TableInv' /\ OwnerInv' /\ HoleInv'
  BY <1>1, <1>3 DEF CallInv, ChildInv, TableInv, OwnerInv, HoleInv
<1> QED BY <1>2, <1>4

LEMMA GrowDoneStep ==
  ASSUME IInv, NEW p \in Proc, GrowDone(p)
  PROVE  IInv'
<1> USE NULLAssumption DEF IInv
<1> PICK s, t, copied : /\ s = sz[p] /\ t = tgt[p]
                        /\ copied = CopiedPages(s, t - s)
  OBVIOUS
<1>1. /\ pc[p] = "grow" /\ at[p] >= Pages(t)
      /\ kpt' = [kpt EXCEPT ![p] = Mirror(upt[p], kpt[p], s, t - s)]
      /\ aligned' = [aligned EXCEPT ![p] = aligned[p] /\ s % PGSIZE = 0]
      /\ sz' = [sz EXCEPT ![p] = t]
      /\ Return(p)
      /\ UNCHANGED <<upt, free, panic>>
  BY DEF GrowDone
<1>2. /\ s \in Nat /\ t \in Nat /\ s < t /\ t \in 0 .. PLIC /\ t # NULL
      /\ Below(p) = Pages(s) /\ Below(p) <= at[p] /\ at[p] = Pages(t)
      /\ Pages(t) \in 0 .. NVPAGES /\ Below(p) \in 0 .. NVPAGES
  <2>1. /\ s \in Nat /\ t \in Nat /\ s < t /\ Below(p) = Pages(s)
        /\ Pages(t) \in 0 .. NVPAGES /\ Below(p) \in 0 .. NVPAGES
        /\ Below(p) <= at[p] /\ at[p] \in 0 .. NVPAGES /\ at[p] <= Pages(t)
    BY <1>1, SizesInRange DEF CallInv
  <2>2. t \in 0 .. PLIC
    BY DEF TypeSizes
  <2>3. at[p] = Pages(t)
    BY <1>1, <2>1
  <2> QED BY <2>1, <2>2, <2>3
<1>3. /\ \A q \in Proc : q # p => /\ pc'[q] = pc[q]
                                  /\ at'[q] = at[q]
                                  /\ tgt'[q] = tgt[q]
                                  /\ child'[q] = child[q]
      /\ pc'[p] = "user" /\ at'[p] = 0 /\ tgt'[p] = 0 /\ child'[p] = NULL
      /\ img' = img
  BY <1>1, ReturnResets
<1>4. /\ \A q \in Proc : q # p => /\ sz'[q] = sz[q]
                                  /\ kpt'[q] = kpt[q]
                                  /\ aligned'[q] = aligned[q]
      /\ sz'[p] = t
      /\ aligned'[p] => aligned[p] /\ s % PGSIZE = 0
      /\ \A a \in VPage :
           kpt'[p][a] = IF a \in copied THEN upt[p][a] ELSE kpt[p][a]
  BY <1>1 DEF TypeSizes, TypeTables, Mirror
<1>5. TypeSizes'
  BY <1>1, <1>2, ReturnResets DEF TypeSizes
<1>6. TypeTables'
  <2>1. Mirror(upt[p], kpt[p], s, t - s) \in PageTable
    BY DEF TypeTables, PageTable, Mirror
  <2>2. kpt' \in [Proc -> PageTable]
    BY <1>1, <2>1 DEF TypeTables
  <2>3. aligned' \in [Proc -> BOOLEAN]
    <3>1. (aligned[p] /\ s % PGSIZE = 0) \in BOOLEAN
      OBVIOUS
    <3> QED BY <1>1, <3>1 DEF TypeTables
  <2> QED BY <1>1, <2>2, <2>3, ReturnResets DEF TypeTables
<1>7. /\ \A q \in Proc : q # p => /\ Below(q)' = Below(q)
                                  /\ Top(q)' = Top(q)
      /\ \A q \in Proc : Built(q)' = Built(q)
      /\ Below(p)' = Pages(t) /\ Top(p)' = Pages(t) /\ Top(p) = Pages(t)
  BY <1>1, <1>2, <1>3, <1>4 DEF Below, Top, Built
<1>8. CallInv'
  <2>1. \A q \in Proc : pc[q] = "fork" => child[q] # p
    BY <1>2 DEF CallInv
  <2> QED BY <1>1, <1>2, <1>3, <1>4, <1>7, <2>1 DEF CallInv, TypeTables
<1>9. ChildInv'
  BY <1>3 DEF ChildInv
<1>10. OwnerInv'
  BY <1>1, <1>3 DEF OwnerInv
<1>11. TableInv'
  <2>1. \A a \in VPage : a < Below(p) => a < Pages(t)
    BY <1>2 DEF VPage
  <2> QED BY <1>1, <1>3, <1>4, <1>7, <2>1 DEF TableInv
<1>12. HoleInv'
  <2>1. ASSUME NEW a \in VPage, a < Pages(t), kpt'[p][a] # upt[p][a]
        PROVE  ~aligned'[p] /\ a + 1 = Pages(t) /\ t % PGSIZE # 0
    <3>1. a \notin copied /\ kpt[p][a] # upt[p][a]
      BY <1>4, <2>1
    <3> PICK n : n = t - s
      OBVIOUS
    <3>2. a \in Nat /\ n \in Nat /\ n > 0 /\ s + n = t
      BY <1>2 DEF VPage
    <3>3. \/ a < s \div PGSIZE
          \/ s % PGSIZE # 0 /\ a + 1 = Pages(t) /\ t % PGSIZE # 0
      <4> s \in Nat
        BY <1>2
      <4>1. a < Pages(s + n) /\ a \notin CopiedPages(s, n)
        BY <2>1, <3>1, <3>2
      <4>2. \/ a < s \div PGSIZE
            \/ s % PGSIZE # 0 /\ a + 1 = Pages(s + n) /\ (s + n) % PGSIZE # 0
        BY s \in Nat, <3>2, <4>1, NotCopied, Zenon
      <4> QED BY <3>2, <4>2
    <3>4. ~(a < s \div PGSIZE)
      <4> SUFFICES ASSUME a < s \div PGSIZE PROVE FALSE
        OBVIOUS
      <4>1. s \div PGSIZE \in Nat /\ s % PGSIZE \in 0 .. PGSIZE - 1
        BY <1>2, DivMod
      <4>2. a < Below(p)
        BY <1>2, <3>2, <4>1, PagesInside
      <4>3. a + 1 = Pages(s) /\ s % PGSIZE # 0
        BY <3>1, <4>2 DEF HoleInv
      <4>4. Pages(s) = (s \div PGSIZE) + 1
        BY <1>2, <4>3, PagesInside
      <4> QED BY <3>2, <4>1, <4>3, <4>4
    <3> QED BY <1>4, <3>3, <3>4
  <2> QED BY <1>1, <1>3, <1>4, <1>7, <2>1 DEF HoleInv
<1> QED BY <1>5, <1>6, <1>8, <1>9, <1>10, <1>11, <1>12

LEMMA ShrinkStep ==
  ASSUME IInv, NEW p \in Proc, NEW n \in Deltas, Shrink(p, n)
  PROVE  IInv'
<1> USE NULLAssumption DEF IInv
<1> PICK s, t, above : /\ s = sz[p] /\ t = sz[p] + n
                       /\ above = Above(p, n)
  OBVIOUS
<1>1. /\ pc[p] = "user" /\ s # NULL /\ n < 0 /\ t >= 0
      /\ sz' = [sz EXCEPT ![p] = t]
      /\ free' = free \cup {upt[p][a] : a \in above}
      /\ upt' = [upt EXCEPT ![p] = Unmap(upt[p], above)]
      /\ kpt' = [kpt EXCEPT ![p] = Unmap(kpt[p], above)]
      /\ panic' = PanicUnless(above, kpt[p])
      /\ UNCHANGED <<pc, at, tgt, img, child, aligned>>
  BY DEF Shrink, InUser
<1>2. /\ s \in Nat /\ t \in Nat /\ t < s /\ t \in 0 .. PLIC /\ t # NULL
      /\ Pages(t) \in 0 .. NVPAGES /\ Below(p) \in 0 .. NVPAGES
      /\ Below(p) = Pages(s) /\ Pages(t) <= Pages(s)
  <2>1. s \in Nat /\ s <= PLIC /\ Below(p) = Pages(s)
        /\ Below(p) \in 0 .. NVPAGES
    BY <1>1, SizesInRange
  <2>2. n \in Int /\ PLIC \in Nat
    BY DeltasAssumption DEF PLIC
  <2>3. t \in Nat /\ t < s /\ t <= s /\ t \in 0 .. PLIC
    BY <1>1, <2>1, <2>2
  <2>4. Pages(t) \in 0 .. NVPAGES /\ Pages(t) <= Pages(s)
    BY <2>1, <2>3, PagesInRange, PagesMonotone
  <2> QED BY <2>1, <2>3, <2>4
<1>3. /\ above \subseteq VPage
      /\ \A a \in VPage : a \in above <=> a < Pages(s) /\ ~(a < Pages(t))
      /\ \A a \in VPage : a < Pages(t) => a < Pages(s)
  BY <1>2 DEF Above, VPage
<1>4. /\ \A q \in Proc : q # p => /\ sz'[q] = sz[q]
                                  /\ upt'[q] = upt[q]
                                  /\ kpt'[q] = kpt[q]
      /\ sz'[p] = t
      /\ \A a \in VPage :
           /\ upt'[p][a] = IF a \in above THEN NULL ELSE upt[p][a]
           /\ kpt'[p][a] = IF a \in above THEN NULL ELSE kpt[p][a]
  BY <1>1 DEF TypeSizes, TypeTables, Unmap
<1>5. TypeSizes'
  BY <1>1, <1>2 DEF TypeSizes
<1>6. /\ \A q \in Proc : q # p => /\ Below(q)' = Below(q)
                                  /\ Top(q)' = Top(q)
      /\ \A q \in Proc : Built(q)' = Built(q)
      /\ Below(p)' = Pages(t) /\ Top(p)' = Pages(t) /\ Top(p) = Pages(s)
  BY <1>1, <1>2, <1>4 DEF Below, Top, Built
<1>7. \A a \in above : upt[p][a] # NULL
  BY <1>3, <1>6 DEF TableInv
<1>8. TypeTables'
  <2>1. /\ Unmap(upt[p], above) \in PageTable
        /\ Unmap(kpt[p], above) \in PageTable
    BY DEF TypeTables, PageTable, Unmap
  <2>2. \A a \in above : upt[p][a] \in Frame
    BY <1>3, <1>7 DEF TypeTables, PageTable
  <2> QED BY <1>1, <2>1, <2>2 DEF TypeTables, PanicUnless
<1>9. CallInv'
  <2>1. \A q \in Proc : pc[q] = "fork" => child[q] # p
    BY <1>1 DEF CallInv
  <2> QED BY <1>1, <1>2, <1>4, <1>6, <2>1 DEF CallInv, TypeTables
<1>10. ChildInv'
  BY <1>1 DEF ChildInv
<1>11. OwnerInv'
  <2>1. NULL \notin free /\ Owned(upt, img, free) /\ above \in SUBSET VPage
    BY <1>3 DEF OwnerInv, TypeTables
  <2>2. \A q \in Proc, a \in VPage :
          upt'[q][a] = IF q = p /\ a \in above THEN NULL ELSE upt[q][a]
    BY <1>4
  <2>3. Owned(upt', img, free \cup {upt[p][a] : a \in above})
    BY <1>7, <2>1, <2>2, OwnedFreed
  <2> QED BY <1>1, <2>3 DEF OwnerInv
<1>12. TableInv'
  BY <1>1, <1>2, <1>3, <1>4, <1>6 DEF TableInv
<1>13. HoleInv'
  <2>1. ASSUME NEW a \in VPage, a < Pages(t), kpt'[p][a] # upt'[p][a]
        PROVE  ~aligned'[p] /\ a + 1 = Pages(t) /\ t % PGSIZE # 0
    <3>1. a \notin above /\ a < Below(p) /\ kpt[p][a] # upt[p][a]
      BY <1>2, <1>3, <1>4, <2>1
    <3>2. ~aligned[p] /\ a + 1 = Pages(s) /\ s % PGSIZE # 0
      BY <3>1 DEF HoleInv
    <3>3. a \in Nat /\ a + 1 = Pages(t)
      BY <1>2, <2>1, <3>2 DEF VPage
    <3>4. t % PGSIZE # 0
      <4> SUFFICES ASSUME t % PGSIZE = 0 PROVE FALSE
        OBVIOUS
      <4> DEFINE ap == (a + 1) * PGSIZE
      <4>1. t = (t \div PGSIZE) * PGSIZE + (t % PGSIZE)
            /\ t \div PGSIZE \in Nat
        BY <1>2, DivMod
      <4>2. t \div PGSIZE = a + 1
        BY <1>2, <3>3, PagesInside
      <4>3. t = ap /\ ap \in Nat
        BY <3>3, <4>1, <4>2
      <4>4. ap < s
        BY <1>2, <4>3
      <4>5. a + 1 < Pages(s)
        BY <1>2, <3>3, <4>4, PagesBelow
      <4> QED BY <1>2, <3>2, <4>5
    <3> QED BY <1>1, <3>2, <3>3, <3>4
  <2> QED BY <1>1, <1>4, <1>6, <2>1 DEF HoleInv
<1> QED BY <1>5, <1>8, <1>9, <1>10, <1>11, <1>12, <1>13

LEMMA ForkEnterStep ==
  ASSUME IInv, NEW p \in Proc, NEW c \in Proc, ForkEnter(p, c)
  PROVE  IInv'
<1> USE NULLAssumption DEF IInv
<1>1. /\ sz[p] # NULL /\ pc[p] = "user"
      /\ sz[c] = NULL /\ \A q \in Proc : child[q] # c
      /\ pc' = [pc EXCEPT ![p] = "fork"]
      /\ tgt' = [tgt EXCEPT ![p] = sz[p]]
      /\ child' = [child EXCEPT ![p] = c]
      /\ UNCHANGED <<sz, upt, kpt, free, at, img, panic, aligned>>
  BY DEF ForkEnter, InUser
<1>2. sz[p] \in 0 .. PLIC /\ Below(p) \in 0 .. NVPAGES
      /\ Below(p) = Pages(sz[p]) /\ at[p] = 0
  BY <1>1, SizesInRange DEF TypeSizes, CallInv
<1>3. /\ \A q \in Proc : q # p => /\ pc'[q] = pc[q]
                                  /\ tgt'[q] = tgt[q]
                                  /\ child'[q] = child[q]
      /\ pc'[p] = "fork" /\ tgt'[p] = sz[p] /\ child'[p] = c
  BY <1>1 DEF TypeSizes, TypeTables
<1>4. TypeSizes' /\ TypeTables'
  BY <1>1, <1>2 DEF TypeSizes, TypeTables
<1>5. \A q \in Proc : /\ Below(q)' = Below(q)
                      /\ Top(q)' = Top(q)
                      /\ Built(q)' = Built(q)
  BY <1>1, <1>2, <1>3 DEF Below, Top, Built
<1>6. CallInv'
  <2>1. 0 <= Pages(sz[p])
    BY <1>2
  <2> HIDE <1>2
  <2>2. at[p] = 0
    BY <1>2
  <2> QED BY <1>1, <1>3, <1>5, <2>1, <2>2 DEF CallInv
<1>7. ChildInv'
  BY <1>1, <1>3 DEF ChildInv
<1>8. TableInv' /\ OwnerInv' /\ HoleInv'
  BY <1>1, <1>5 DEF TableInv, OwnerInv, HoleInv
<1> QED BY <1>4, <1>6, <1>7, <1>8

LEMMA BuildPageStep ==
  ASSUME IInv, NEW p \in Proc, NEW f \in Frame, BuildPage(p, f)
  PROVE  IInv'
<1> USE NULLAssumption DEF IInv
<1> PICK k : k = at[p]
  OBVIOUS
<1>1. /\ pc[p] \in {"fork", "exec"} /\ k < Pages(tgt[p])
      /\ f \in free /\ free' = free \ {f}
      /\ img' = [img EXCEPT ![p] = [img[p] EXCEPT ![k] = f]]
      /\ at' = [at EXCEPT ![p] = k + 1]
      /\ UNCHANGED <<sz, upt, kpt, pc, tgt, child, panic, aligned>>
  BY DEF BuildPage
<1>2. k \in VPage /\ k + 1 \in 0 .. NVPAGES /\ k + 1 <= Pages(tgt[p])
  BY <1>1, SizesInRange DEF VPage
<1>3. /\ \A q \in Proc : q # p => at'[q] = at[q] /\ img'[q] = img[q]
      /\ at'[p] = k + 1
      /\ \A a \in VPage : img'[p][a] = IF a = k THEN f ELSE img[p][a]
  BY <1>1, <1>2 DEF TypeSizes, TypeTables, PageTable
<1>4. TypeSizes'
  BY <1>1, <1>2 DEF TypeSizes
<1>5. TypeTables'
  BY <1>1, <1>2 DEF TypeTables, PageTable
<1>6. /\ \A q \in Proc : Below(q)' = Below(q) /\ Top(q)' = Top(q)
      /\ \A q \in Proc : q # p => Built(q)' = Built(q)
      /\ Built(p) = k /\ Built(p)' = k + 1
  BY <1>1, <1>3 DEF Below, Top, Built
<1>7. CallInv'
  BY <1>1, <1>2, <1>3, <1>6 DEF CallInv
<1>8. ChildInv'
  BY <1>1 DEF ChildInv
<1>9. TableInv'
  <2>1. \A a \in VPage : a < k + 1 <=> a < k \/ a = k
    BY <1>2 DEF VPage
  <2> QED BY <1>1, <1>3, <1>6, <2>1 DEF TableInv
<1>10. OwnerInv'
  <2>1. img[p][k] = NULL
    BY <1>2, <1>6 DEF TableInv, VPage
  <2>2. \A q \in Proc, a \in VPage :
          img'[q][a] = IF q = p /\ a = k THEN f ELSE img[q][a]
    BY <1>3
  <2>3. f # NULL /\ Owned(img, upt, free)
    BY OwnedSymmetric DEF OwnerInv
  <2>4. f \in free /\ k \in VPage
    BY <1>1, <1>2
  <2>5. Owned(img', upt, free \ {f})
    BY <2>1, <2>2, <2>3, <2>4, OwnedTaken
  <2> QED BY <1>1, <2>5, OwnedSymmetric DEF OwnerInv
<1>11. HoleInv'
  BY <1>1, <1>6 DEF HoleInv
<1> QED BY <1>4, <1>5, <1>7, <1>8, <1>9, <1>10, <1>11

(* ForkFail and ExecFail: the image is freed, nothing else changes.        *)
LEMMA ImageFreed ==
  ASSUME IInv, NEW p \in Proc, pc[p] \in {"fork", "exec"},
         free' = FreePages(img[p], at[p]),
         Return(p), UNCHANGED <<sz, upt, kpt, panic, aligned>>
  PROVE  IInv'
<1> USE NULLAssumption DEF IInv
<1>0. PICK S : S = 0 .. at[p] - 1
  OBVIOUS
<1>1. /\ S \in SUBSET VPage
      /\ \A a \in VPage : a \in S <=> a < at[p]
      /\ Built(p) = at[p]
      /\ free' = free \cup {img[p][a] : a \in S}
  BY <1>0, SizesInRange DEF VPage, Built, FreePages
<1>2. /\ \A q \in Proc : q # p => /\ pc'[q] = pc[q]
                                  /\ at'[q] = at[q]
                                  /\ tgt'[q] = tgt[q]
                                  /\ img'[q] = img[q]
                                  /\ child'[q] = child[q]
      /\ pc'[p] = "user" /\ at'[p] = 0 /\ tgt'[p] = 0 /\ child'[p] = NULL
      /\ \A a \in VPage : img'[p][a] = NULL
  BY ReturnResets DEF Unmapped
<1>3. \A a \in VPage : a \in S <=> img[p][a] # NULL
  BY <1>1 DEF TableInv
<1>4. TypeSizes'
  BY ReturnResets DEF TypeSizes
<1>5. TypeTables'
  <2>1. \A a \in S : img[p][a] \in Frame
    BY <1>1, <1>3 DEF TypeTables, PageTable
  <2> QED BY <1>1, <2>1, ReturnResets DEF TypeTables
<1>6. /\ \A q \in Proc : Below(q)' = Below(q) /\ Top(q)' = Top(q)
      /\ \A q \in Proc : q # p => Built(q)' = Built(q)
      /\ Built(p)' = 0
  BY <1>2 DEF Below, Top, Built
<1>7. CallInv'
  BY <1>2, <1>6 DEF CallInv
<1>8. ChildInv'
  BY <1>2 DEF ChildInv
<1>9. TableInv'
  <2>1. \A a \in VPage : ~(a < 0)
    BY DEF VPage
  <2> QED BY <1>2, <1>6, <2>1 DEF TableInv
<1>10. OwnerInv'
  <2>1. \A q \in Proc, a \in VPage :
          img'[q][a] = IF q = p /\ a \in S THEN NULL ELSE img[q][a]
    BY <1>2, <1>3
  <2>2. NULL \notin free /\ Owned(img, upt, free)
    BY OwnedSymmetric DEF OwnerInv, TypeTables
  <2>3. S \in SUBSET VPage /\ \A a \in S : img[p][a] # NULL
    BY <1>1, <1>3
  <2>4. Owned(img', upt, free \cup {img[p][a] : a \in S})
    BY <2>1, <2>2, <2>3, OwnedFreed
  <2> QED BY <1>1, <2>4, OwnedSymmetric DEF OwnerInv
<1>11. HoleInv'
  BY <1>6 DEF HoleInv
<1> QED BY <1>4, <1>5, <1>7, <1>8, <1>9, <1>10, <1>11

LEMMA ForkFailStep ==
  ASSUME IInv, NEW p \in Proc, ForkFail(p)
  PROVE  IInv'
BY ImageFreed DEF ForkFail, OutOfMemory

LEMMA ExecFailStep ==
  ASSUME IInv, NEW p \in Proc, ExecFail(p)
  PROVE  IInv'
BY ImageFreed DEF ExecFail

LEMMA FreeProcStep ==
  ASSUME IInv, NEW p \in Proc, FreeProc(p)
  PROVE  IInv'
<1> USE NULLAssumption DEF IInv
<1>0. PICK s, S : s = sz[p] /\ S = 0 .. Pages(s) - 1
  OBVIOUS
<1>1. /\ pc[p] = "user" /\ s # NULL
      /\ free' = free \cup {upt[p][a] : a \in S}
      /\ sz' = [sz EXCEPT ![p] = NULL]
      /\ upt' = [upt EXCEPT ![p] = Unmapped]
      /\ kpt' = [kpt EXCEPT ![p] = Unmapped]
      /\ UNCHANGED <<pc, at, tgt, img, child, panic, aligned>>
  BY <1>0 DEF FreeProc, InUser, FreePages
<1>2. /\ Below(p) = Pages(s) /\ Below(p) \in 0 .. NVPAGES
      /\ S \in SUBSET VPage
      /\ \A a \in VPage : a \in S <=> a < Top(p)
  BY <1>0, <1>1, SizesInRange DEF VPage, Top
<1>3. /\ \A q \in Proc : q # p => /\ sz'[q] = sz[q]
                                  /\ upt'[q] = upt[q]
                                  /\ kpt'[q] = kpt[q]
      /\ sz'[p] = NULL
      /\ \A a \in VPage : upt'[p][a] = NULL /\ kpt'[p][a] = NULL
  BY <1>1 DEF TypeSizes, TypeTables, Unmapped
<1>4. \A a \in VPage : a \in S <=> upt[p][a] # NULL
  BY <1>2 DEF TableInv
<1>5. TypeSizes'
  BY <1>1 DEF TypeSizes
<1>6. TypeTables'
  <2>1. \A a \in S : upt[p][a] \in Frame
    BY <1>2, <1>4 DEF TypeTables, PageTable
  <2>2. Unmapped \in PageTable
    BY DEF Unmapped, PageTable
  <2> QED BY <1>1, <2>1, <2>2 DEF TypeTables
<1>7. /\ \A q \in Proc : q # p => Below(q)' = Below(q) /\ Top(q)' = Top(q)
      /\ \A q \in Proc : Built(q)' = Built(q)
      /\ Below(p)' = 0 /\ Top(p)' = 0
  BY <1>1, <1>3 DEF Below, Top, Built
<1>8. CallInv'
  BY <1>1, <1>3, <1>7 DEF CallInv, TypeTables
<1>9. ChildInv'
  BY <1>1 DEF ChildInv
<1>10. TableInv'
  <2>1. \A a \in VPage : ~(a < 0)
    BY DEF VPage
  <2> QED BY <1>1, <1>3, <1>7, <2>1 DEF TableInv
<1>11. OwnerInv'
  <2>1. \A q \in Proc, a \in VPage :
          upt'[q][a] = IF q = p /\ a \in S THEN NULL ELSE upt[q][a]
    BY <1>3, <1>4
  <2>2. NULL \notin free /\ Owned(upt, img, free)
    BY DEF OwnerInv, TypeTables
  <2>3. S \in SUBSET VPage /\ \A a \in S : upt[p][a] # NULL
    BY <1>2, <1>4
  <2>4. Owned(upt', img, free \cup {upt[p][a] : a \in S})
    BY <2>1, <2>2, <2>3, OwnedFreed
  <2> QED BY <1>1, <2>4 DEF OwnerInv
<1>12. HoleInv'
  <2>1. \A a \in VPage : ~(a < 0)
    BY DEF VPage
  <2> QED BY <1>1, <1>3, <1>7, <2>1 DEF HoleInv
<1> QED BY <1>5, <1>6, <1>8, <1>9, <1>10, <1>11, <1>12

(* What exec() reaches for fits, and ends at a page boundary.              *)
LEMMA ExecSize ==
  ASSUME NEW s \in SegBytes
  PROVE  /\ (Pages(s) + 2) * PGSIZE \in 0 .. PLIC
         /\ ((Pages(s) + 2) * PGSIZE) % PGSIZE = 0
         /\ Pages((Pages(s) + 2) * PGSIZE) = Pages(s) + 2
<1>1. s \in Nat /\ s + 2 * PGSIZE <= PLIC
  BY SegBytesAssumption
<1>2. Pages(s) \in Nat
  BY <1>1, PagesBelow
<1> PICK k \in Nat : k = Pages(s) + 2
  BY <1>2
<1>3. k * PGSIZE \in Nat /\ k * PGSIZE = Pages(s) * PGSIZE + 2 * PGSIZE
      /\ Pages(s) * PGSIZE \in Nat
  BY <1>2
<1>4. (k * PGSIZE) % PGSIZE = 0
  <2>1. (k * PGSIZE + 0) % PGSIZE = 0
    <3>1. 0 \in 0 .. PGSIZE - 1
      OBVIOUS
    <3> QED BY <3>1, DivModUnique
  <2> QED BY <1>3, <2>1
<1>5. k <= NVPAGES
  <2> SUFFICES ASSUME NVPAGES < k PROVE FALSE
    OBVIOUS
  <2>1. PICK j \in Nat : k = j + 3 \/ k = 2
    <3>1. k = 2 \/ (k - 3 \in Nat /\ k = (k - 3) + 3)
      BY <1>2
    <3> QED BY <3>1
  <2>2. CASE k = 2
    <3>1. NVPAGES = 1
      BY <2>2
    <3>2. PLIC = PGSIZE
      BY <3>1 DEF PLIC
    <3> QED BY <1>1, <3>2
  <2>3. CASE k = j + 3
    <3>1. Pages(s) = j + 1
      BY <1>2, <2>3
    <3>2. j * PGSIZE < s /\ j * PGSIZE \in Nat
      <4>1. j < Pages(s) /\ s \in Nat
        BY <1>1, <3>1
      <4>2. j * PGSIZE < s
        BY <4>1, PagesBelow
      <4> QED BY <4>2
    <3>3. NVPAGES <= j + 2
      BY <2>3
    <3>4. NVPAGES * PGSIZE <= j * PGSIZE + 2 * PGSIZE
      <4>1. (j + 2) * PGSIZE = j * PGSIZE + 2 * PGSIZE
        OBVIOUS
      <4>2. CASE NVPAGES = j + 2
        BY <4>1, <4>2
      <4>3. CASE NVPAGES < j + 2
        <5>1. NVPAGES * PGSIZE + PGSIZE <= (j + 2) * PGSIZE
          BY <4>3, MulMonotone
        <5>2. NVPAGES * PGSIZE \in Nat
          OBVIOUS
        <5> QED BY <3>2, <4>1, <5>1, <5>2
      <4> QED BY <3>3, <4>2, <4>3
    <3>5. PLIC <= j * PGSIZE + 2 * PGSIZE
      BY <3>4 DEF PLIC
    <3>6. PLIC \in Nat
      BY DEF PLIC
    <3> QED BY <1>1, <3>2, <3>5, <3>6
  <2> QED BY <2>1, <2>2, <2>3
<1>6. k * PGSIZE <= PLIC
  <2>1. CASE k = NVPAGES
    BY <1>3, <2>1 DEF PLIC
  <2>2. CASE k < NVPAGES
    <3>1. k * PGSIZE + PGSIZE <= NVPAGES * PGSIZE
      BY <2>2, MulMonotone
    <3>2. NVPAGES * PGSIZE \in Nat
      OBVIOUS
    <3> QED BY <1>3, <3>1, <3>2 DEF PLIC
  <2> QED BY <1>5, <2>1, <2>2
<1>7. k * PGSIZE \in 0 .. PLIC
  <2>1. PLIC \in Nat
    BY DEF PLIC
  <2> QED BY <1>3, <1>6, <2>1
<1>8. Pages(k * PGSIZE) = k
  BY PagesExact
<1> QED BY <1>4, <1>7, <1>8

LEMMA ExecEnterStep ==
  ASSUME IInv, NEW p \in Proc, NEW s \in SegBytes, ExecEnter(p, s)
  PROVE  IInv'
<1> USE NULLAssumption DEF IInv
<1> PICK t : t = (Pages(s) + 2) * PGSIZE
  OBVIOUS
<1>1. /\ sz[p] # NULL /\ pc[p] = "user"
      /\ pc' = [pc EXCEPT ![p] = "exec"]
      /\ tgt' = [tgt EXCEPT ![p] = t]
      /\ UNCHANGED <<sz, upt, kpt, free, at, img, child, panic, aligned>>
  BY DEF ExecEnter, InUser
<1>2. /\ t \in 0 .. PLIC /\ t % PGSIZE = 0 /\ Pages(t) \in Nat
      /\ at[p] = 0 /\ at[p] <= Pages(t)
  <2>1. t \in 0 .. PLIC /\ t % PGSIZE = 0
    BY ExecSize
  <2>2. Pages(t) \in 0 .. NVPAGES
    BY <2>1, PagesInRange
  <2>3. at[p] = 0
    BY <1>1 DEF CallInv
  <2> QED BY <2>1, <2>2, <2>3
<1>3. /\ \A q \in Proc : q # p => pc'[q] = pc[q] /\ tgt'[q] = tgt[q]
      /\ pc'[p] = "exec" /\ tgt'[p] = t
  BY <1>1 DEF TypeSizes, TypeTables
<1>4. TypeSizes' /\ TypeTables'
  BY <1>1, <1>2 DEF TypeSizes, TypeTables
<1>5. \A q \in Proc : /\ Below(q)' = Below(q)
                      /\ Top(q)' = Top(q)
                      /\ Built(q)' = Built(q)
  BY <1>1, <1>2, <1>3 DEF Below, Top, Built
<1>6. CallInv'
  BY <1>1, <1>2, <1>3, <1>5 DEF CallInv
<1>7. ChildInv' /\ TableInv' /\ OwnerInv' /\ HoleInv'
  BY <1>1, <1>5 DEF ChildInv, TableInv, OwnerInv, HoleInv
<1> QED BY <1>4, <1>6, <1>7

LEMMA ForkDoneStep ==
  ASSUME IInv, NEW p \in Proc, ForkDone(p)
  PROVE  IInv'
<1> USE NULLAssumption DEF IInv
<1>0. PICK c, t, copied : /\ c = child[p] /\ t = tgt[p]
                          /\ copied = CopiedPages(0, t)
  OBVIOUS
<1>1. /\ pc[p] = "fork" /\ at[p] >= Pages(t)
      /\ sz' = [sz EXCEPT ![c] = t]
      /\ upt' = [upt EXCEPT ![c] = img[p]]
      /\ kpt' = [kpt EXCEPT ![c] = Mirror(img[p], kpt[c], 0, t)]
      /\ aligned' = [aligned EXCEPT ![c] = TRUE]
      /\ Return(p)
      /\ UNCHANGED <<free, panic>>
  BY <1>0 DEF ForkDone
<1>2. /\ c \in Proc /\ sz[c] = NULL /\ pc[c] = "user" /\ c # p
      /\ \A q \in Proc : q # p /\ pc[q] = "fork" => child[q] # c
      /\ \A q \in Proc : pc[q] # "fork" => child[q] # c
  <2>1. c \in Proc /\ sz[c] = NULL
    BY <1>0, <1>1 DEF CallInv, TypeTables
  <2>2. pc[c] = "user"
    BY <2>1 DEF CallInv, TypeTables
  <2>3. \A q \in Proc : q # p => child[q] # c
    BY <1>0, <2>1 DEF ChildInv
  <2> QED BY <1>1, <2>1, <2>2, <2>3
<1>3. /\ t \in Nat /\ t \in 0 .. PLIC /\ t # NULL
      /\ Pages(t) \in 0 .. NVPAGES /\ at[p] = Pages(t)
  <2>1. t \in Nat /\ Pages(t) \in 0 .. NVPAGES /\ at[p] \in 0 .. NVPAGES
        /\ at[p] <= Pages(t)
    BY <1>0, <1>1, SizesInRange DEF CallInv
  <2>2. t \in 0 .. PLIC
    BY <1>0 DEF TypeSizes
  <2> QED BY <1>1, <2>1, <2>2
<1>4. /\ \A q \in Proc : q # p => /\ pc'[q] = pc[q]
                                  /\ at'[q] = at[q]
                                  /\ tgt'[q] = tgt[q]
                                  /\ img'[q] = img[q]
                                  /\ child'[q] = child[q]
      /\ pc'[p] = "user" /\ at'[p] = 0 /\ tgt'[p] = 0 /\ child'[p] = NULL
      /\ \A a \in VPage : img'[p][a] = NULL
  BY <1>1, ReturnResets DEF Unmapped
<1>5. /\ \A a \in VPage : upt[c][a] = NULL
      /\ \A a \in VPage : kpt[c][a] = NULL
      /\ \A a \in VPage : img[p][a] # NULL <=> a < Pages(t)
      /\ \A a \in VPage : a < Pages(t) => a \in copied
  <2>1. Top(c) = 0 /\ Below(c) = 0 /\ Built(p) = Pages(t)
    BY <1>1, <1>2, <1>3 DEF Top, Below, Built
  <2>2. \A a \in VPage : a \in Nat /\ ~(a < 0)
    BY DEF VPage
  <2>3. \A a \in VPage : a < Pages(t) => a \in copied
    BY <1>0, <1>3, <2>2, CopiedFromZero
  <2>4. /\ \A a \in VPage : upt[c][a] = NULL
        /\ \A a \in VPage : kpt[c][a] = NULL
        /\ \A a \in VPage : img[p][a] # NULL <=> a < Pages(t)
    BY <1>2, <2>1, <2>2 DEF TableInv
  <2> QED BY <2>3, <2>4
<1>6. /\ \A q \in Proc : q # c => /\ sz'[q] = sz[q]
                                  /\ upt'[q] = upt[q]
                                  /\ kpt'[q] = kpt[q]
                                  /\ aligned'[q] = aligned[q]
      /\ sz'[c] = t /\ upt'[c] = img[p]
      /\ \A a \in VPage : kpt'[c][a] = img[p][a]
  <2>1. \A a \in VPage :
          kpt'[c][a] = IF a \in copied THEN img[p][a] ELSE kpt[c][a]
    BY <1>0, <1>1, <1>2 DEF TypeTables, Mirror
  <2>2. \A a \in VPage : kpt'[c][a] = img[p][a]
    BY <1>5, <2>1
  <2> QED BY <1>1, <1>2, <2>2 DEF TypeSizes, TypeTables
<1>7. TypeSizes'
  BY <1>1, <1>3, ReturnResets DEF TypeSizes
<1>8. TypeTables'
  <2>1. Mirror(img[p], kpt[c], 0, t) \in PageTable /\ img[p] \in PageTable
    BY <1>2 DEF TypeTables, PageTable, Mirror
  <2> QED BY <1>1, <2>1, ReturnResets DEF TypeTables
<1>9. /\ \A q \in Proc : q # c => Below(q)' = Below(q) /\ Top(q)' = Top(q)
      /\ \A q \in Proc : q # p => Built(q)' = Built(q)
      /\ Below(c)' = Pages(t) /\ Top(c)' = Pages(t) /\ Built(p)' = 0
  <2>1. \A q \in Proc : q # c => Below(q)' = Below(q)
    BY <1>6 DEF Below
  <2>2. \A q \in Proc : q # c => Top(q)' = Top(q)
    BY <1>1, <1>4, <2>1 DEF Top
  <2>3. Below(c)' = Pages(t) /\ Top(c)' = Pages(t)
    BY <1>2, <1>3, <1>4, <1>6 DEF Below, Top
  <2> QED BY <1>4, <2>1, <2>2, <2>3 DEF Built
<1>10. CallInv'
  <2> SUFFICES ASSUME NEW q \in Proc
               PROVE  /\ pc'[q] # "user" =>
                            sz'[q] # NULL /\ at'[q] <= Pages(tgt'[q])
                      /\ pc'[q] = "user" => at'[q] = 0
                      /\ pc'[q] = "grow" =>
                            sz'[q] < tgt'[q] /\ Below(q)' <= at'[q]
                      /\ pc'[q] = "exec" => tgt'[q] % PGSIZE = 0
                      /\ pc'[q] = "fork" =>
                            child'[q] # NULL /\ sz'[child'[q]] = NULL
                      /\ pc'[q] # "fork" => child'[q] = NULL
    BY DEF CallInv
  <2>1. CASE q = p
    BY <1>4, <2>1
  <2>2. CASE q = c
    BY <1>2, <1>4, <2>2 DEF CallInv
  <2>3. CASE q # p /\ q # c
    BY <1>2, <1>4, <1>6, <1>9, <2>3 DEF CallInv, TypeTables
  <2> QED BY <2>1, <2>2, <2>3
<1>11. ChildInv'
  BY <1>4 DEF ChildInv
<1>12. TableInv'
  <2>1. \A a \in VPage : ~(a < 0)
    BY DEF VPage
  <2> SUFFICES ASSUME NEW q \in Proc, NEW a \in VPage
               PROVE  /\ upt'[q][a] # NULL <=> a < Top(q)'
                      /\ img'[q][a] # NULL <=> a < Built(q)'
                      /\ kpt'[q][a] # NULL =>
                           a < Below(q)' /\ kpt'[q][a] = upt'[q][a]
    BY DEF TableInv
  <2>2. img'[q][a] # NULL <=> a < Built(q)'
    BY <1>4, <1>9, <2>1 DEF TableInv
  <2>3. CASE q = c
    BY <1>5, <1>6, <1>9, <2>2, <2>3
  <2>4. CASE q # c
    BY <1>6, <1>9, <2>2, <2>4 DEF TableInv
  <2> QED BY <2>3, <2>4
<1>13. OwnerInv'
  <2>1. \A q \in Proc, a \in VPage :
          upt'[q][a] = IF q = c THEN img[p][a] ELSE upt[q][a]
    BY <1>6
  <2>2. \A q \in Proc, a \in VPage :
          img'[q][a] = IF q = p THEN NULL ELSE img[q][a]
    BY <1>4
  <2>3. NULL \notin free /\ Owned(upt, img, free) /\ c \in Proc
    BY <1>2 DEF OwnerInv, TypeTables
  <2>4. \A a \in VPage : upt[c][a] = NULL
    BY <1>5
  <2>5. Owned(upt', img', free)
    BY <2>1, <2>2, <2>3, <2>4, OwnedMoved
  <2> QED BY <1>1, <2>5 DEF OwnerInv
<1>14. HoleInv'
  BY <1>6, <1>9 DEF HoleInv
<1> QED BY <1>7, <1>8, <1>10, <1>11, <1>12, <1>13, <1>14

LEMMA ExecDoneStep ==
  ASSUME IInv, NEW p \in Proc, ExecDone(p)
  PROVE  IInv'
<1> USE NULLAssumption DEF IInv
<1>0. PICK s, t, old, copied : /\ s = sz[p] /\ t = tgt[p]
                               /\ old = 0 .. Pages(s) - 1
                               /\ copied = CopiedPages(0, t)
  OBVIOUS
<1>1. /\ pc[p] = "exec" /\ at[p] >= Pages(t)
      /\ free' = free \cup {upt[p][a] : a \in old}
      /\ sz' = [sz EXCEPT ![p] = t]
      /\ upt' = [upt EXCEPT ![p] = img[p]]
      /\ kpt' = [kpt EXCEPT ![p] = Mirror(img[p], Unmap(kpt[p], old), 0, t)]
      /\ panic' = PanicUnless(old, kpt[p])
      /\ aligned' = [aligned EXCEPT ![p] = TRUE]
      /\ Return(p)
  BY <1>0 DEF ExecDone, FreePages
<1>2. /\ t \in Nat /\ t \in 0 .. PLIC /\ t # NULL
      /\ Pages(t) \in 0 .. NVPAGES /\ at[p] = Pages(t)
      /\ s # NULL /\ Below(p) = Pages(s) /\ Below(p) \in 0 .. NVPAGES
  <2>1. t \in Nat /\ Pages(t) \in 0 .. NVPAGES /\ at[p] \in 0 .. NVPAGES
        /\ at[p] <= Pages(t)
    BY <1>0, <1>1, SizesInRange DEF CallInv
  <2>2. t \in 0 .. PLIC
    BY <1>0 DEF TypeSizes
  <2>3. s # NULL
    BY <1>0, <1>1 DEF CallInv
  <2>4. Below(p) = Pages(s) /\ Below(p) \in 0 .. NVPAGES
    BY <1>0, <2>3, SizesInRange
  <2> QED BY <1>1, <2>1, <2>2, <2>3, <2>4
<1>3. /\ old \in SUBSET VPage
      /\ \A a \in VPage : a \in old <=> a < Below(p)
  BY <1>0, <1>2 DEF VPage
<1>4. /\ \A q \in Proc : q # p => /\ pc'[q] = pc[q]
                                  /\ at'[q] = at[q]
                                  /\ tgt'[q] = tgt[q]
                                  /\ img'[q] = img[q]
                                  /\ child'[q] = child[q]
      /\ pc'[p] = "user" /\ at'[p] = 0 /\ tgt'[p] = 0 /\ child'[p] = NULL
      /\ \A a \in VPage : img'[p][a] = NULL
  BY <1>1, ReturnResets DEF Unmapped
<1>5. /\ \A a \in VPage : upt[p][a] # NULL <=> a \in old
      /\ \A a \in VPage : kpt[p][a] # NULL => a \in old
      /\ \A a \in VPage : img[p][a] # NULL <=> a < Pages(t)
      /\ \A a \in VPage : a < Pages(t) => a \in copied
  <2>1. Top(p) = Below(p) /\ Built(p) = Pages(t)
    BY <1>1, <1>2 DEF Top, Built
  <2>2. \A a \in VPage : a < Pages(t) => a \in copied
    <3>1. \A a \in VPage : a \in Nat
      BY DEF VPage
    <3> QED BY <1>0, <1>2, <3>1, CopiedFromZero
  <2>3. /\ \A a \in VPage : upt[p][a] # NULL <=> a \in old
        /\ \A a \in VPage : kpt[p][a] # NULL => a \in old
        /\ \A a \in VPage : img[p][a] # NULL <=> a < Pages(t)
    BY <1>3, <2>1 DEF TableInv
  <2> QED BY <2>2, <2>3
<1>6. /\ \A q \in Proc : q # p => /\ sz'[q] = sz[q]
                                  /\ upt'[q] = upt[q]
                                  /\ kpt'[q] = kpt[q]
                                  /\ aligned'[q] = aligned[q]
      /\ sz'[p] = t /\ upt'[p] = img[p]
      /\ \A a \in VPage : kpt'[p][a] = img[p][a]
  <2>1. \A a \in VPage :
          kpt'[p][a] = IF a \in copied THEN img[p][a]
                       ELSE IF a \in old THEN NULL ELSE kpt[p][a]
    BY <1>0, <1>1 DEF TypeTables, Mirror, Unmap
  <2>2. \A a \in VPage : kpt'[p][a] = img[p][a]
    BY <1>5, <2>1
  <2> QED BY <1>1, <2>2 DEF TypeSizes, TypeTables
<1>7. TypeSizes'
  BY <1>1, <1>2, ReturnResets DEF TypeSizes
<1>8. TypeTables'
  <2>1. Mirror(img[p], Unmap(kpt[p], old), 0, t) \in PageTable
        /\ img[p] \in PageTable
    BY DEF TypeTables, PageTable, Mirror, Unmap
  <2>2. \A a \in old : upt[p][a] \in Frame
    BY <1>3, <1>5 DEF TypeTables, PageTable
  <2> QED BY <1>1, <2>1, <2>2, ReturnResets DEF TypeTables, PanicUnless
<1>9. /\ \A q \in Proc : q # p => /\ Below(q)' = Below(q)
                                  /\ Top(q)' = Top(q)
                                  /\ Built(q)' = Built(q)
      /\ Below(p)' = Pages(t) /\ Top(p)' = Pages(t) /\ Built(p)' = 0
  BY <1>2, <1>4, <1>6 DEF Below, Top, Built
<1>10. CallInv'
  <2>1. \A q \in Proc : pc[q] = "fork" => child[q] # p
    BY <1>0, <1>2 DEF CallInv
  <2> SUFFICES ASSUME NEW q \in Proc
               PROVE  /\ pc'[q] # "user" =>
                            sz'[q] # NULL /\ at'[q] <= Pages(tgt'[q])
                      /\ pc'[q] = "user" => at'[q] = 0
                      /\ pc'[q] = "grow" =>
                            sz'[q] < tgt'[q] /\ Below(q)' <= at'[q]
                      /\ pc'[q] = "exec" => tgt'[q] % PGSIZE = 0
                      /\ pc'[q] = "fork" =>
                            child'[q] # NULL /\ sz'[child'[q]] = NULL
                      /\ pc'[q] # "fork" => child'[q] = NULL
    BY DEF CallInv
  <2>2. CASE q = p
    BY <1>4, <2>2
  <2>3. CASE q # p
    BY <1>4, <1>6, <1>9, <2>1, <2>3 DEF CallInv, TypeTables
  <2> QED BY <2>2, <2>3
<1>11. ChildInv'
  BY <1>4 DEF ChildInv
<1>12. TableInv'
  <2>1. \A a \in VPage : ~(a < 0)
    BY DEF VPage
  <2> SUFFICES ASSUME NEW q \in Proc, NEW a \in VPage
               PROVE  /\ upt'[q][a] # NULL <=> a < Top(q)'
                      /\ img'[q][a] # NULL <=> a < Built(q)'
                      /\ kpt'[q][a] # NULL =>
                           a < Below(q)' /\ kpt'[q][a] = upt'[q][a]
    BY DEF TableInv
  <2>2. CASE q = p
    BY <1>4, <1>5, <1>6, <1>9, <2>1, <2>2
  <2>3. CASE q # p
    BY <1>4, <1>6, <1>9, <2>3 DEF TableInv
  <2> QED BY <2>2, <2>3
<1>13. OwnerInv'
  <2>0. PICK V : V = [upt EXCEPT ![p] = Unmap(upt[p], old)]
    OBVIOUS
  <2>1. \A q \in Proc, a \in VPage :
          V[q][a] = IF q = p /\ a \in old THEN NULL ELSE upt[q][a]
    BY <2>0 DEF TypeTables, Unmap
  <2>2. NULL \notin free /\ Owned(upt, img, free)
    BY DEF OwnerInv, TypeTables
  <2>3. old \in SUBSET VPage /\ \A a \in old : upt[p][a] # NULL
    BY <1>3, <1>5
  <2>4. Owned(V, img, free')
    <3>1. Owned(V, img, free \cup {upt[p][a] : a \in old})
      BY <2>1, <2>2, <2>3, OwnedFreed
    <3> QED BY <1>1, <3>1
  <2>5. NULL \notin free'
    BY <1>8 DEF TypeTables
  <2>6. \A a \in VPage : V[p][a] = NULL
    BY <1>5, <2>1
  <2>7. \A q \in Proc, a \in VPage :
          upt'[q][a] = IF q = p THEN img[p][a] ELSE V[q][a]
    BY <1>6, <2>1
  <2>8. \A q \in Proc, a \in VPage :
          img'[q][a] = IF q = p THEN NULL ELSE img[q][a]
    BY <1>4
  <2>9. Owned(upt', img', free')
    BY <2>4, <2>5, <2>6, <2>7, <2>8, OwnedMoved
  <2> QED BY <2>9 DEF OwnerInv
<1>14. HoleInv'
  BY <1>6, <1>9 DEF HoleInv
<1> QED BY <1>7, <1>8, <1>10, <1>11, <1>12, <1>13, <1>14

-----------------------------------------------------------------------------
LEMMA InitIInv == Init => IInv
<1> SUFFICES ASSUME Init PROVE IInv
  OBVIOUS
<1> USE NULLAssumption
<1>1. PICK p \in Proc, f \in Frame :
        /\ sz = [q \in Proc |-> IF q = p THEN PGSIZE ELSE NULL]
        /\ upt = [q \in Proc |->
                    IF q = p THEN [Unmapped EXCEPT ![0] = f] ELSE Unmapped]
        /\ kpt = upt
        /\ free = Frame \ {f}
        /\ pc = [q \in Proc |-> "user"]
        /\ at = [q \in Proc |-> 0]
        /\ tgt = [q \in Proc |-> 0]
        /\ img = [q \in Proc |-> Unmapped]
        /\ child = [q \in Proc |-> NULL]
        /\ panic = NULL
        /\ aligned = [q \in Proc |-> TRUE]
  BY DEF Init
<1>2. 0 \in VPage /\ \A a \in VPage : a < 1 <=> a = 0
  BY DEF VPage
<1>3. \A q \in Proc, a \in VPage :
        /\ upt[q][a] = IF q = p /\ a = 0 THEN f ELSE NULL
        /\ img[q][a] = NULL
  BY <1>1, <1>2 DEF Unmapped
<1>4. PGSIZE \in 0 .. PLIC /\ 0 \in 0 .. PLIC /\ 0 \in 0 .. NVPAGES
  <2>1. 0 * PGSIZE + PGSIZE <= NVPAGES * PGSIZE
    BY MulMonotone
  <2> QED BY <2>1 DEF PLIC
<1>5. Pages(PGSIZE) = 1
  <2>1. Pages(1 * PGSIZE) = 1
    BY PagesExact
  <2> QED BY <2>1
<1>6. \A q \in Proc : /\ Below(q) = IF q = p THEN 1 ELSE 0
                      /\ Top(q) = IF q = p THEN 1 ELSE 0
                      /\ Built(q) = 0
  <2>1. \A q \in Proc : sz[q] = IF q = p THEN PGSIZE ELSE NULL
    BY <1>1
  <2>2. \A q \in Proc : Below(q) = IF q = p THEN 1 ELSE 0
    BY <1>5, <2>1 DEF Below
  <2>3. \A q \in Proc : pc[q] = "user"
    BY <1>1
  <2> QED BY <2>2, <2>3 DEF Top, Built
<1>7. TypeSizes
  BY <1>1, <1>4 DEF TypeSizes
<1>8. TypeTables
  <2>1. Unmapped \in PageTable /\ [Unmapped EXCEPT ![0] = f] \in PageTable
    BY DEF Unmapped, PageTable
  <2>2. upt \in [Proc -> PageTable] /\ img \in [Proc -> PageTable]
    BY <1>1, <2>1
  <2> QED BY <1>1, <2>2 DEF TypeTables
<1>9. CallInv /\ ChildInv
  BY <1>1 DEF CallInv, ChildInv
<1>10. TableInv
  <2>1. \A a \in VPage : ~(a < 0)
    BY DEF VPage
  <2> QED BY <1>1, <1>2, <1>3, <1>6, <2>1 DEF TableInv
<1>11. OwnerInv
  <2>1. \A g \in Frame :
          \/ g \in free
          \/ \E q \in Proc, a \in VPage : upt[q][a] = g \/ img[q][a] = g
    BY <1>1, <1>2, <1>3
  <2>2. \A q \in Proc, a \in VPage :
          upt[q][a] \notin free /\ img[q][a] \notin free
    BY <1>1, <1>3
  <2> QED BY <1>3, <2>1, <2>2 DEF OwnerInv, Owned
<1>12. HoleInv
  BY <1>1 DEF HoleInv
<1> QED BY <1>7, <1>8, <1>9, <1>10, <1>11, <1>12 DEF IInv

LEMMA NextIInv ==
  ASSUME IInv, [Next]_vars
  PROVE  IInv'
<1>1. CASE Next
  <2> PICK p \in Proc :
        \/ \E n \in Deltas : GrowEnter(p, n) \/ Shrink(p, n)
        \/ \E f \in Frame : GrowPage(p, f) \/ BuildPage(p, f)
        \/ GrowFail(p) \/ CopyPanics(p) \/ GrowDone(p)
        \/ \E c \in Proc : ForkEnter(p, c)
        \/ ForkFail(p) \/ ForkDone(p)
        \/ FreeProc(p)
        \/ \E s \in SegBytes : ExecEnter(p, s)
        \/ ExecFail(p) \/ ExecDone(p)
    BY <1>1 DEF Next
  <2>1. ASSUME NEW n \in Deltas, GrowEnter(p, n) \/ Shrink(p, n) PROVE IInv'
    BY <2>1, GrowEnterStep, ShrinkStep
  <2>2. ASSUME NEW f \in Frame, GrowPage(p, f) \/ BuildPage(p, f) PROVE IInv'
    BY <2>2, GrowPageStep, BuildPageStep
  <2>3. CASE GrowFail(p)
    BY <2>3, GrowFailStep
  <2>4. CASE CopyPanics(p)
    BY <2>4, CopyPanicsStep
  <2>5. CASE GrowDone(p)
    BY <2>5, GrowDoneStep
  <2>6. ASSUME NEW c \in Proc, ForkEnter(p, c) PROVE IInv'
    BY <2>6, ForkEnterStep
  <2>7. CASE ForkFail(p)
    BY <2>7, ForkFailStep
  <2>8. CASE ForkDone(p)
    BY <2>8, ForkDoneStep
  <2>9. CASE FreeProc(p)
    BY <2>9, FreeProcStep
  <2>10. ASSUME NEW s \in SegBytes, ExecEnter(p, s) PROVE IInv'
    BY <2>10, ExecEnterStep
  <2>11. CASE ExecFail(p)
    BY <2>11, ExecFailStep
  <2>12. CASE ExecDone(p)
    BY <2>12, ExecDoneStep
  <2> QED
    BY <2>1, <2>2, <2>3, <2>4, <2>5, <2>6, <2>7, <2>8, <2>9, <2>10, <2>11,
       <2>12
<1>2. CASE UNCHANGED vars
  <2>1. /\ UNCHANGED <<sz, upt, kpt, free, pc, at, tgt, img, child, aligned>>
        /\ UNCHANGED panic
    BY <1>2 DEF vars
  <2>2. TypeSizes' /\ TypeTables'
    BY <2>1 DEF IInv, TypeSizes, TypeTables
  <2>3. \A q \in Proc : /\ Below(q)' = Below(q)
                        /\ Top(q)' = Top(q)
                        /\ Built(q)' = Built(q)
    BY <2>1 DEF Below, Top, Built
  <2>4. CallInv' /\ ChildInv' /\ TableInv' /\ OwnerInv' /\ HoleInv'
    BY <2>1, <2>3
       DEF IInv, CallInv, ChildInv, TableInv, OwnerInv, HoleInv
  <2> QED BY <2>2, <2>4 DEF IInv
<1> QED BY <1>1, <1>2

-----------------------------------------------------------------------------
(* What is inductive: the types; what a call in progress knows; the pages  *)
(* each table maps, by number; that no physical page is in two places; and *)
(* where the kernel page table may lack a page.                            *)
THEOREM Invariance == Spec => []IInv
<1>1. Init => IInv
  BY InitIInv
<1>2. IInv /\ [Next]_vars => IInv'
  BY NextIInv
<1> QED BY <1>1, <1>2, PTL DEF Spec

(* Every variable keeps its type: no size passes PLIC and no loop of       *)
(* uvmalloc() or uvmcopy() leaves the page table.                          *)
THEOREM TypeCorrectness == Spec => []TypeOK
<1>1. IInv => TypeOK
  BY DEF IInv, TypeSizes, TypeTables, TypeOK
<1> QED BY <1>1, Invariance, PTL

(* Every physical page is free or mapped once: the error paths of          *)
(* growproc(), fork() and exec() leak no page and free none twice.         *)
THEOREM FramesInOnePlace == Spec => []FrameInOnePlace
<1>1. ASSUME IInv, NEW f \in Frame
      PROVE  Cardinality(Places(upt, f)) + Cardinality(Places(img, f))
               = IF f \in free THEN 0 ELSE 1
  <2> USE NULLAssumption
  <2>1. /\ \A p, q \in Proc, a, b \in VPage :
             /\ upt[p][a] # NULL /\ upt[p][a] = upt[q][b] => p = q /\ a = b
             /\ img[p][a] # NULL /\ img[p][a] = img[q][b] => p = q /\ a = b
             /\ upt[p][a] # NULL => upt[p][a] # img[q][b]
        /\ \A p \in Proc, a \in VPage :
             upt[p][a] \notin free /\ img[p][a] \notin free
        /\ \/ f \in free
           \/ \E p \in Proc, a \in VPage : upt[p][a] = f \/ img[p][a] = f
    BY <1>1 DEF IInv, OwnerInv, Owned
  <2>2. f # NULL
    OBVIOUS
  <2>3. Cardinality({}) = 0 /\ \A e : Cardinality({e}) = 1
    BY FS_EmptySet, FS_Singleton
  <2>4. CASE f \in free
    <3>1. Places(upt, f) = {} /\ Places(img, f) = {}
      BY <2>1, <2>4 DEF Places
    <3> QED BY <2>3, <2>4, <3>1
  <2>5. ASSUME f \notin free, NEW p \in Proc, NEW a \in VPage, upt[p][a] = f
        PROVE  Cardinality(Places(upt, f)) + Cardinality(Places(img, f)) = 1
    <3>1. Places(upt, f) = {<<p, a>>}
      <4>1. \A e \in Places(upt, f) : e = <<p, a>>
        BY <2>1, <2>2, <2>5 DEF Places
      <4>2. <<p, a>> \in Places(upt, f)
        BY <2>5 DEF Places
      <4> QED BY <4>1, <4>2
    <3>2. Places(img, f) = {}
      BY <2>1, <2>2, <2>5 DEF Places
    <3>3. Cardinality({<<p, a>>}) = 1 /\ Cardinality({}) = 0
      BY <2>3, Zenon
    <3> QED BY <3>1, <3>2, <3>3
  <2>6. ASSUME f \notin free, NEW p \in Proc, NEW a \in VPage, img[p][a] = f
        PROVE  Cardinality(Places(upt, f)) + Cardinality(Places(img, f)) = 1
    <3>1. Places(img, f) = {<<p, a>>}
      <4>1. \A e \in Places(img, f) : e = <<p, a>>
        BY <2>1, <2>2, <2>6 DEF Places
      <4>2. <<p, a>> \in Places(img, f)
        BY <2>6 DEF Places
      <4> QED BY <4>1, <4>2
    <3>2. Places(upt, f) = {}
      BY <2>1, <2>2, <2>6 DEF Places
    <3>3. Cardinality({<<p, a>>}) = 1 /\ Cardinality({}) = 0
      BY <2>3, Zenon
    <3> QED BY <3>1, <3>2, <3>3
  <2> QED BY <2>1, <2>4, <2>5, <2>6
<1>2. IInv => FrameInOnePlace
  BY <1>1 DEF FrameInOnePlace
<1> QED BY <1>2, Invariance, PTL

(* Outside a call the pages of a process are those below its size, however *)
(* the calls before ended.                                                 *)
THEOREM PagesFollowSize == Spec => []ExactlySize
<1>1. ASSUME IInv, NEW p \in Proc, pc[p] = "user"
      PROVE  Mapped(upt[p]) =
               IF sz[p] = NULL THEN {} ELSE 0 .. Pages(sz[p]) - 1
  <2>1. Mapped(upt[p]) = {a \in VPage : a < Below(p)}
    BY <1>1 DEF IInv, TableInv, Top, Mapped
  <2>2. CASE sz[p] = NULL
    BY <2>1, <2>2 DEF Below, VPage
  <2>3. CASE sz[p] # NULL
    <3>1. Below(p) = Pages(sz[p]) /\ Below(p) \in 0 .. NVPAGES
      BY <1>1, <2>3, SizesInRange
    <3> QED BY <2>1, <2>3, <3>1 DEF VPage
  <2> QED BY <2>2, <2>3
<1>2. IInv => ExactlySize
  BY <1>1 DEF ExactlySize
<1> QED BY <1>2, Invariance, PTL

(* The kernel page table never maps a page that the process does not have, *)
(* or has elsewhere.                                                       *)
THEOREM KernelTableCurrent == Spec => []NoDangling
<1>1. IInv => NoDangling
  BY DEF IInv, TableInv, NoDangling, Mapped
<1> QED BY <1>1, Invariance, PTL

(* The two tables of a process that has only grown from page boundaries    *)
(* agree; those of another one but for the last page below a size that     *)
(* ends inside it (growproc() and vmcopypage()).                           *)
THEOREM InSyncButAtEnd == Spec => []OutOfSyncAtEnd
<1>1. ASSUME IInv, NEW p \in Proc, NEW a \in VPage,
             pc[p] = "user", kpt[p][a] # upt[p][a]
      PROVE  /\ ~aligned[p] /\ kpt[p][a] = NULL
             /\ a = Pages(sz[p]) - 1 /\ sz[p] % PGSIZE # 0
  <2>1. kpt[p][a] = NULL /\ a < Below(p)
    BY <1>1 DEF IInv, TableInv, Top
  <2>2. ~aligned[p] /\ a + 1 = Pages(sz[p]) /\ sz[p] % PGSIZE # 0
    BY <1>1, <2>1 DEF IInv, HoleInv
  <2>3. a \in Nat
    BY DEF VPage
  <2> QED BY <2>1, <2>2, <2>3
<1>2. IInv => OutOfSyncAtEnd
  BY <1>1 DEF OutOfSyncAtEnd
<1> QED BY <1>2, Invariance, PTL

(* The only thing uvmunmap() ever panics about is the page that a growth   *)
(* from inside a page has left out of the kernel page table.               *)
THEOREM PanicsAtHoles == Spec => PanicOnlyAfterHole
<1> DEFINE Blame ==
      \E p \in Proc : ~aligned[p] /\ Mapped(kpt[p]) # Mapped(upt[p])
                        /\ sz[p] # sz'[p]
<1> USE NULLAssumption
<1>0. ASSUME IInv, NEW p \in Proc, sz[p] # NULL, pc[p] # "grow",
             NEW S, \A a \in S : a \in VPage /\ a < Pages(sz[p]),
             PanicUnless(S, kpt[p]) # NULL
      PROVE  /\ ~aligned[p] /\ Mapped(kpt[p]) # Mapped(upt[p])
             /\ sz[p] % PGSIZE # 0
  <2>1. PICK a \in S : kpt[p][a] = NULL
    BY <1>0 DEF PanicUnless, Mapped
  <2>2. a \in VPage /\ a < Below(p) /\ upt[p][a] # NULL
    BY <1>0 DEF Below, Top, IInv, TableInv
  <2>3. ~aligned[p] /\ sz[p] % PGSIZE # 0
    BY <1>0, <2>1, <2>2 DEF IInv, HoleInv
  <2> QED BY <2>1, <2>2, <2>3 DEF Mapped
<1>1. ASSUME IInv, NEW p \in Proc, NEW n \in Deltas, Shrink(p, n),
             panic' = "uvmunmap"
      PROVE  Blame
  <2>1. /\ sz[p] # NULL /\ pc[p] = "user" /\ n < 0
        /\ sz' = [sz EXCEPT ![p] = sz[p] + n]
        /\ PanicUnless(Above(p, n), kpt[p]) # NULL
    BY <1>1 DEF Shrink, InUser
  <2>2. \A a \in Above(p, n) : a \in VPage /\ a < Pages(sz[p])
    BY DEF Above
  <2>3. ~aligned[p] /\ Mapped(kpt[p]) # Mapped(upt[p])
    BY <1>0, <1>1, <2>1, <2>2
  <2>4. sz[p] # sz'[p]
    <3>1. sz[p] \in Nat /\ n \in Int
      BY <1>1, <2>1, SizesInRange, DeltasAssumption
    <3>2. sz'[p] = sz[p] + n
      BY <1>1, <2>1 DEF IInv, TypeSizes
    <3> QED BY <2>1, <3>1, <3>2
  <2> QED BY <2>3, <2>4
<1>2. ASSUME IInv, NEW p \in Proc, ExecDone(p), panic' = "uvmunmap"
      PROVE  Blame
  <2>0. PICK S : S = 0 .. Pages(sz[p]) - 1
    OBVIOUS
  <2>1. /\ sz[p] # NULL /\ pc[p] = "exec" /\ tgt[p] % PGSIZE = 0
        /\ sz' = [sz EXCEPT ![p] = tgt[p]]
        /\ PanicUnless(S, kpt[p]) # NULL
    BY <1>2, <2>0 DEF ExecDone, IInv, CallInv
  <2>2. \A a \in S : a \in VPage /\ a < Pages(sz[p])
    <3>1. Pages(sz[p]) \in 0 .. NVPAGES
      BY <1>2, <2>1, SizesInRange
    <3> QED BY <2>0, <3>1 DEF VPage
  <2>3. /\ ~aligned[p] /\ Mapped(kpt[p]) # Mapped(upt[p])
        /\ sz[p] % PGSIZE # 0
    BY <1>0, <1>2, <2>1, <2>2
  <2>4. sz'[p] = tgt[p]
    BY <1>2, <2>1 DEF IInv, TypeSizes
  <2> QED BY <2>1, <2>3, <2>4
<1>3. ASSUME IInv, Next, panic = NULL, panic' = "uvmunmap"
      PROVE  Blame
  <2>1. PICK p \in Proc :
          \/ \E n \in Deltas : GrowEnter(p, n) \/ Shrink(p, n)
          \/ \E f \in Frame : GrowPage(p, f) \/ BuildPage(p, f)
          \/ GrowFail(p) \/ CopyPanics(p) \/ GrowDone(p)
          \/ \E c \in Proc : ForkEnter(p, c)
          \/ ForkFail(p) \/ ForkDone(p)
          \/ FreeProc(p)
          \/ \E s \in SegBytes : ExecEnter(p, s)
          \/ ExecFail(p) \/ ExecDone(p)
    BY <1>3 DEF Next
  <2>2. panic' # panic /\ panic' # "vmcopypage"
    BY <1>3
  <2>3. (\E n \in Deltas : Shrink(p, n)) \/ ExecDone(p)
    BY <2>1, <2>2
       DEF GrowEnter, GrowPage, BuildPage, GrowFail, CopyPanics, GrowDone,
           ForkEnter, ForkFail, ForkDone, FreeProc, ExecEnter, ExecFail
  <2> QED BY <1>1, <1>2, <1>3, <2>3
<1>4. IInv /\ [Next]_vars =>
        [panic = NULL /\ panic' = "uvmunmap" => Blame]_vars
  BY <1>3
<1> QED BY <1>4, Invariance, PTL DEF Spec, PanicOnlyAfterHole
=============================================================================
