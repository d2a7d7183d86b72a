---------------------------- MODULE BcacheProofs ----------------------------
(***************************************************************************)
(* Proofs about the buffer cache of Bcache.tla, for any number of buffers, *)
(* buckets, processes and blocks.                                          *)
(***************************************************************************)
EXTENDS BcacheRecency, BcacheSearch, SequenceTheorems, FiniteSetTheorems,
        WellFoundedInduction, TLAPS

-----------------------------------------------------------------------------
(* Lists without repetitions, popped and pushed at their head, searched    *)
(* from either end, and unlinked from in the middle                        *)

(* A set of natural numbers that is not empty has a least element.         *)
LEMMA Least ==
  ASSUME NEW T \in SUBSET Nat, T # {}
  PROVE  \E m \in T : \A k \in T : m <= k
<1> DEFINE R == OpToRel(<, Nat)
<1>1. IsWellFoundedOn(R, Nat)
  BY NatLessThanWellFounded
<1>2. \A x, y \in Nat : <<y, x>> \in R <=> y < x
  BY DEF OpToRel
<1> HIDE DEF R
<1>3. PICK x \in T : \A y \in T : ~ (<<y, x>> \in R)
  BY <1>1, WFMin
<1>4. \A y \in T : ~ (y < x)
  BY <1>2, <1>3
<1>5. \A y \in T : x <= y
  BY <1>4
<1> QED BY <1>5

LEMMA MinIsLeast ==
  ASSUME NEW T \in SUBSET Nat, T # {}
  PROVE  Min(T) \in T /\ \A k \in T : Min(T) <= k
BY Least DEF Min

LEMMA MaxIsGreatest ==
  ASSUME NEW n \in Nat, NEW T \in SUBSET (0 .. n), T # {}
  PROVE  Max(T) \in T /\ \A k \in T : k <= Max(T)
<1> DEFINE U == {k \in 0 .. n : n - k \in T}
<1>1. U \in SUBSET Nat /\ U # {}
  <2>1. PICK t \in T : TRUE
    OBVIOUS
  <2>2. n - t \in U
    OBVIOUS
  <2> QED BY <2>2
<1>2. PICK u \in U : \A k \in U : u <= k
  BY <1>1, Least
<1>3. n - u \in T /\ \A k \in T : k <= n - u
  <2>1. \A k \in T : n - k \in U
    OBVIOUS
  <2> QED BY <1>2, <2>1
<1> QED BY <1>3 DEF Max

-----------------------------------------------------------------------------
(* Pushing a new element adds it to the elements.                          *)
LEMMA PushLemma ==
  ASSUME NEW S, NEW s \in Seq(S), NEW p \in S, p \notin Range(s), IsInjective(s)
  PROVE  /\ <<p>> \o s \in Seq(S)
         /\ Range(<<p>> \o s) = {p} \cup Range(s)
         /\ IsInjective(<<p>> \o s)
<1> DEFINE t == <<p>> \o s
<1>1. /\ Len(s) \in Nat
      /\ DOMAIN s = 1 .. Len(s)
      /\ t \in Seq(S)
      /\ DOMAIN t = 1 .. (Len(s) + 1)
      /\ t[1] = p
      /\ \A k \in 1 .. Len(s) : t[k + 1] = s[k]
  OBVIOUS
<1> HIDE DEF t
<1>2. \A k \in DOMAIN t : k = 1 \/ (k - 1 \in DOMAIN s /\ t[k] = s[k - 1])
  <2> SUFFICES ASSUME NEW k \in 1 .. (Len(s) + 1), k # 1
               PROVE  k - 1 \in 1 .. Len(s) /\ t[k] = s[k - 1]
    BY <1>1
  <2> QED BY <1>1
<1>3. Range(t) = {p} \cup Range(s)
  <2>1. Range(t) \subseteq {p} \cup Range(s)
    BY <1>1, <1>2 DEF Range
  <2>2. \A k \in DOMAIN s : k + 1 \in DOMAIN t /\ t[k + 1] = s[k]
    BY <1>1
  <2>3. {p} \cup Range(s) \subseteq Range(t)
    BY <1>1, <2>2 DEF Range
  <2> QED BY <2>1, <2>3
<1>4. IsInjective(t)
  <2> SUFFICES ASSUME NEW a \in DOMAIN t, NEW b \in DOMAIN t, t[a] = t[b]
               PROVE  a = b
    BY DEF IsInjective
  <2> QED BY <1>1, <1>2 DEF IsInjective, Range
<1> QED BY <1>1, <1>3, <1>4 DEF t

(* Leaving out the element at a place.                                     *)
LEMMA RemoveAtLemma ==
  ASSUME NEW S, NEW s \in Seq(S), NEW at \in 1 .. Len(s)
  PROVE  /\ RemoveAt(s, at) \in Seq(S)
         /\ Len(RemoveAt(s, at)) = Len(s) - 1
         /\ \A k \in 1 .. (Len(s) - 1) :
              RemoveAt(s, at)[k] = s[IF k < at THEN k ELSE k + 1]
<1>1. at \in Int /\ 1 <= at /\ at <= Len(s) /\ Len(s) \in Nat
  OBVIOUS
<1>2. PICK u : u = SubSeq(s, 1, at - 1)
  OBVIOUS
<1>3. /\ u \in Seq(S) /\ Len(u) = at - 1
      /\ \A k \in 1 .. (at - 1) : u[k] = s[k]
  BY <1>1, <1>2
<1>4. PICK v : v = SubSeq(s, at + 1, Len(s))
  OBVIOUS
<1>5. /\ v \in Seq(S) /\ Len(v) = Len(s) - at
      /\ \A k \in 1 .. (Len(s) - at) : v[k] = s[at + k]
  <2>1. at + 1 \in Int /\ Len(s) \in Int
        /\ \A k \in at + 1 .. Len(s) : s[k] \in S
    BY <1>1
  <2>2. /\ v \in Seq(S)
        /\ Len(v) = IF at + 1 <= Len(s) THEN Len(s) - (at + 1) + 1 ELSE 0
        /\ \A k \in 1 .. Len(s) - (at + 1) + 1 : v[k] = s[(at + 1) + k - 1]
    BY <1>4, <2>1, SubSeqProperties
  <2> QED BY <1>1, <2>2
<1>6. /\ u \o v \in Seq(S) /\ Len(u \o v) = Len(u) + Len(v)
      /\ \A k \in 1 .. Len(u) + Len(v) :
           (u \o v)[k] = IF k <= Len(u) THEN u[k] ELSE v[k - Len(u)]
  BY <1>3, <1>5, ConcatProperties
<1>7. RemoveAt(s, at) = u \o v
  BY <1>2, <1>4 DEF RemoveAt
<1>8. Len(u) + Len(v) = Len(s) - 1
  BY <1>1, <1>3, <1>5
<1>9. ASSUME NEW k \in 1 .. (Len(s) - 1)
      PROVE  (u \o v)[k] = s[IF k < at THEN k ELSE k + 1]
  <2>1. CASE k < at
    BY <1>1, <1>3, <1>6, <1>8, <2>1
  <2>2. CASE ~(k < at)
    <3>1. k - (at - 1) \in 1 .. (Len(s) - at) /\ at + (k - (at - 1)) = k + 1
      BY <1>1, <2>2
    <3>2. (u \o v)[k] = v[k - (at - 1)]
      BY <1>1, <1>3, <1>6, <1>8, <2>2
    <3> QED BY <1>5, <2>2, <3>1, <3>2
  <2> QED BY <2>1, <2>2
<1> QED BY <1>6, <1>7, <1>8, <1>9

(* The first occurrence of an element is the one that is unlinked.         *)
LEMMA RemoveFirstLemma ==
  ASSUME NEW S, NEW s \in Seq(S), NEW e \in Range(s)
  PROVE  \E at \in 1 .. Len(s) : s[at] = e /\ RemoveFirst(s, e) = RemoveAt(s, at)
<1> DEFINE I == {k \in 1 .. Len(s) : s[k] = e}
           at == Min(I)
<1>1. /\ Len(s) \in Nat
      /\ DOMAIN s = 1 .. Len(s)
      /\ I \in SUBSET Nat
      /\ I # {}
  BY DEF Range
<1>2. at \in 1 .. Len(s) /\ s[at] = e
  BY <1>1, MinIsLeast
<1>3. SelectInSeq(s, LAMBDA v : v = e) = at
  BY <1>1 DEF SelectInSeq
<1>4. \E k \in 1 .. Len(s) : s[k] = e
  BY <1>2
<1>5. RemoveFirst(s, e) = RemoveAt(s, at)
  BY <1>3, <1>4 DEF RemoveFirst
<1> QED BY <1>2, <1>5

(* Unlinking an element from such a list, wherever it is.                  *)
LEMMA UnlinkLemma ==
  ASSUME NEW S, NEW s \in Seq(S), NEW e \in Range(s), IsInjective(s)
  PROVE  /\ RemoveFirst(s, e) \in Seq(S)
         /\ Range(RemoveFirst(s, e)) = Range(s) \ {e}
         /\ IsInjective(RemoveFirst(s, e))
<1>1. Len(s) \in Nat /\ DOMAIN s = 1 .. Len(s)
  OBVIOUS
<1>2. PICK at \in 1 .. Len(s) : s[at] = e /\ RemoveFirst(s, e) = RemoveAt(s, at)
  BY RemoveFirstLemma
<1> DEFINE t == RemoveAt(s, at)
<1>3. RemoveFirst(s, e) = t
  BY <1>2
<1>4. /\ t \in Seq(S)
      /\ Len(t) = Len(s) - 1
      /\ DOMAIN t = 1 .. (Len(s) - 1)
      /\ \A k \in 1 .. (Len(s) - 1) : t[k] = s[IF k < at THEN k ELSE k + 1]
  <2>1. t \in Seq(S) /\ Len(t) = Len(s) - 1
    BY RemoveAtLemma
  <2>2. DOMAIN t = 1 .. (Len(s) - 1)
    <3> HIDE DEF t
    <3> QED BY <2>1
  <2> QED BY <2>1, <2>2, RemoveAtLemma
<1> HIDE DEF t
<1>5. IsInjective(t)
  <2> SUFFICES ASSUME NEW a \in DOMAIN t, NEW b \in DOMAIN t, t[a] = t[b]
               PROVE  a = b
    BY DEF IsInjective
  <2> DEFINE idx(k) == IF k < at THEN k ELSE k + 1
  <2>1. idx(a) \in DOMAIN s /\ idx(b) \in DOMAIN s
    BY <1>1, <1>2, <1>4
  <2>2. s[idx(a)] = s[idx(b)]
    BY <1>4
  <2>3. idx(a) = idx(b)
    BY <2>1, <2>2 DEF IsInjective
  <2> QED BY <1>1, <1>2, <1>4, <2>3
<1>6. Range(t) \subseteq Range(s) \ {e}
  <2> SUFFICES ASSUME NEW k \in 1 .. (Len(s) - 1)
               PROVE  t[k] \in Range(s) \ {e}
    BY <1>4 DEF Range
  <2>1. CASE k < at
    BY <1>1, <1>2, <1>4, <2>1 DEF IsInjective, Range
  <2>2. CASE ~(k < at)
    BY <1>1, <1>2, <1>4, <2>2 DEF IsInjective, Range
  <2> QED BY <2>1, <2>2
<1>7. Range(s) \ {e} \subseteq Range(t)
  <2> SUFFICES ASSUME NEW k \in 1 .. Len(s), s[k] # e
               PROVE  s[k] \in Range(t)
    BY <1>1 DEF Range
  <2>1. CASE k < at
    <3>1. k \in 1 .. (Len(s) - 1) /\ t[k] = s[k]
      BY <1>1, <1>2, <1>4, <2>1
    <3> QED BY <1>4, <3>1 DEF Range
  <2>2. CASE at < k
    <3>1. k - 1 \in 1 .. (Len(s) - 1) /\ t[k - 1] = s[k]
      BY <1>1, <1>2, <1>4, <2>2
    <3> QED BY <1>4, <3>1 DEF Range
  <2> QED BY <1>2, <2>1, <2>2
<1> QED BY <1>3, <1>4, <1>5, <1>6, <1>7

-----------------------------------------------------------------------------
(* The inductive invariant                                                 *)

(* The parts of a call in which a process carries a buffer from one list   *)
(* to another, and in which it has a reference to its buffer.              *)
Carrying == {"move", "insert"}
HasRef   == {"move", "insert", "sleeplock", "got", "using", "pin", "unpin",
             "unlocked", "release"}

(* b is on the list of bucket h.                                           *)
On(b, h) == b \in Range(chain[h])

(* Where the code of bget() is between acquire() and release() of a bucket *)
(* lock.                                                                   *)
Holds(p, h) ==
  \/ pc[p] \in {"hit", "recycle", "own_miss", "insert"} /\ h = Own(p)
  \/ pc[p] \in {"take", "victim_miss", "move", "insert"} /\ h = Victim(p)

LockInv == \A h \in Bucket, p \in Proc : lock[h] = p <=> Holds(p, h)

(* What a process knows of the buffer it chose, as long as it has the lock *)
(* of the list or a reference.                                             *)
LocalInv ==
  \A p \in Proc :
    /\ pc[p] # "idle" => want[p] \in MayUse[p]
    /\ pc[p] \in {"hit", "recycle", "take"} \cup HasRef => buf[p] \in Buf
    /\ pc[p] \in {"hit"} \cup HasRef => block[buf[p]] = want[p]
    /\ pc[p] \in {"hit", "recycle"} => On(buf[p], Own(p))
    /\ pc[p] = "take" => On(buf[p], Victim(p))
    /\ pc[p] \in {"recycle", "take"} => refcnt[buf[p]] = 0

(* The lists have no element twice and share none; a buffer is on a list   *)
(* or carried, by a process that alone refers to it.                       *)
ListInv ==
  /\ \A h \in Bucket : IsInjective(chain[h])
  /\ \A b \in Buf, h1, h2 \in Bucket : On(b, h1) /\ On(b, h2) => h1 = h2
  /\ \A p \in Proc, h \in Bucket : pc[p] \in Carrying => ~On(buf[p], h)
  /\ \A p, q \in Proc :
       pc[p] \in Carrying /\ pc[q] \in HasRef /\ buf[p] = buf[q] => p = q

Carried(b) == \E p \in Proc : pc[p] \in Carrying /\ buf[p] = b

(* A buffer that nobody carries is on a list, and on the one of its block  *)
(* once it has had a block, as one that is counted has.                    *)
HomeInv ==
  \A b \in Buf :
    /\ Carried(b) \/ \E h \in Bucket : On(b, h)
    /\ block[b] \in Block => Carried(b) \/ On(b, Hash(block[b]))
    /\ refcnt[b] # 0 => block[b] \in Block

TypeControl ==
  /\ lock \in [Bucket -> Proc \cup {NULL}]
  /\ chain \in [Bucket -> Seq(Buf)]
  /\ block \in [Buf -> Block \cup {NULL}]
  /\ slock \in [Buf -> Proc \cup {NULL}]
  /\ pc \in [Proc -> Labels]
  /\ want \in [Proc -> Block \cup {NULL}]
  /\ buf \in [Proc -> Buf \cup {NULL}]

TypeData ==
  /\ valid \in [Buf -> BOOLEAN]
  /\ refcnt \in [Buf -> Nat]
  /\ data \in [Buf -> Value]
  /\ disk \in [Block -> Value]
  /\ i \in [Proc -> Bucket]
  /\ pins \in [Buf -> Nat]

ShapeInv ==
  /\ TypeControl /\ TypeData
  /\ LockInv /\ LocalInv /\ ListInv /\ HomeInv /\ RefcntExact

(* The bucket that brelse(), bpin() and bunpin() found before they had its *)
(* lock is still the buffer's.                                             *)
Located == {"pin", "unpin", "release"}

NumInv ==
  /\ num \in [Proc -> Bucket]
  /\ \A p \in Proc : pc[p] \in Located => num[p] = Own(p)

(* The sleep lock of a buffer is its user's, and bunpin() is called for a  *)
(* buffer that is pinned, and stays so until it has the bucket lock.       *)
Locking == {"got", "using", "pin", "unpin"}

SleepInv ==
  \A p \in Proc :
    /\ pc[p] \in Locking => slock[buf[p]] = p
    /\ pc[p] = "unpin" => pins[buf[p]] # 0

IInv == ShapeInv /\ NumInv /\ SleepInv

-----------------------------------------------------------------------------
USE NBUFAssumption, NBUCKETSAssumption

LEMMA HashInBucket == \A n \in Nat : Hash(n) \in Bucket
BY DEF Hash, Bucket

-----------------------------------------------------------------------------
(* The initial lists.                                                      *)

(* One round of the loop of binit().                                       *)
Round(f, k) == [f EXCEPT ![(k - 1) % NBUCKETS] = Cons(k - 1, @)]

Empty == [h \in Bucket |-> <<>>]

Rounds(f, n) ==
  f = [k \in 0 .. n |-> IF k = 0 THEN Empty ELSE Round(f[k - 1], k)]

LEMMA RoundsExist == \A n \in Nat : \E f : Rounds(f, n)
<1> DEFINE T == {n \in Nat : ~ \E f : Rounds(f, n)}
<1> SUFFICES ASSUME T # {} PROVE FALSE
  OBVIOUS
<1>1. PICK n \in T : \A k \in T : n <= k
  BY Least
<1>2. n # 0
  <2> DEFINE f == [k \in 0 .. 0 |-> Empty]
  <2>1. Rounds(f, 0)
    BY DEF Rounds
  <2> QED BY <2>1
<1>3. n - 1 \in Nat /\ n - 1 \notin T
  BY <1>1, <1>2
<1>4. PICK f : Rounds(f, n - 1)
  BY <1>3
<1> DEFINE g == [k \in 0 .. n |-> IF k = n THEN Round(f[n - 1], n) ELSE f[k]]
<1>5. \A k \in 0 .. n : g[k] = IF k = 0 THEN Empty ELSE Round(g[k - 1], k)
  <2> SUFFICES ASSUME NEW k \in 0 .. n
               PROVE  g[k] = IF k = 0 THEN Empty ELSE Round(g[k - 1], k)
    OBVIOUS
  <2>1. CASE k = n
    BY <1>2, <1>3, <2>1
  <2>2. CASE k # n
    <3>1. k \in 0 .. n - 1 /\ (k # 0 => k - 1 \in 0 .. n /\ k - 1 # n)
      BY <1>3, <2>2
    <3>2. f[k] = IF k = 0 THEN Empty ELSE Round(f[k - 1], k)
      BY <1>4, <3>1 DEF Rounds
    <3> QED BY <2>2, <3>1, <3>2
  <2> QED BY <2>1, <2>2
<1>6. Rounds(g, n)
  <2>1. g = [k \in 0 .. n |-> g[k]]
    OBVIOUS
  <2> HIDE DEF g
  <2> QED BY <1>5, <2>1 DEF Rounds
<1> QED BY <1>1, <1>6

LEMMA BinitRounds ==
  /\ binit[0] = Empty
  /\ \A k \in 1 .. NBUF : binit[k] = Round(binit[k - 1], k)
<1>1. binit = CHOOSE f : Rounds(f, NBUF)
  BY DEF binit, Rounds, Round, Empty
<1>2. Rounds(binit, NBUF)
  BY <1>1, RoundsExist
<1> QED BY <1>2 DEF Rounds

Sorted(n) ==
  /\ binit[n] \in [Bucket -> Seq(Buf)]
  /\ \A h \in Bucket :
       /\ IsInjective(binit[n][h])
       /\ Range(binit[n][h]) = {b \in 0 .. n - 1 : b % NBUCKETS = h}

(* After every round of the loop.                                          *)
LEMMA BinitSortsAll == \A n \in 0 .. NBUF : Sorted(n)
<1> DEFINE T == {n \in 0 .. NBUF : ~ Sorted(n)}
<1> SUFFICES ASSUME T # {} PROVE FALSE
  OBVIOUS
<1>1. PICK n \in T : \A k \in T : n <= k
  <2> T \subseteq Nat
    OBVIOUS
  <2> QED BY Least
<1>2. n # 0
  <2> SUFFICES Sorted(0)
    OBVIOUS
  <2>1. \A h \in Bucket : Empty[h] = <<>>
    BY DEF Empty
  <2>2. IsInjective(<<>>) /\ Range(<<>>) = {}
    BY DEF IsInjective, Range
  <2>3. 0 .. 0 - 1 = {}
    OBVIOUS
  <2>4. Empty \in [Bucket -> Seq(Buf)]
    BY DEF Empty
  <2> QED BY BinitRounds, <2>1, <2>2, <2>3, <2>4 DEF Sorted
<1>3. n \in 1 .. NBUF /\ n - 1 \in 0 .. NBUF /\ n - 1 \notin T
  BY <1>1, <1>2
<1> DEFINE f == binit[n - 1]
           b == n - 1
           home == b % NBUCKETS
<1>4. Sorted(n - 1)
  BY <1>3
<1>5. binit[n] = Round(f, n)
  BY <1>3, BinitRounds
<1>6. b \in Buf /\ home \in Bucket
  BY <1>3 DEF Buf, Bucket
<1>7. binit[n] = [f EXCEPT ![home] = Cons(b, f[home])]
  BY <1>5 DEF Round
<1>8. f \in [Bucket -> Seq(Buf)]
  BY <1>4 DEF Sorted
<1>9. \A h \in Bucket : binit[n][h] = IF h = home THEN Cons(b, f[h]) ELSE f[h]
  BY <1>6, <1>7, <1>8
<1>10. \A h \in Bucket :
         /\ IsInjective(f[h])
         /\ Range(f[h]) = {c \in 0 .. b - 1 : c % NBUCKETS = h}
  BY <1>4 DEF Sorted
<1>11. b \notin Range(f[home])
  BY <1>6, <1>10
<1>12. /\ Cons(b, f[home]) \in Seq(Buf)
       /\ Range(Cons(b, f[home])) = {b} \cup Range(f[home])
       /\ IsInjective(Cons(b, f[home]))
  <2> HIDE DEF f, b, home
  <2> QED BY <1>6, <1>8, <1>10, <1>11, PushLemma DEF Cons
<1>13. 0 .. b = (0 .. b - 1) \cup {b}
  BY <1>3
<1>14. \A h \in Bucket :
         {c \in 0 .. b : c % NBUCKETS = h}
           = {c \in 0 .. b - 1 : c % NBUCKETS = h}
               \cup (IF h = home THEN {b} ELSE {})
  <2> HIDE DEF b
  <2> QED BY <1>13
<1>15. \A h \in Bucket :
         /\ IsInjective(binit[n][h])
         /\ Range(binit[n][h]) = {c \in 0 .. b : c % NBUCKETS = h}
  <2> HIDE DEF b, f, home
  <2> QED BY <1>9, <1>10, <1>12, <1>14
<1>16. binit[n] \in [Bucket -> Seq(Buf)]
  <2> HIDE DEF b, f, home
  <2> QED BY <1>6, <1>7, <1>8, <1>12
<1>17. Sorted(n)
  BY <1>15, <1>16 DEF Sorted
<1> QED BY <1>1, <1>17

(* After the loop.                                                         *)
LEMMA BinitSorts == Sorted(NBUF)
BY BinitSortsAll

(* What binit() leaves: every buffer once, on one list.                    *)
LEMMA InitialLists ==
  ASSUME Init
  PROVE  /\ chain \in [Bucket -> Seq(Buf)]
         /\ \A h \in Bucket : IsInjective(chain[h])
         /\ \A b \in Buf, h \in Bucket : On(b, h) <=> h = b % NBUCKETS
         /\ \A b \in Buf : b % NBUCKETS \in Bucket
<1>1. chain = binit[NBUF]
  BY DEF Init
<1>2. \A h \in Bucket : Range(chain[h]) = {b \in Buf : b % NBUCKETS = h}
  BY <1>1, BinitSorts DEF Sorted, Buf
<1>3. \A b \in Buf : b % NBUCKETS \in Bucket
  BY DEF Buf, Bucket
<1> QED BY <1>1, <1>2, <1>3, BinitSorts DEF Sorted, On

-----------------------------------------------------------------------------
(* What the inductive invariant says of a process.                         *)

LEMMA BucketsInRange ==
  ASSUME IInv, NEW p \in Proc, pc[p] # "idle"
  PROVE  want[p] \in Block /\ Own(p) \in Bucket /\ Victim(p) \in Bucket
<1>1. want[p] \in Block
  BY MayUseAssumption DEF IInv, ShapeInv, LocalInv
<1>2. want[p] \in Nat /\ i[p] \in Nat
  <2>1. i[p] \in Bucket
    BY DEF IInv, ShapeInv, TypeData
  <2>2. i[p] \in Nat
    BY <2>1 DEF Bucket
  <2>3. want[p] \in Nat
    BY <1>1, BlockAssumption
  <2> QED BY <2>2, <2>3
<1> QED BY <1>1, <1>2 DEF Own, Victim, Hash, Bucket

LEMMA CountReferers ==
  ASSUME NEW R \in SUBSET Proc, NEW p \in Proc
  PROVE  /\ Cardinality(R) \in Nat
         /\ p \notin R => Cardinality(R \cup {p}) = Cardinality(R) + 1
         /\ p \in R => Cardinality(R \ {p}) = Cardinality(R) - 1
         /\ p \in R => Cardinality(R) > 0
<1>1. IsFiniteSet(R)
  BY ProcAssumption, FS_Subset
<1>2. Cardinality(R) \in Nat
  BY <1>1, FS_CardinalityType
<1>3. p \notin R => Cardinality(R \cup {p}) = Cardinality(R) + 1
  BY <1>1, FS_AddElement
<1>4. p \in R => Cardinality(R \ {p}) = Cardinality(R) - 1
  BY <1>1, FS_RemoveElement
<1>5. p \in R => Cardinality(R) # 0
  BY <1>1, FS_EmptySet
<1> QED BY <1>2, <1>3, <1>4, <1>5

(* The buffer of a process that has a reference is counted.                *)
LEMMA ReferencesCount ==
  ASSUME IInv, NEW p \in Proc, pc[p] \in HasRef
  PROVE  buf[p] \in Buf /\ refcnt[buf[p]] # 0
<1>1. buf[p] \in Buf
  BY DEF IInv, ShapeInv, LocalInv
<1>2. p \in Referers(buf[p])
  BY DEF Referers, HasRef
<1>3. Referers(buf[p]) \in SUBSET Proc
  BY DEF Referers
<1>4. Cardinality(Referers(buf[p])) \in Nat
      /\ Cardinality(Referers(buf[p])) > 0
  BY <1>2, <1>3, CountReferers
<1>5. refcnt[buf[p]] = Cardinality(Referers(buf[p])) + pins[buf[p]]
      /\ pins[buf[p]] \in Nat
  BY <1>1 DEF IInv, ShapeInv, RefcntExact, TypeData
<1> QED BY <1>1, <1>4, <1>5

(* What the searches of bget() find.                                       *)
LEMMA Searches ==
  ASSUME IInv, NEW h \in Bucket, NEW n
  PROVE  /\ CachedAt(h, n) # 0 =>
              LET b == chain[h][CachedAt(h, n)]
              IN b \in Buf /\ On(b, h) /\ block[b] = n
         /\ CachedAt(h, n) = 0 => \A b \in Buf : On(b, h) => block[b] # n
         /\ LastUnused(h) # 0 =>
              LET b == chain[h][LastUnused(h)]
              IN b \in Buf /\ On(b, h) /\ refcnt[b] = 0
         /\ FirstUnused(h) # 0 =>
              LET b == chain[h][FirstUnused(h)]
              IN b \in Buf /\ On(b, h) /\ refcnt[b] = 0
         /\ LastUnused(h) = 0 \/ FirstUnused(h) = 0 =>
              \A b \in Range(chain[h]) : refcnt[b] # 0
<1> DEFINE s == chain[h]
           N == 1 .. Len(s)
           C == {k \in N : block[s[k]] = n}
           U == {k \in N : refcnt[s[k]] = 0}
<1>1. /\ s \in Seq(Buf) /\ Len(s) \in Nat /\ DOMAIN s = N
      /\ \A k \in N : s[k] \in Buf
  BY DEF IInv, ShapeInv, TypeControl
<1>2. C \in SUBSET Nat /\ U \in SUBSET Nat /\ U \in SUBSET (0 .. Len(s))
  BY <1>1
<1>3. CachedAt(h, n) = IF C # {} THEN Min(C) ELSE 0
  BY DEF CachedAt, SelectInSeq
<1>4. LastUnused(h) = IF U # {} THEN Max(U) ELSE 0
  BY DEF LastUnused, SelectLastInSeq
<1>5. FirstUnused(h) = IF U # {} THEN Min(U) ELSE 0
  BY DEF FirstUnused, SelectInSeq
<1>6. \A k \in N : On(s[k], h)
  BY <1>1 DEF On, Range
<1>7. \A b : On(b, h) => \E k \in N : b = s[k]
  BY <1>1 DEF On, Range
<1>8. C # {} => Min(C) \in C
  BY <1>2, MinIsLeast
<1>9. U # {} => Min(U) \in U
  BY <1>2, MinIsLeast
<1>10. U # {} => Max(U) \in U
  BY <1>1, <1>2, MaxIsGreatest
<1>11. 0 \notin N
  OBVIOUS
<1>12. ASSUME NEW k \in N
       PROVE  s[k] \in Buf /\ On(s[k], h)
  BY <1>1, <1>6
<1>13. CachedAt(h, n) # 0 =>
         CachedAt(h, n) \in N /\ block[s[CachedAt(h, n)]] = n
  BY <1>3, <1>8
<1>14. CachedAt(h, n) = 0 => C = {}
  BY <1>3, <1>8, <1>11
<1>15. LastUnused(h) # 0 =>
         LastUnused(h) \in N /\ refcnt[s[LastUnused(h)]] = 0
  BY <1>4, <1>10
<1>16. FirstUnused(h) # 0 =>
         FirstUnused(h) \in N /\ refcnt[s[FirstUnused(h)]] = 0
  BY <1>5, <1>9
<1>17. LastUnused(h) = 0 \/ FirstUnused(h) = 0 => U = {}
  BY <1>4, <1>5, <1>9, <1>10, <1>11
<1> HIDE DEF N, s
<1>18. CachedAt(h, n) = 0 => \A b \in Buf : On(b, h) => block[b] # n
  BY <1>7, <1>14
<1>19. LastUnused(h) = 0 \/ FirstUnused(h) = 0 =>
         \A b : On(b, h) => refcnt[b] # 0
  BY <1>7, <1>17
<1> QED BY <1>12, <1>13, <1>15, <1>16, <1>18, <1>19 DEF s, On

-----------------------------------------------------------------------------
(* Every step preserves it.                                                *)

(* A step that moves one process between labels at which it has a          *)
(* reference and carries nothing, and leaves lists and counts alone.       *)
LEMMA QuietStep ==
  ASSUME IInv, NEW p \in Proc,
         NEW from \in HasRef \ Carrying, NEW to \in HasRef \ Carrying,
         pc[p] = from, pc' = [pc EXCEPT ![p] = to],
         UNCHANGED <<lock, chain, block, refcnt, want, buf, pins>>,
         i' = [i EXCEPT ![p] = 0] \/ i' = i,
         slock' \in [Buf -> Proc \cup {NULL}],
         valid' \in [Buf -> BOOLEAN],
         data' \in [Buf -> Value],
         disk' \in [Block -> Value]
  PROVE  ShapeInv'
<1> USE NULLAssumption DEF IInv, ShapeInv, HasRef, Carrying
<1>1. TypeControl'
  BY DEF TypeControl, Labels
<1>2. TypeData'
  BY DEF TypeData, Bucket
<1>3. \A q \in Proc : i[q] \in Bucket
  BY DEF TypeData
<1>4. /\ \A q \in Proc : Own(q)' = Own(q)
      /\ \A q \in Proc : q # p => Victim(q)' = Victim(q)
      /\ \A q \in Proc : q # p => pc'[q] = pc[q]
      /\ pc'[p] = to
      /\ \A b, h : On(b, h)' <=> On(b, h)
  BY <1>3 DEF Own, Victim, On, TypeControl, TypeData
<1>5. LockInv'
  BY <1>4 DEF LockInv, Holds
<1>6. LocalInv'
  BY <1>4 DEF LocalInv
<1>7. ListInv'
  BY <1>4 DEF ListInv
<1>8. HomeInv'
  BY <1>4 DEF HomeInv, Carried
<1>9. RefcntExact'
  <2>1. \A b \in Buf : Referers(b)' = Referers(b)
    BY <1>4 DEF Referers
  <2> QED BY <2>1 DEF RefcntExact
<1> QED BY <1>1, <1>2, <1>5, <1>6, <1>7, <1>8, <1>9

LEMMA EnterStep ==
  ASSUME IInv, NEW p \in Proc, NEW n \in Block, BgetEnter(p, n)
  PROVE  ShapeInv'
<1> USE NULLAssumption DEF IInv, ShapeInv, BgetEnter, Goto, bufvars, HasRef, Carrying
<1>1. TypeControl'
  BY DEF TypeControl, Labels
<1>2. TypeData'
  BY DEF TypeData
<1>3. /\ \A q \in Proc : q # p => Own(q)' = Own(q) /\ Victim(q)' = Victim(q)
      /\ \A q \in Proc : q # p => pc'[q] = pc[q] /\ want'[q] = want[q]
      /\ pc'[p] = "own" /\ want'[p] = n
      /\ \A b, h : On(b, h)' <=> On(b, h)
  BY DEF Own, Victim, On, TypeControl
<1>4. LockInv'
  BY <1>3 DEF LockInv, Holds
<1>5. LocalInv'
  BY <1>3 DEF LocalInv
<1>6. ListInv'
  BY <1>3 DEF ListInv
<1>7. HomeInv'
  BY <1>3 DEF HomeInv, Carried
<1>8. RefcntExact'
  <2>1. \A b \in Buf : Referers(b)' = Referers(b)
    BY <1>3 DEF Referers
  <2> QED BY <2>1 DEF RefcntExact
<1> QED BY <1>1, <1>2, <1>4, <1>5, <1>6, <1>7, <1>8

LEMMA OwnStep ==
  ASSUME IInv, NEW p \in Proc, BgetOwn(p)
  PROVE  ShapeInv'
<1> USE NULLAssumption DEF IInv, ShapeInv, HasRef, Carrying
<1>1. Own(p) \in Bucket /\ pc[p] = "own"
  BY BucketsInRange DEF BgetOwn
<1>2. PICK to \in {"hit", "recycle", "own_miss"} :
        /\ pc' = [pc EXCEPT ![p] = to]
        /\ \/ to = "own_miss" /\ buf' = buf
           \/ \E b \in Buf :
                /\ buf' = [buf EXCEPT ![p] = b]
                /\ On(b, Own(p))
                /\ to = "hit" => block[b] = want[p]
                /\ to = "recycle" => refcnt[b] = 0
  BY <1>1, Searches DEF BgetOwn, Goto
<1>3. /\ lock[Own(p)] = NULL
      /\ lock' = [lock EXCEPT ![Own(p)] = p]
      /\ UNCHANGED <<chain, block, refcnt, valid, data, slock, disk, want, i,
                     pins>>
  BY DEF BgetOwn, acquire, bufvars
<1>4. TypeControl'
  BY <1>1, <1>2, <1>3 DEF TypeControl, Labels
<1>5. TypeData'
  BY <1>3 DEF TypeData
<1>6. /\ \A q \in Proc : Own(q)' = Own(q) /\ Victim(q)' = Victim(q)
      /\ \A q \in Proc : q # p => pc'[q] = pc[q] /\ buf'[q] = buf[q]
      /\ pc'[p] = to
      /\ \A b, h : On(b, h)' <=> On(b, h)
  BY <1>2, <1>3 DEF Own, Victim, On, TypeControl
<1>7. LockInv'
  BY <1>1, <1>2, <1>3, <1>6 DEF LockInv, Holds, TypeControl
<1>8. LocalInv'
  BY <1>1, <1>2, <1>3, <1>6 DEF LocalInv, TypeControl
<1>9. ListInv'
  BY <1>2, <1>3, <1>6 DEF ListInv
<1>10. HomeInv'
  BY <1>1, <1>2, <1>3, <1>6 DEF HomeInv, Carried
<1>11. RefcntExact'
  <2>1. \A b \in Buf : Referers(b)' = Referers(b)
    BY <1>1, <1>2, <1>6 DEF Referers
  <2> QED BY <1>3, <2>1 DEF RefcntExact
<1> QED BY <1>4, <1>5, <1>7, <1>8, <1>9, <1>10, <1>11

LEMMA HitStep ==
  ASSUME IInv, NEW p \in Proc, BgetHit(p)
  PROVE  ShapeInv'
<1> DEFINE b0 == buf[p]
<1> USE NULLAssumption DEF IInv, ShapeInv, HasRef, Carrying
<1>1. /\ Own(p) \in Bucket /\ pc[p] = "hit" /\ b0 \in Buf
      /\ On(b0, Own(p)) /\ block[b0] = want[p] /\ want[p] \in Block
  BY BucketsInRange DEF BgetHit, Goto, LocalInv
<1>2. /\ pc' = [pc EXCEPT ![p] = "sleeplock"]
      /\ refcnt' = [refcnt EXCEPT ![b0] = refcnt[b0] + 1]
      /\ lock' = [lock EXCEPT ![Own(p)] = NULL]
      /\ UNCHANGED <<chain, block, valid, data, slock, disk, want, i, buf,
                     pins>>
  BY DEF BgetHit, Goto, release
<1>3. TypeControl'
  BY <1>1, <1>2 DEF TypeControl, Labels
<1>4. TypeData'
  BY <1>1, <1>2 DEF TypeData
<1>5. /\ \A q \in Proc : Own(q)' = Own(q) /\ Victim(q)' = Victim(q)
      /\ \A q \in Proc : q # p => pc'[q] = pc[q]
      /\ pc'[p] = "sleeplock"
      /\ \A b, h : On(b, h)' <=> On(b, h)
      /\ \A b \in Buf : b # b0 => refcnt'[b] = refcnt[b]
  BY <1>1, <1>2 DEF Own, Victim, On, TypeControl, TypeData
<1>6. LockInv'
  BY <1>1, <1>2, <1>5 DEF LockInv, Holds, TypeControl
<1>7. \A q \in Proc : q # p /\ pc[q] \in {"recycle", "take"} => buf[q] # b0
  BY <1>1, BucketsInRange DEF LocalInv, ListInv, LockInv, Holds
<1>8. LocalInv'
  BY <1>1, <1>2, <1>5, <1>7 DEF LocalInv
<1>9. ListInv'
  BY <1>1, <1>2, <1>5 DEF ListInv
<1>10. HomeInv'
  BY <1>1, <1>2, <1>5 DEF HomeInv, Carried
<1>11. RefcntExact'
  <2>1. \A b \in Buf : b # b0 => Referers(b)' = Referers(b)
    BY <1>1, <1>2, <1>5 DEF Referers
  <2>2. Referers(b0)' = Referers(b0) \cup {p}
    BY <1>1, <1>2, <1>5 DEF Referers
  <2>3. p \notin Referers(b0) /\ Referers(b0) \in SUBSET Proc
    BY <1>1 DEF Referers
  <2>4. /\ Cardinality(Referers(b0)') = Cardinality(Referers(b0)) + 1
        /\ Cardinality(Referers(b0)) \in Nat
    BY <2>2, <2>3, CountReferers
  <2>5. refcnt'[b0] = refcnt[b0] + 1 /\ pins[b0] \in Nat
    BY <1>1, <1>2 DEF TypeData
  <2> QED BY <1>1, <1>2, <1>5, <2>1, <2>4, <2>5 DEF RefcntExact
<1> QED BY <1>3, <1>4, <1>6, <1>8, <1>9, <1>10, <1>11

LEMMA RecycleStep ==
  ASSUME IInv, NEW p \in Proc, BgetRecycle(p)
  PROVE  ShapeInv'
<1> DEFINE b0 == buf[p]
<1> USE NULLAssumption DEF IInv, ShapeInv, HasRef, Carrying
<1>1. /\ Own(p) \in Bucket /\ pc[p] = "recycle" /\ b0 \in Buf
      /\ On(b0, Own(p)) /\ refcnt[b0] = 0 /\ want[p] \in Block
  BY BucketsInRange DEF BgetRecycle, Goto, LocalInv
<1>2. /\ pc' = [pc EXCEPT ![p] = "sleeplock"]
      /\ block' = [block EXCEPT ![b0] = want[p]]
      /\ valid' = [valid EXCEPT ![b0] = FALSE]
      /\ refcnt' = [refcnt EXCEPT ![b0] = 1]
      /\ lock' = [lock EXCEPT ![Own(p)] = NULL]
      /\ UNCHANGED <<chain, data, slock, disk, want, i, buf, pins>>
  BY DEF BgetRecycle, Goto, release, Claim
<1>3. TypeControl'
  BY <1>1, <1>2 DEF TypeControl, Labels
<1>4. TypeData'
  BY <1>1, <1>2 DEF TypeData
<1>5. /\ \A q \in Proc : Own(q)' = Own(q) /\ Victim(q)' = Victim(q)
      /\ \A q \in Proc : q # p => pc'[q] = pc[q]
      /\ pc'[p] = "sleeplock"
      /\ \A b, h : On(b, h)' <=> On(b, h)
      /\ \A b \in Buf : b # b0 => refcnt'[b] = refcnt[b]
                                  /\ block'[b] = block[b]
      /\ block'[b0] = want[p]
  BY <1>1, <1>2 DEF Own, Victim, On, TypeControl, TypeData
<1>6. LockInv'
  BY <1>1, <1>2, <1>5 DEF LockInv, Holds, TypeControl
<1>7. \A q \in Proc :
        q # p /\ pc[q] \in {"recycle", "take", "hit"} \cup HasRef => buf[q] # b0
  <2>1. \A q \in Proc :
          q # p /\ pc[q] \in {"recycle", "take", "hit"} => buf[q] # b0
    BY <1>1, BucketsInRange DEF LocalInv, ListInv, LockInv, Holds
  <2>2. \A q \in Proc : pc[q] \in HasRef => buf[q] # b0
    BY <1>1, ReferencesCount
  <2> QED BY <2>1, <2>2
<1>8. LocalInv'
  BY <1>1, <1>2, <1>5, <1>7 DEF LocalInv
<1>9. ListInv'
  BY <1>1, <1>2, <1>5, <1>7 DEF ListInv
<1>10. HomeInv'
  BY <1>1, <1>2, <1>5, <1>7 DEF HomeInv, Carried, Own
<1>11. RefcntExact'
  <2>1. \A b \in Buf : b # b0 => Referers(b)' = Referers(b)
    BY <1>1, <1>2, <1>5 DEF Referers
  <2>2. Referers(b0)' = {} \cup {p} /\ Referers(b0) = {}
    BY <1>1, <1>2, <1>5, <1>7 DEF Referers
  <2>3. Cardinality(Referers(b0)') = 1 /\ Cardinality(Referers(b0)) = 0
    BY <2>2, FS_EmptySet, FS_Singleton
  <2>4. refcnt[b0] = Cardinality(Referers(b0)) + pins[b0] /\ pins[b0] \in Nat
    BY <1>1 DEF RefcntExact, TypeData
  <2>5. refcnt'[b0] = 1 /\ pins[b0] = 0
    BY <1>1, <1>2, <2>3, <2>4 DEF TypeData
  <2> QED BY <1>1, <1>2, <1>5, <2>1, <2>3, <2>5 DEF RefcntExact
<1> QED BY <1>3, <1>4, <1>6, <1>8, <1>9, <1>10, <1>11

(* Leaving a bucket without a buffer, for the next one or the panic.       *)
LEMMA TryNextStep ==
  ASSUME IInv, NEW p \in Proc, NEW from \in {"own_miss", "victim_miss"},
         NEW h \in Bucket, TryNext(p, from), release(h),
         h = IF from = "own_miss" THEN Own(p) ELSE Victim(p),
         UNCHANGED <<chain, bufvars, slock, disk, want, buf, pins>>
  PROVE  ShapeInv'
<1> USE NULLAssumption DEF IInv, ShapeInv, HasRef, Carrying
<1>1. PICK to \in {"victim", "panic"} : pc' = [pc EXCEPT ![p] = to]
  BY DEF TryNext, Goto
<1>2. /\ pc[p] = from
      /\ lock' = [lock EXCEPT ![h] = NULL]
      /\ UNCHANGED <<chain, block, valid, refcnt, data, slock, disk, want, buf,
                     pins>>
  BY DEF TryNext, Goto, release, bufvars
<1>3. TypeControl'
  BY <1>1, <1>2 DEF TypeControl, Labels
<1>4. i' \in [Proc -> Bucket] /\ \A q \in Proc : q # p => i'[q] = i[q]
  <2>1. CASE i[p] + 1 < NBUCKETS
    <3>1. i' = [i EXCEPT ![p] = i[p] + 1]
      BY <2>1 DEF TryNext
    <3>2. i[p] + 1 \in Bucket
      BY <2>1 DEF TypeData, Bucket
    <3>3. i \in [Proc -> Bucket]
      BY DEF TypeData
    <3> QED BY <3>1, <3>2, <3>3
  <2>2. CASE ~(i[p] + 1 < NBUCKETS)
    BY <2>2 DEF TryNext, TypeData
  <2> QED BY <2>1, <2>2
<1>5. TypeData'
  BY <1>2, <1>4 DEF TypeData
<1>6. /\ \A q \in Proc : Own(q)' = Own(q)
      /\ \A q \in Proc : q # p => Victim(q)' = Victim(q)
      /\ \A q \in Proc : q # p => pc'[q] = pc[q]
      /\ pc'[p] = to
      /\ \A b, g : On(b, g)' <=> On(b, g)
  BY <1>1, <1>2, <1>4 DEF Own, Victim, On, TypeControl
<1>7. LockInv'
  BY <1>1, <1>2, <1>6 DEF LockInv, Holds, TypeControl
<1>8. LocalInv'
  BY <1>1, <1>2, <1>6 DEF LocalInv
<1>9. ListInv'
  BY <1>1, <1>2, <1>6 DEF ListInv
<1>10. HomeInv'
  BY <1>1, <1>2, <1>6 DEF HomeInv, Carried
<1>11. RefcntExact'
  <2>1. \A b \in Buf : Referers(b)' = Referers(b)
    BY <1>1, <1>2, <1>6 DEF Referers
  <2> QED BY <1>2, <2>1 DEF RefcntExact
<1> QED BY <1>3, <1>5, <1>7, <1>8, <1>9, <1>10, <1>11

LEMMA VictimStep ==
  ASSUME IInv, NEW p \in Proc, BgetVictim(p)
  PROVE  ShapeInv'
<1> USE NULLAssumption DEF IInv, ShapeInv, HasRef, Carrying
<1>1. Victim(p) \in Bucket /\ pc[p] = "victim"
  BY BucketsInRange DEF BgetVictim
<1>2. PICK to \in {"take", "victim_miss"} :
        /\ pc' = [pc EXCEPT ![p] = to]
        /\ \/ to = "victim_miss" /\ buf' = buf
           \/ \E b \in Buf :
                /\ buf' = [buf EXCEPT ![p] = b]
                /\ On(b, Victim(p))
                /\ refcnt[b] = 0
  BY <1>1, Searches DEF BgetVictim, Goto
<1>3. /\ lock[Victim(p)] = NULL
      /\ lock' = [lock EXCEPT ![Victim(p)] = p]
      /\ UNCHANGED <<chain, block, refcnt, valid, data, slock, disk, want, i,
                     pins>>
  BY DEF BgetVictim, acquire, bufvars
<1>4. TypeControl'
  BY <1>1, <1>2, <1>3 DEF TypeControl, Labels
<1>5. TypeData'
  BY <1>3 DEF TypeData
<1>6. /\ \A q \in Proc : Own(q)' = Own(q) /\ Victim(q)' = Victim(q)
      /\ \A q \in Proc : q # p => pc'[q] = pc[q] /\ buf'[q] = buf[q]
      /\ pc'[p] = to
      /\ \A b, h : On(b, h)' <=> On(b, h)
  BY <1>2, <1>3 DEF Own, Victim, On, TypeControl
<1>7. LockInv'
  BY <1>1, <1>2, <1>3, <1>6 DEF LockInv, Holds, TypeControl
<1>8. LocalInv'
  BY <1>1, <1>2, <1>3, <1>6 DEF LocalInv, TypeControl
<1>9. ListInv'
  BY <1>2, <1>3, <1>6 DEF ListInv
<1>10. HomeInv'
  BY <1>1, <1>2, <1>3, <1>6 DEF HomeInv, Carried
<1>11. RefcntExact'
  <2>1. \A b \in Buf : Referers(b)' = Referers(b)
    BY <1>1, <1>2, <1>6 DEF Referers
  <2> QED BY <1>3, <2>1 DEF RefcntExact
<1> QED BY <1>4, <1>5, <1>7, <1>8, <1>9, <1>10, <1>11

LEMMA TakeStep ==
  ASSUME IInv, NEW p \in Proc, BgetTake(p)
  PROVE  ShapeInv'
<1> DEFINE b0 == buf[p]
           h0 == Victim(p)
<1> USE NULLAssumption DEF IInv, ShapeInv, HasRef, Carrying
<1>1. /\ h0 \in Bucket /\ pc[p] = "take" /\ b0 \in Buf
      /\ On(b0, h0) /\ refcnt[b0] = 0 /\ want[p] \in Block
  BY BucketsInRange DEF BgetTake, Goto, LocalInv
<1>2. /\ pc' = [pc EXCEPT ![p] = "move"]
      /\ block' = [block EXCEPT ![b0] = want[p]]
      /\ valid' = [valid EXCEPT ![b0] = FALSE]
      /\ refcnt' = [refcnt EXCEPT ![b0] = 1]
      /\ chain' = [chain EXCEPT ![h0] = RemoveFirst(chain[h0], b0)]
      /\ UNCHANGED <<lock, data, slock, disk, want, i, buf, pins>>
  BY DEF BgetTake, Goto, Claim
<1>3. /\ RemoveFirst(chain[h0], b0) \in Seq(Buf)
      /\ Range(RemoveFirst(chain[h0], b0)) = Range(chain[h0]) \ {b0}
      /\ IsInjective(RemoveFirst(chain[h0], b0))
  BY <1>1, UnlinkLemma DEF On, ListInv, TypeControl
<1>4. /\ \A h \in Bucket : IsInjective(chain'[h])
      /\ \A h \in Bucket : \A b : On(b, h)' <=> On(b, h) /\ ~(h = h0 /\ b = b0)
  BY <1>1, <1>2, <1>3 DEF On, ListInv, TypeControl
<1>5. TypeControl'
  BY <1>1, <1>2, <1>3 DEF TypeControl, Labels
<1>6. TypeData'
  BY <1>1, <1>2 DEF TypeData
<1>7. /\ \A q \in Proc : Own(q)' = Own(q) /\ Victim(q)' = Victim(q)
      /\ \A q \in Proc : q # p => pc'[q] = pc[q]
      /\ pc'[p] = "move"
      /\ \A b \in Buf : b # b0 => refcnt'[b] = refcnt[b]
                                  /\ block'[b] = block[b]
      /\ block'[b0] = want[p]
  BY <1>1, <1>2 DEF Own, Victim, TypeControl, TypeData
<1>8. LockInv'
  BY <1>1, <1>2, <1>7 DEF LockInv, Holds
<1>9. \A q \in Proc :
        q # p /\ pc[q] \in {"recycle", "take", "hit"} \cup HasRef => buf[q] # b0
  <2>1. \A q \in Proc :
          q # p /\ pc[q] \in {"recycle", "take", "hit"} => buf[q] # b0
    BY <1>1, BucketsInRange DEF LocalInv, ListInv, LockInv, Holds
  <2>2. \A q \in Proc : pc[q] \in HasRef => buf[q] # b0
    BY <1>1, ReferencesCount
  <2> QED BY <2>1, <2>2
<1>10. LocalInv'
  <2>1. \A q \in Proc : pc[q] # "idle" =>
           Own(q) \in Bucket /\ Victim(q) \in Bucket
    BY BucketsInRange
  <2> QED BY <1>1, <1>2, <1>4, <1>7, <1>9, <2>1 DEF LocalInv
<1>11. ListInv'
  BY <1>1, <1>2, <1>4, <1>7, <1>9 DEF ListInv
<1>12. HomeInv'
  <2>1. \A b \in Buf : block[b] \in Block => Hash(block[b]) \in Bucket
    BY HashInBucket, BlockAssumption
  <2> QED BY <1>1, <1>2, <1>4, <1>7, <1>9, <2>1 DEF HomeInv, Carried
<1>13. RefcntExact'
  <2>1. \A b \in Buf : b # b0 => Referers(b)' = Referers(b)
    BY <1>1, <1>2, <1>7 DEF Referers
  <2>2. Referers(b0)' = {} \cup {p} /\ Referers(b0) = {}
    BY <1>1, <1>2, <1>7, <1>9 DEF Referers
  <2>3. Cardinality(Referers(b0)') = 1 /\ Cardinality(Referers(b0)) = 0
    BY <2>2, FS_EmptySet, FS_Singleton
  <2>4. refcnt[b0] = Cardinality(Referers(b0)) + pins[b0] /\ pins[b0] \in Nat
    BY <1>1 DEF RefcntExact, TypeData
  <2>5. refcnt'[b0] = 1 /\ pins[b0] = 0
    BY <1>1, <1>2, <2>3, <2>4 DEF TypeData
  <2> QED BY <1>1, <1>2, <1>7, <2>1, <2>3, <2>5 DEF RefcntExact
<1> QED BY <1>5, <1>6, <1>8, <1>10, <1>11, <1>12, <1>13

LEMMA MoveStep ==
  ASSUME IInv, NEW p \in Proc, BgetMove(p)
  PROVE  ShapeInv'
<1> USE NULLAssumption DEF IInv, ShapeInv, HasRef, Carrying
<1>1. Own(p) \in Bucket /\ Victim(p) \in Bucket /\ pc[p] = "move"
  BY BucketsInRange DEF BgetMove, Goto
<1>2. /\ pc' = [pc EXCEPT ![p] = "insert"]
      /\ lock[Own(p)] = NULL
      /\ lock' = [lock EXCEPT ![Own(p)] = p]
      /\ UNCHANGED <<chain, block, refcnt, valid, data, slock, disk, want, i,
                     buf, pins>>
  BY DEF BgetMove, Goto, acquire, bufvars
<1>3. TypeControl'
  BY <1>1, <1>2 DEF TypeControl, Labels
<1>4. TypeData'
  BY <1>2 DEF TypeData
<1>5. /\ \A q \in Proc : Own(q)' = Own(q) /\ Victim(q)' = Victim(q)
      /\ \A q \in Proc : q # p => pc'[q] = pc[q]
      /\ pc'[p] = "insert"
      /\ \A b, h : On(b, h)' <=> On(b, h)
  BY <1>2 DEF Own, Victim, On, TypeControl
<1>6. LockInv'
  BY <1>1, <1>2, <1>5 DEF LockInv, Holds, TypeControl
<1>7. LocalInv'
  BY <1>1, <1>2, <1>5 DEF LocalInv
<1>8. ListInv'
  BY <1>1, <1>2, <1>5 DEF ListInv
<1>9. HomeInv'
  BY <1>1, <1>2, <1>5 DEF HomeInv, Carried
<1>10. RefcntExact'
  <2>1. \A b \in Buf : Referers(b)' = Referers(b)
    BY <1>1, <1>2, <1>5 DEF Referers
  <2> QED BY <1>2, <2>1 DEF RefcntExact
<1> QED BY <1>3, <1>4, <1>6, <1>7, <1>8, <1>9, <1>10

LEMMA InsertStep ==
  ASSUME IInv, NEW p \in Proc, BgetInsert(p)
  PROVE  ShapeInv'
<1> DEFINE b0 == buf[p]
           h0 == Own(p)
<1> USE NULLAssumption DEF IInv, ShapeInv, HasRef, Carrying
<1>1. /\ h0 \in Bucket /\ Victim(p) \in Bucket /\ pc[p] = "insert"
      /\ b0 \in Buf /\ block[b0] = want[p] /\ want[p] \in Block
      /\ ~On(b0, h0)
  BY BucketsInRange DEF BgetInsert, Goto, LocalInv, ListInv
<1>2. /\ pc' = [pc EXCEPT ![p] = "sleeplock"]
      /\ chain' = [chain EXCEPT ![h0] = Cons(b0, chain[h0])]
      /\ lock' = [lock EXCEPT ![h0] = NULL, ![Victim(p)] = NULL]
      /\ UNCHANGED <<block, refcnt, valid, data, slock, disk, want, i, buf,
                     pins>>
  BY DEF BgetInsert, Goto, bufvars
<1>3. /\ Cons(b0, chain[h0]) \in Seq(Buf)
      /\ Range(Cons(b0, chain[h0])) = {b0} \cup Range(chain[h0])
      /\ IsInjective(Cons(b0, chain[h0]))
  <2>1. chain[h0] \in Seq(Buf) /\ IsInjective(chain[h0])
        /\ b0 \notin Range(chain[h0])
    BY <1>1 DEF On, ListInv, TypeControl
  <2> QED BY <1>1, <2>1, PushLemma DEF Cons
<1>4. /\ \A h \in Bucket : IsInjective(chain'[h])
      /\ \A h \in Bucket : \A b : On(b, h)' <=> On(b, h) \/ (h = h0 /\ b = b0)
  BY <1>1, <1>2, <1>3 DEF On, ListInv, TypeControl
<1>5. TypeControl'
  BY <1>1, <1>2, <1>3 DEF TypeControl, Labels
<1>6. TypeData'
  BY <1>2 DEF TypeData
<1>7. /\ \A q \in Proc : Own(q)' = Own(q) /\ Victim(q)' = Victim(q)
      /\ \A q \in Proc : q # p => pc'[q] = pc[q]
      /\ pc'[p] = "sleeplock"
  BY <1>1, <1>2 DEF Own, Victim, TypeControl
<1>8. LockInv'
  BY <1>1, <1>2, <1>7 DEF LockInv, Holds, TypeControl
<1>9. \A q \in Proc : q # p /\ pc[q] \in Carrying => buf[q] # b0
  BY <1>1 DEF ListInv
<1>10. LocalInv'
  <2>1. \A q \in Proc : pc[q] # "idle" =>
           Own(q) \in Bucket /\ Victim(q) \in Bucket
    BY BucketsInRange
  <2> QED BY <1>1, <1>2, <1>4, <1>7, <2>1 DEF LocalInv
<1>11. ListInv'
  BY <1>1, <1>2, <1>4, <1>7, <1>9 DEF ListInv
<1>12. HomeInv'
  <2>1. \A b \in Buf : block[b] \in Block => Hash(block[b]) \in Bucket
    BY HashInBucket, BlockAssumption
  <2>2. h0 = Hash(block[b0])
    BY <1>1 DEF Own
  <2> QED BY <1>1, <1>2, <1>4, <1>7, <2>1, <2>2 DEF HomeInv, Carried
<1>13. RefcntExact'
  <2>1. \A b \in Buf : Referers(b)' = Referers(b)
    BY <1>1, <1>2, <1>7 DEF Referers
  <2> QED BY <1>2, <2>1 DEF RefcntExact
<1> QED BY <1>5, <1>6, <1>8, <1>10, <1>11, <1>12, <1>13

(* bpin() and bunpin(): the count and the pins change by the same amount.  *)
LEMMA PinStep ==
  ASSUME IInv, NEW p \in Proc, Bpin(p) \/ Bunpin(p)
  PROVE  ShapeInv'
<1> DEFINE b0 == buf[p]
<1> USE NULLAssumption DEF IInv, ShapeInv, HasRef, Carrying
<1>1. pc[p] \in {"pin", "unpin"} /\ b0 \in Buf /\ refcnt[b0] # 0
  BY ReferencesCount DEF Bpin, Bunpin, InBucket, Goto
<1>2. /\ pc' = [pc EXCEPT ![p] = "using"]
      /\ UNCHANGED <<lock, chain, block, valid, data, slock, disk, want, i,
                     buf>>
  BY DEF Bpin, Bunpin, InBucket, Goto
<1>3. PICK d \in {-1, 1} :
        /\ refcnt' = [refcnt EXCEPT ![b0] = refcnt[b0] + d]
        /\ pins' = [pins EXCEPT ![b0] = pins[b0] + d]
        /\ d = -1 => pins[b0] # 0
  <2>1. \A n \in Nat : n - 1 = n + (-1)
    OBVIOUS
  <2>2. refcnt[b0] \in Nat /\ pins[b0] \in Nat
    BY <1>1 DEF TypeData
  <2>3. CASE Bpin(p)
    BY <2>3 DEF Bpin
  <2>4. CASE Bunpin(p)
    <3>1. pins[b0] # 0
      BY <2>4 DEF Bunpin, InBucket, Goto, SleepInv
    <3>2. /\ refcnt' = [refcnt EXCEPT ![b0] = refcnt[b0] - 1]
          /\ pins' = [pins EXCEPT ![b0] = pins[b0] - 1]
      BY <2>4 DEF Bunpin
    <3> QED BY <2>1, <2>2, <3>1, <3>2
  <2> QED BY <2>3, <2>4
<1>4. /\ refcnt \in [Buf -> Nat] /\ pins \in [Buf -> Nat]
      /\ refcnt[b0] \in Nat /\ pins[b0] \in Nat
  BY <1>1 DEF TypeData
<1>5. refcnt[b0] + d \in Nat /\ pins[b0] + d \in Nat
  BY <1>1, <1>3, <1>4
<1>6. \A b \in Buf : b # b0 => refcnt'[b] = refcnt[b] /\ pins'[b] = pins[b]
  BY <1>3, <1>4
<1>7. TypeControl'
  BY <1>2 DEF TypeControl, Labels
<1>8. TypeData'
  BY <1>1, <1>2, <1>3, <1>4, <1>5 DEF TypeData
<1>9. /\ \A q \in Proc : Own(q)' = Own(q) /\ Victim(q)' = Victim(q)
      /\ \A q \in Proc : q # p => pc'[q] = pc[q]
      /\ pc'[p] = "using"
      /\ \A b, h : On(b, h)' <=> On(b, h)
  BY <1>2 DEF Own, Victim, On, TypeControl
<1>10. LockInv'
  BY <1>1, <1>2, <1>9 DEF LockInv, Holds
<1>11. LocalInv'
  BY <1>1, <1>2, <1>6, <1>9 DEF LocalInv
<1>12. ListInv'
  BY <1>1, <1>2, <1>9 DEF ListInv
<1>13. HomeInv'
  BY <1>1, <1>2, <1>6, <1>9 DEF HomeInv, Carried
<1>14. RefcntExact'
  <2>1. \A b \in Buf :
          /\ Referers(b)' = Referers(b)
          /\ Cardinality(Referers(b)) \in Nat
    <3>1. \A b \in Buf : Referers(b) \in SUBSET Proc
      BY DEF Referers
    <3>2. \A b \in Buf : Referers(b)' = Referers(b)
      BY <1>1, <1>2, <1>9 DEF Referers
    <3> QED BY <3>1, <3>2, CountReferers
  <2>2. refcnt'[b0] = refcnt[b0] + d /\ pins'[b0] = pins[b0] + d
    BY <1>1, <1>3, <1>4
  <2>3. refcnt[b0] = Cardinality(Referers(b0)) + pins[b0]
    BY <1>1 DEF RefcntExact
  <2>4. refcnt'[b0] = Cardinality(Referers(b0)) + pins'[b0]
    BY <1>1, <1>3, <1>4, <2>1, <2>2, <2>3
  <2> QED BY <1>6, <2>1, <2>4 DEF RefcntExact
<1> QED BY <1>7, <1>8, <1>10, <1>11, <1>12, <1>13, <1>14

LEMMA BrelseRefStep ==
  ASSUME IInv, NEW p \in Proc, BrelseRef(p)
  PROVE  ShapeInv'
<1> USE NULLAssumption DEF IInv, ShapeInv, HasRef, Carrying
<1> PICK b0, h0 : b0 = buf[p] /\ h0 = Hash(block[b0])
  OBVIOUS
<1> DEFINE rest == RemoveFirst(chain[h0], b0)
<1>1. /\ pc[p] = "release" /\ b0 \in Buf /\ refcnt[b0] # 0
      /\ block[b0] = want[p] /\ want[p] \in Block /\ h0 \in Bucket
  BY ReferencesCount, BucketsInRange DEF BrelseRef, InBucket, Goto, LocalInv, Own
<1> num[p] = h0
  BY <1>1 DEF NumInv, Located, Own
<1>2. /\ pc' = [pc EXCEPT ![p] = "idle"]
      /\ lock[h0] = NULL
      /\ refcnt' = [refcnt EXCEPT ![b0] = refcnt[b0] - 1]
      /\ chain' = IF refcnt[b0] = 1
                  THEN [chain EXCEPT ![h0] = Cons(b0, rest)]
                  ELSE chain
      /\ want' = [want EXCEPT ![p] = NULL]
      /\ buf' = [buf EXCEPT ![p] = NULL]
      /\ UNCHANGED <<lock, block, valid, data, slock, disk, i, pins>>
  BY DEF BrelseRef, InBucket, Goto
<1>3. ~Carried(b0) /\ On(b0, h0)
  BY <1>1 DEF ListInv, HomeInv, Carried
<1>4. /\ rest \in Seq(Buf)
      /\ Range(rest) = Range(chain[h0]) \ {b0}
      /\ IsInjective(rest)
  BY <1>1, <1>3, UnlinkLemma DEF On, ListInv, TypeControl
<1>5. /\ Cons(b0, rest) \in Seq(Buf)
      /\ Range(Cons(b0, rest)) = Range(chain[h0])
      /\ IsInjective(Cons(b0, rest))
  <2> HIDE DEF rest
  <2>1. b0 \notin Range(rest) /\ {b0} \cup Range(rest) = Range(chain[h0])
    BY <1>3, <1>4 DEF On
  <2>2. /\ <<b0>> \o rest \in Seq(Buf)
        /\ Range(<<b0>> \o rest) = {b0} \cup Range(rest)
        /\ IsInjective(<<b0>> \o rest)
    BY <1>1, <1>4, <2>1, PushLemma
  <2> QED BY <2>1, <2>2 DEF Cons
<1> HIDE DEF rest
<1>6. /\ \A h \in Bucket : IsInjective(chain'[h])
      /\ \A h \in Bucket : \A b : On(b, h)' <=> On(b, h)
      /\ chain' \in [Bucket -> Seq(Buf)]
  BY <1>1, <1>2, <1>5 DEF On, ListInv, TypeControl
<1>7. TypeControl'
  BY <1>1, <1>2, <1>6 DEF TypeControl, Labels
<1>8. refcnt \in [Buf -> Nat] /\ refcnt[b0] - 1 \in Nat
  BY <1>1 DEF TypeData
<1>9. TypeData'
  BY <1>1, <1>2, <1>8 DEF TypeData
<1>10. /\ \A q \in Proc : q # p => Own(q)' = Own(q) /\ Victim(q)' = Victim(q)
       /\ \A q \in Proc : q # p => /\ pc'[q] = pc[q]
                                   /\ buf'[q] = buf[q]
                                   /\ want'[q] = want[q]
       /\ pc'[p] = "idle"
       /\ \A b \in Buf : b # b0 => refcnt'[b] = refcnt[b]
  BY <1>1, <1>2, <1>8 DEF Own, Victim, TypeControl
<1>11. LockInv'
  BY <1>1, <1>2, <1>10 DEF LockInv, Holds
<1>12. LocalInv'
  <2>1. \A q \in Proc : pc[q] # "idle" =>
           Own(q) \in Bucket /\ Victim(q) \in Bucket
    BY BucketsInRange
  <2> QED BY <1>1, <1>2, <1>6, <1>10, <2>1 DEF LocalInv
<1>13. ListInv'
  BY <1>1, <1>2, <1>6, <1>10 DEF ListInv
<1>14. HomeInv'
  <2>1. \A b \in Buf : block[b] \in Block => Hash(block[b]) \in Bucket
    BY HashInBucket, BlockAssumption
  <2>2. \A b \in Buf : Carried(b)' <=> Carried(b)
    BY <1>1, <1>2, <1>10 DEF Carried
  <2> QED BY <1>1, <1>2, <1>6, <2>1, <2>2 DEF HomeInv
<1>15. RefcntExact'
  <2>1. \A b \in Buf : b # b0 => Referers(b)' = Referers(b)
    BY <1>1, <1>2, <1>10 DEF Referers
  <2>2. Referers(b0)' = Referers(b0) \ {p}
    BY <1>1, <1>2, <1>10 DEF Referers
  <2>3. p \in Referers(b0) /\ Referers(b0) \in SUBSET Proc
    BY <1>1 DEF Referers
  <2>4. /\ Cardinality(Referers(b0)') = Cardinality(Referers(b0)) - 1
        /\ Cardinality(Referers(b0)) \in Nat
    BY <2>2, <2>3, CountReferers
  <2>5. refcnt'[b0] = refcnt[b0] - 1 /\ pins[b0] \in Nat
    BY <1>1, <1>2, <1>8 DEF TypeData
  <2>6. refcnt'[b0] = Cardinality(Referers(b0)') + pins[b0]
    BY <1>1, <2>4, <2>5 DEF RefcntExact
  <2> QED BY <1>1, <1>2, <1>10, <2>1, <2>6 DEF RefcntExact
<1> QED BY <1>7, <1>9, <1>11, <1>12, <1>13, <1>14, <1>15

LEMMA ClientStep ==
  ASSUME IInv, NEW p \in Proc,
         \/ BgetSleeplock(p) \/ Bread(p) \/ Bwrite(p) \/ Brelse(p)
         \/ BpinHash(p) \/ BunpinHash(p) \/ BrelseHash(p)
         \/ \E v \in Value : Modify(p, v)
  PROVE  ShapeInv'
<1>1. pc \in [Proc -> Labels] /\ slock \in [Buf -> Proc \cup {NULL}]
      /\ valid \in [Buf -> BOOLEAN] /\ data \in [Buf -> Value]
      /\ disk \in [Block -> Value]
      /\ (pc[p] \in HasRef =>
            buf[p] \in Buf /\ want[p] \in Block /\ block[buf[p]] = want[p])
  BY BucketsInRange DEF IInv, ShapeInv, TypeControl, TypeData, LocalInv, HasRef
<1>2. CASE BgetSleeplock(p)
  <2>1. pc[p] = "sleeplock" /\ pc' = [pc EXCEPT ![p] = "got"]
    BY <1>2 DEF BgetSleeplock, Goto
  <2>2. slock' \in [Buf -> Proc \cup {NULL}]
    BY <1>1, <1>2, <2>1 DEF BgetSleeplock, HasRef
  <2> QED BY <1>1, <1>2, <2>1, <2>2, QuietStep
             DEF BgetSleeplock, bufvars, HasRef, Carrying
<1>3. CASE Bread(p)
  <2>1. pc[p] = "got" /\ pc' = [pc EXCEPT ![p] = "using"]
    BY <1>3 DEF Bread, Goto
  <2>2. disk[block[buf[p]]] \in Value
    BY <1>1, <2>1 DEF HasRef
  <2>3. valid' \in [Buf -> BOOLEAN] /\ data' \in [Buf -> Value]
    BY <1>1, <1>3, <2>2 DEF Bread
  <2> QED BY <1>1, <1>3, <2>1, <2>3, QuietStep DEF Bread, HasRef, Carrying
<1>4. CASE Bwrite(p)
  <2>1. pc[p] = "using" /\ pc' = [pc EXCEPT ![p] = "using"]
    BY <1>1, <1>4 DEF Bwrite, procvars
  <2>2. data[buf[p]] \in Value
    BY <1>1, <2>1 DEF HasRef
  <2>3. disk' \in [Block -> Value]
    BY <1>1, <1>4, <2>2 DEF Bwrite
  <2> QED BY <1>1, <1>4, <2>1, <2>3, QuietStep
             DEF Bwrite, bufvars, procvars, HasRef, Carrying
<1>5. CASE Brelse(p)
  <2>1. pc[p] = "using" /\ pc' = [pc EXCEPT ![p] = "unlocked"]
    BY <1>5 DEF Brelse, Goto
  <2>2. slock' \in [Buf -> Proc \cup {NULL}]
    BY <1>1, <1>5 DEF Brelse
  <2> QED BY <1>1, <1>5, <2>1, <2>2, QuietStep
             DEF Brelse, bufvars, HasRef, Carrying
<1>6. CASE \E v \in Value : Modify(p, v)
  <2>1. PICK v \in Value : Modify(p, v)
    BY <1>6
  <2>2. pc[p] = "using" /\ pc' = [pc EXCEPT ![p] = "using"]
    BY <1>1, <2>1 DEF Modify, procvars
  <2>3. data' \in [Buf -> Value]
    BY <1>1, <2>1 DEF Modify
  <2> QED BY <1>1, <2>1, <2>2, <2>3, QuietStep
             DEF Modify, procvars, HasRef, Carrying
<1>7. ASSUME NEW from \in {"using", "unlocked"}, NEW to \in Located,
             FindBucket(p, from, to)
      PROVE  ShapeInv'
  BY <1>1, <1>7, QuietStep
     DEF FindBucket, Goto, bufvars, Located, HasRef, Carrying
<1>8. CASE BpinHash(p) \/ BunpinHash(p) \/ BrelseHash(p)
  BY <1>7, <1>8 DEF BpinHash, BunpinHash, BrelseHash, Located
<1> QED BY <1>2, <1>3, <1>4, <1>5, <1>6, <1>8

LEMMA InitIInv == Init => IInv
<1> SUFFICES ASSUME Init PROVE IInv
  OBVIOUS
<1> USE NULLAssumption DEF Init
<1>1. TypeControl
  BY InitialLists DEF TypeControl, Labels
<1>2. TypeData
  BY ValueAssumption DEF TypeData, Bucket
<1>3. LockInv
  BY DEF LockInv, Holds
<1>4. LocalInv
  BY DEF LocalInv, HasRef
<1>5. ListInv
  BY InitialLists DEF ListInv, Carrying
<1>6. HomeInv
  BY InitialLists, BlockAssumption DEF HomeInv
<1>7. RefcntExact
  <2>1. \A b \in Buf : Referers(b) = {}
    BY DEF Referers
  <2>2. \A b \in Buf : Cardinality(Referers(b)) = 0
    BY <2>1, FS_EmptySet
  <2>3. \A b \in Buf : refcnt[b] = 0 /\ pins[b] = 0
    OBVIOUS
  <2> QED BY <2>2, <2>3 DEF RefcntExact
<1>8. NumInv /\ SleepInv
  BY DEF NumInv, Located, Bucket, SleepInv, Locking
<1> QED BY <1>1, <1>2, <1>3, <1>4, <1>5, <1>6, <1>7, <1>8 DEF IInv, ShapeInv

LEMMA NextShape ==
  ASSUME IInv, [Next]_vars
  PROVE  ShapeInv'
<1>1. CASE Next
  <2>1. PICK p \in Proc :
          (\E n \in Block : BgetEnter(p, n)) \/ CallStep(p) \/ UserStep(p)
    BY <1>1 DEF Next
  <2>2. CASE \E n \in Block : BgetEnter(p, n)
    BY <2>2, EnterStep
  <2>3. CASE CallStep(p)
    <3>1. CASE BgetOwn(p)
      BY <3>1, OwnStep
    <3>2. CASE BgetHit(p)
      BY <3>2, HitStep
    <3>3. CASE BgetRecycle(p)
      BY <3>3, RecycleStep
    <3>4. CASE BgetOwnMiss(p)
      <4>1. pc[p] = "own_miss"
        BY <3>4 DEF BgetOwnMiss, TryNext, Goto
      <4>2. Own(p) \in Bucket
        BY <4>1, BucketsInRange
      <4> QED BY <3>4, <4>2, TryNextStep DEF BgetOwnMiss
    <3>5. CASE BgetVictim(p)
      BY <3>5, VictimStep
    <3>6. CASE BgetVictimMiss(p)
      <4>1. pc[p] = "victim_miss"
        BY <3>6 DEF BgetVictimMiss, TryNext, Goto
      <4>2. Victim(p) \in Bucket
        BY <4>1, BucketsInRange
      <4> QED BY <3>6, <4>2, TryNextStep DEF BgetVictimMiss
    <3>7. CASE BgetTake(p)
      BY <3>7, TakeStep
    <3>8. CASE BgetMove(p)
      BY <3>8, MoveStep
    <3>9. CASE BgetInsert(p)
      BY <3>9, InsertStep
    <3>10. CASE BgetSleeplock(p) \/ Bread(p)
      BY <3>10, ClientStep
    <3>11. CASE BrelseHash(p)
      BY <3>11, ClientStep
    <3>12. CASE BrelseRef(p)
      BY <3>12, BrelseRefStep
    <3>13. CASE Bpin(p) \/ Bunpin(p)
      BY <3>13, PinStep
    <3> QED BY <2>3, <3>1, <3>2, <3>3, <3>4, <3>5, <3>6, <3>7, <3>8, <3>9,
               <3>10, <3>11, <3>12, <3>13 DEF CallStep
  <2>4. CASE UserStep(p)
    BY <2>4, ClientStep DEF UserStep
  <2> QED BY <2>1, <2>2, <2>3, <2>4
<1>2. CASE UNCHANGED vars
  <2> USE <1>2 DEF vars, bufvars, procvars, IInv, ShapeInv
  <2>1. \A b, h : On(b, h)' <=> On(b, h)
    BY DEF On
  <2>2. \A q : Own(q)' = Own(q) /\ Victim(q)' = Victim(q)
    BY DEF Own, Victim
  <2>3. TypeControl' /\ TypeData'
    BY DEF TypeControl, TypeData
  <2>4. LockInv' /\ LocalInv'
    BY <2>1, <2>2 DEF LockInv, Holds, LocalInv
  <2>5. ListInv' /\ HomeInv'
    BY <2>1 DEF ListInv, HomeInv, Carried
  <2>6. RefcntExact'
    BY DEF RefcntExact, Referers
  <2> QED BY <2>3, <2>4, <2>5, <2>6
<1> QED BY <1>1, <1>2

(* Between its computation of the bucket and its use of it, a process has  *)
(* a reference to the buffer, so the bucket stays the buffer's.            *)
LEMMA NextNum ==
  ASSUME IInv, [Next]_vars
  PROVE  NumInv'
<1>1. /\ num \in [Proc -> Bucket]
      /\ \A q \in Proc : pc[q] \in Located => num[q] = Own(q)
      /\ pc \in [Proc -> Labels] /\ want \in [Proc -> Block \cup {NULL}]
      /\ 0 \in Bucket
  BY DEF IInv, ShapeInv, NumInv, TypeControl, Bucket
<1>2. CASE UNCHANGED vars
  BY <1>1, <1>2 DEF vars, procvars, NumInv, Own
<1>3. ASSUME NEW p \in Proc, NEW from \in {"using", "unlocked"},
             NEW to \in Located, FindBucket(p, from, to)
      PROVE  NumInv'
  <2>1. /\ pc[p] = from /\ pc' = [pc EXCEPT ![p] = to] /\ want' = want
        /\ num' = [num EXCEPT ![p] = Hash(block[buf[p]])]
    BY <1>3 DEF FindBucket, Goto
  <2>2. block[buf[p]] = want[p] /\ Own(p) \in Bucket
    BY <2>1, BucketsInRange DEF IInv, ShapeInv, LocalInv, HasRef
  <2>3. num' = [num EXCEPT ![p] = Own(p)] /\ \A q \in Proc : Own(q)' = Own(q)
    BY <2>1, <2>2 DEF Own
  <2> QED BY <1>1, <2>1, <2>2, <2>3 DEF NumInv
<1>4. ASSUME NEW p \in Proc,
             num' = num \/ num' = [num EXCEPT ![p] = 0],
             \A q \in Proc : q # p => pc'[q] = pc[q] /\ want'[q] = want[q],
             pc'[p] \notin Located \/ (pc'[p] = pc[p] /\ want'[p] = want[p] /\ num' = num)
      PROVE  NumInv'
  <2>1. \A q \in Proc : pc'[q] \in Located =>
          /\ pc[q] \in Located /\ num'[q] = num[q] /\ want'[q] = want[q]
    BY <1>1, <1>4
  <2>2. \A q \in Proc : pc'[q] \in Located => Own(q)' = Own(q)
    BY <2>1 DEF Own
  <2> QED BY <1>1, <1>4, <2>1, <2>2 DEF NumInv
<1>5. CASE Next
  <2>1. PICK p \in Proc :
          (\E n \in Block : BgetEnter(p, n)) \/ CallStep(p) \/ UserStep(p)
    BY <1>5 DEF Next
  <2>2. CASE BpinHash(p) \/ BunpinHash(p) \/ BrelseHash(p)
    BY <1>3, <2>2 DEF BpinHash, BunpinHash, BrelseHash, Located
  <2>3. CASE Bpin(p) \/ Bunpin(p) \/ BrelseRef(p)
    BY <1>1, <1>4, <2>3 DEF Bpin, Bunpin, BrelseRef, InBucket, Goto, Located
  <2>4. CASE (\E v \in Value : Modify(p, v)) \/ Bwrite(p)
    BY <1>4, <2>4 DEF Modify, Bwrite, procvars
  <2>5. CASE \/ \E n \in Block : BgetEnter(p, n)
             \/ BgetOwn(p) \/ BgetHit(p) \/ BgetRecycle(p) \/ BgetOwnMiss(p)
             \/ BgetVictim(p) \/ BgetVictimMiss(p)
             \/ BgetTake(p) \/ BgetMove(p) \/ BgetInsert(p)
             \/ BgetSleeplock(p) \/ Bread(p) \/ Brelse(p)
    BY <1>1, <1>4, <2>5
       DEF BgetEnter, BgetOwn, BgetHit, BgetRecycle, BgetOwnMiss, BgetVictim,
           BgetVictimMiss, BgetTake, BgetMove, BgetInsert, BgetSleeplock, Bread,
           Brelse, TryNext, Goto, Located
  <2> QED BY <2>1, <2>2, <2>3, <2>4, <2>5 DEF CallStep, UserStep
<1> QED BY <1>2, <1>5

(* A buffer has one user at a time, who alone pins and unpins it.          *)
LEMMA NextSleep ==
  ASSUME IInv, [Next]_vars
  PROVE  SleepInv'
<1>0. \A q \in Proc : pc[q] \in Locking => buf[q] \in Buf /\ slock[buf[q]] = q
  BY DEF IInv, ShapeInv, SleepInv, LocalInv, HasRef, Locking
<1>1. /\ \A q \in Proc : pc[q] = "unpin" => pc[q] \in Locking /\ pins[buf[q]] # 0
      /\ pc \in [Proc -> Labels] /\ buf \in [Proc -> Buf \cup {NULL}]
      /\ slock \in [Buf -> Proc \cup {NULL}] /\ pins \in [Buf -> Nat]
  BY DEF IInv, ShapeInv, SleepInv, TypeControl, TypeData, Locking
<1>2. CASE UNCHANGED vars
  BY <1>0, <1>1, <1>2 DEF vars, procvars, SleepInv
<1>3. ASSUME NEW p \in Proc,
             UNCHANGED <<slock, pins>>,
             \A q \in Proc : q # p => pc'[q] = pc[q] /\ buf'[q] = buf[q],
             pc'[p] \in Locking => pc[p] \in Locking /\ buf'[p] = buf[p],
             pc'[p] = "unpin" => pins[buf[p]] # 0
      PROVE  SleepInv'
  <2>1. \A q \in Proc : pc'[q] \in Locking => pc[q] \in Locking /\ buf'[q] = buf[q]
    BY <1>3
  <2>2. \A q \in Proc : pc'[q] = "unpin" =>
          pc'[q] \in Locking /\ pins[buf[q]] # 0
    BY <1>1, <1>3 DEF Locking
  <2>3. \A q \in Proc : pc'[q] \in Locking => slock'[buf'[q]] = q
    BY <1>0, <1>3, <2>1
  <2>4. \A q \in Proc : pc'[q] = "unpin" => pins'[buf'[q]] # 0
    BY <1>3, <2>1, <2>2
  <2> QED BY <2>3, <2>4 DEF SleepInv
<1>4. ASSUME NEW p \in Proc, Bpin(p) \/ Bunpin(p)
      PROVE  SleepInv'
  <2>1. /\ pc[p] \in {"pin", "unpin"} /\ pc' = [pc EXCEPT ![p] = "using"]
        /\ UNCHANGED <<slock, buf>>
    BY <1>4 DEF Bpin, Bunpin, InBucket, Goto
  <2>2. \A b \in Buf : b # buf[p] => pins'[b] = pins[b]
    BY <1>1, <1>4 DEF Bpin, Bunpin
  <2>3. p # NULL /\ pc[p] \in Locking
    BY <2>1, NULLAssumption DEF Locking
  <2>4. \A q \in Proc : q # p /\ pc[q] \in Locking => buf[q] # buf[p]
    BY <1>0, <2>3
  <2>5. \A q \in Proc : q # p => pc'[q] = pc[q]
    BY <1>1, <2>1
  <2>6. \A q \in Proc : pc'[q] \in Locking => pc[q] \in Locking
    BY <2>3, <2>5
  <2>7. \A q \in Proc : pc'[q] = "unpin" =>
          q # p /\ pc[q] = "unpin" /\ pc[q] \in Locking
    BY <1>1, <2>1, <2>5
  <2>8. \A q \in Proc : pc'[q] = "unpin" => pins'[buf[q]] # 0
    BY <1>0, <1>1, <2>2, <2>4, <2>7
  <2> QED BY <1>0, <2>1, <2>6, <2>8 DEF SleepInv
<1>5. ASSUME NEW p \in Proc, BgetSleeplock(p)
      PROVE  SleepInv'
  <2>1. /\ pc[p] = "sleeplock" /\ pc' = [pc EXCEPT ![p] = "got"]
        /\ slock[buf[p]] = NULL /\ slock' = [slock EXCEPT ![buf[p]] = p]
        /\ UNCHANGED <<pins, buf>>
    BY <1>5 DEF BgetSleeplock, Goto
  <2>2. buf[p] \in Buf
    BY <2>1 DEF IInv, ShapeInv, LocalInv, HasRef
  <2>3. \A q \in Proc : pc[q] \in Locking => buf[q] # buf[p]
    BY <1>0, <2>1, NULLAssumption
  <2>4. /\ \A q \in Proc : q # p => pc'[q] = pc[q]
        /\ pc'[p] = "got" /\ slock'[buf[p]] = p
        /\ \A b \in Buf : b # buf[p] => slock'[b] = slock[b]
    BY <1>1, <2>1, <2>2
  <2>5. \A q \in Proc : pc'[q] \in Locking => slock'[buf[q]] = q
    BY <1>0, <2>3, <2>4
  <2>6. \A q \in Proc : pc'[q] = "unpin" => pins[buf[q]] # 0
    BY <1>1, <2>4
  <2> QED BY <2>1, <2>5, <2>6 DEF SleepInv
<1>6. ASSUME NEW p \in Proc, Brelse(p)
      PROVE  SleepInv'
  <2>1. /\ pc[p] = "using" /\ pc' = [pc EXCEPT ![p] = "unlocked"]
        /\ slock' = [slock EXCEPT ![buf[p]] = NULL]
        /\ UNCHANGED <<pins, buf>>
    BY <1>6 DEF Brelse, Goto
  <2>2. pc[p] \in Locking
    BY <2>1 DEF Locking
  <2>3. \A q \in Proc : q # p /\ pc[q] \in Locking => buf[q] # buf[p]
    BY <1>0, <2>2
  <2>4. /\ \A q \in Proc : q # p => pc'[q] = pc[q]
        /\ pc'[p] = "unlocked"
        /\ \A b \in Buf : b # buf[p] => slock'[b] = slock[b]
    BY <1>0, <1>1, <2>1, <2>2
  <2>5. \A q \in Proc : pc'[q] \in Locking => q # p /\ pc[q] \in Locking
    BY <2>4 DEF Locking
  <2>6. \A q \in Proc : pc'[q] \in Locking => slock'[buf[q]] = q
    BY <1>0, <2>3, <2>4, <2>5
  <2>7. \A q \in Proc : pc'[q] = "unpin" => pins[buf[q]] # 0
    BY <1>1, <2>4
  <2> QED BY <2>1, <2>6, <2>7 DEF SleepInv
<1>7. CASE Next
  <2>1. PICK p \in Proc :
          (\E n \in Block : BgetEnter(p, n)) \/ CallStep(p) \/ UserStep(p)
    BY <1>7 DEF Next
  <2>2. CASE BpinHash(p) \/ BunpinHash(p) \/ BrelseHash(p)
    <3>1. /\ pc'[p] \in Locking => pc[p] = "using" /\ buf'[p] = buf[p]
          /\ pc'[p] = "unpin" => pc[p] = "using" /\ pins[buf[p]] > 0
          /\ \A q \in Proc : q # p => pc'[q] = pc[q] /\ buf'[q] = buf[q]
          /\ UNCHANGED <<slock, pins>>
      BY <1>1, <2>2
         DEF BpinHash, BunpinHash, BrelseHash, FindBucket, Goto, Locking
    <3>2. pc'[p] = "unpin" => pins[buf[p]] # 0
      BY <1>1, <3>1 DEF Locking
    <3> QED BY <1>3, <3>1, <3>2 DEF Locking
  <2>3. CASE BrelseRef(p)
    BY <1>1, <1>3, <2>3 DEF BrelseRef, InBucket, Goto, Locking
  <2>4. CASE (\E v \in Value : Modify(p, v)) \/ Bwrite(p)
    BY <1>3, <2>4 DEF Modify, Bwrite, procvars, Locking
  <2>5. CASE \/ \E n \in Block : BgetEnter(p, n)
             \/ BgetOwn(p) \/ BgetHit(p) \/ BgetRecycle(p) \/ BgetOwnMiss(p)
             \/ BgetVictim(p) \/ BgetVictimMiss(p)
             \/ BgetTake(p) \/ BgetMove(p) \/ BgetInsert(p) \/ Bread(p)
    BY <1>1, <1>3, <2>5
       DEF BgetEnter, BgetOwn, BgetHit, BgetRecycle, BgetOwnMiss, BgetVictim,
           BgetVictimMiss, BgetTake, BgetMove, BgetInsert, Bread, TryNext, Goto,
           Locking
  <2> QED BY <2>1, <2>2, <2>3, <2>4, <2>5, <1>4, <1>5, <1>6
          DEF CallStep, UserStep
<1> QED BY <1>2, <1>7

LEMMA NextIInv == IInv /\ [Next]_vars => IInv'
BY NextShape, NextNum, NextSleep DEF IInv

-----------------------------------------------------------------------------
(* The invariant holds in every reachable state.                           *)
THEOREM Invariance == Spec => []IInv
<1> QED BY InitIInv, NextIInv, PTL DEF Spec

(* Every variable has its type: the counts stay natural numbers, so no     *)
(* brelse() or bunpin() takes one below zero.                              *)
THEOREM TypeCorrectness == Spec => []TypeOK
<1>1. IInv => TypeOK
  BY DEF IInv, ShapeInv, NumInv, TypeControl, TypeData, TypeOK
<1> QED BY <1>1, Invariance, PTL

(* refcnt counts exactly the calls between bget() and brelse() and the     *)
(* pins, whatever the processes do at the same time.                       *)
THEOREM CountsExact == Spec => []RefcntExact
<1>1. IInv => RefcntExact
  BY DEF IInv, ShapeInv
<1> QED BY <1>1, Invariance, PTL

LEMMA IInvOnePlace == IInv => OnePlace
<1> SUFFICES ASSUME IInv, NEW b \in Buf
             PROVE  /\ Cardinality(Movers(b)) + Cardinality(Positions(b)) = 1
                    /\ refcnt[b] > 0 /\ Movers(b) = {}
                         => Contains(chain[Hash(block[b])], b)
  BY DEF OnePlace
<1>1. Movers(b) = {} <=> ~Carried(b)
  BY DEF Movers, Carried, Carrying
<1>2. \A h \in Bucket : chain[h] \in Seq(Buf) /\ IsInjective(chain[h])
  BY DEF IInv, ShapeInv, TypeControl, ListInv
<1>3. \A h \in Bucket : On(b, h) <=> \E k \in DOMAIN chain[h] : chain[h][k] = b
  BY DEF On, Range
<1>4. CASE Carried(b)
  <2>1. PICK p \in Proc : pc[p] \in Carrying /\ buf[p] = b
    BY <1>4 DEF Carried
  <2>2. Movers(b) = {p}
    BY <2>1 DEF Movers, IInv, ShapeInv, ListInv, Carrying, HasRef
  <2>3. \A h \in Bucket : ~On(b, h)
    BY <2>1 DEF IInv, ShapeInv, ListInv
  <2>4. Positions(b) = {}
    BY <1>3, <2>3 DEF Positions
  <2> QED BY <2>2, <2>4, FS_Singleton, FS_EmptySet
<1>5. CASE ~Carried(b)
  <2>1. PICK h \in Bucket : On(b, h)
    BY <1>5 DEF IInv, ShapeInv, HomeInv
  <2>2. PICK k \in DOMAIN chain[h] : chain[h][k] = b
    BY <1>3, <2>1
  <2>3. \A g \in Bucket : On(b, g) => g = h
    BY <2>1 DEF IInv, ShapeInv, ListInv
  <2>4. \A g \in Bucket : \A j \in DOMAIN chain[g] :
          chain[g][j] = b => g = h /\ j = k
    BY <1>2, <1>3, <2>2, <2>3 DEF IsInjective
  <2>5. Positions(b) = {<<h, k>>}
    BY <2>2, <2>4 DEF Positions
  <2>6. Movers(b) = {}
    BY <1>1, <1>5
  <2>7. Cardinality(Movers(b)) + Cardinality(Positions(b)) = 1
    <3>1. Cardinality(Positions(b)) = 1
      BY <2>5, FS_Singleton
    <3>2. Cardinality(Movers(b)) = 0
      BY <2>6, FS_EmptySet
    <3> QED BY <3>1, <3>2
  <2>8. ASSUME refcnt[b] > 0 PROVE Contains(chain[Hash(block[b])], b)
    <3>1. refcnt[b] # 0
      BY <2>8
    <3>2. On(b, Hash(block[b])) /\ Hash(block[b]) \in Bucket
      BY <1>5, <3>1, HashInBucket, BlockAssumption DEF IInv, ShapeInv, HomeInv
    <3>3. PICK j \in DOMAIN chain[Hash(block[b])] :
            chain[Hash(block[b])][j] = b
      BY <1>3, <3>2
    <3>4. DOMAIN chain[Hash(block[b])] = 1 .. Len(chain[Hash(block[b])])
      BY <1>2, <3>2
    <3> QED BY <3>3, <3>4 DEF Contains
  <2> QED BY <2>7, <2>8
<1> QED BY <1>4, <1>5

(* Every buffer is in exactly one place, and one that is counted is where  *)
(* the next bget(), bpin() or brelse() will look for it.                   *)
THEOREM BuffersInOnePlace == Spec => []OnePlace
<1> QED BY IInvOnePlace, Invariance, PTL

(* No step gives a buffer that is referenced or pinned to another block.   *)
THEOREM NothingStolen == Spec => NeverStolen
<1>1. ASSUME IInv, [Next]_vars, NEW b \in Buf, refcnt[b] > 0
      PROVE  block'[b] = block[b]
  <2>1. \A p \in Proc :
          pc[p] \in {"recycle", "take"} => buf[p] \in Buf /\ refcnt[buf[p]] = 0
    BY <1>1 DEF IInv, ShapeInv, LocalInv
  <2>2. block \in [Buf -> Block \cup {NULL}]
    BY <1>1 DEF IInv, ShapeInv, TypeControl
  <2>3. refcnt[b] # 0
    BY <1>1
  <2>4. CASE Next
    BY <2>1, <2>2, <2>3, <2>4
       DEF Next, CallStep, UserStep, BgetEnter, BgetOwn, BgetHit, BgetRecycle,
           BgetOwnMiss, BgetVictim, BgetVictimMiss, BgetTake, BgetMove,
           BgetInsert, BgetSleeplock, Bread, BrelseRef, Modify, Bwrite, Bpin,
           Bunpin, Brelse, BpinHash, BunpinHash, BrelseHash, FindBucket,
           Claim, Goto, bufvars
  <2> QED BY <1>1, <2>4 DEF vars, bufvars
<1>2. IInv /\ [Next]_vars =>
        \A b \in Buf : refcnt[b] > 0 => block'[b] = block[b]
  BY <1>1
<1> QED BY <1>2, Invariance, PTL DEF Spec, NeverStolen

-----------------------------------------------------------------------------
(* Processes that share no block.  Two that do can each get a buffer for   *)
(* it, and then neither of the following holds.                            *)
NoSharing ==
  \A p, q \in Proc : p # q => MayUse[p] \cap MayUse[q] = {}

(* Where bget() knows that the block is not in the cache.                  *)
Missed == {"own_miss", "victim", "victim_miss", "recycle", "take"}

(* A block has one buffer at most, and none while bget() is looking for    *)
(* one.                                                                    *)
CopyInv ==
  /\ \A a, b \in Buf : block[a] = block[b] /\ block[a] \in Block => a = b
  /\ \A p \in Proc, b \in Buf : pc[p] \in Missed => block[b] # want[p]

InUse(b) == \E p \in Proc : Using(p) /\ buf[p] = b

(* A buffer that differs from the disk is in use or pinned.                *)
DataInv ==
  /\ \A b \in Buf : valid[b] => block[b] \in Block
  /\ \A p \in Proc : Using(p) => valid[buf[p]]
  /\ \A b \in Buf :
       valid[b] /\ pins[b] = 0 /\ ~InUse(b) => data[b] = disk[block[b]]

PInv == IInv /\ CopyInv /\ DataInv

LEMMA OwnersDiffer ==
  ASSUME NoSharing, IInv, NEW p \in Proc, NEW q \in Proc,
         pc[p] # "idle", pc[q] # "idle", want[p] = want[q]
  PROVE  p = q
BY DEF NoSharing, IInv, ShapeInv, LocalInv

LEMMA CopyStep ==
  ASSUME NoSharing, PInv, Next
  PROVE  CopyInv'
<1> USE NULLAssumption DEF PInv
<1>1. /\ pc \in [Proc -> Labels]
      /\ want \in [Proc -> Block \cup {NULL}]
      /\ block \in [Buf -> Block \cup {NULL}]
  BY DEF IInv, ShapeInv, TypeControl
<1>2. \A q \in Proc : pc'[q] \in Missed =>
        /\ want'[q] = want[q]
        /\ pc[q] # "idle"
        /\ \A b \in Buf : block[b] # want[q]
  <2> SUFFICES ASSUME NEW q \in Proc, pc'[q] \in Missed
               PROVE  /\ want'[q] = want[q]
                      /\ pc[q] # "idle"
                      /\ \A b \in Buf : block[b] # want[q]
    OBVIOUS
  <2>1. CASE pc[q] \in Missed /\ want'[q] = want[q]
    BY <2>1 DEF CopyInv, Missed
  <2>2. CASE BgetOwn(q)
    <3>1. pc[q] = "own" /\ want' = want
      BY <2>2 DEF BgetOwn
    <3>2. want[q] \in Block /\ Own(q) \in Bucket
      BY <3>1, BucketsInRange
    <3>3. CachedAt(Own(q), want[q]) = 0
      BY <1>1, <2>2 DEF BgetOwn, Goto, Missed
    <3>4. ASSUME NEW b \in Buf, block[b] = want[q] PROVE FALSE
      <4>1. ~On(b, Own(q))
        BY <3>2, <3>3, <3>4, Searches
      <4>2. PICK r \in Proc : pc[r] \in Carrying /\ buf[r] = b
        BY <3>2, <3>4, <4>1 DEF IInv, ShapeInv, HomeInv, Carried, Own
      <4>3. want[r] = want[q]
        BY <3>4, <4>2 DEF IInv, ShapeInv, LocalInv, Carrying, HasRef
      <4>4. r = q
        BY <3>1, <4>2, <4>3, OwnersDiffer DEF Carrying
      <4> QED BY <3>1, <4>2, <4>4 DEF Carrying
    <3> QED BY <3>1, <3>4
  <2>3. (pc[q] \in Missed /\ want'[q] = want[q]) \/ BgetOwn(q)
    BY <1>1
       DEF Next, CallStep, UserStep, BgetEnter, BgetOwn, BgetHit, BgetRecycle,
           BgetOwnMiss, BgetVictim, BgetVictimMiss, BgetTake, BgetMove,
           BgetInsert, BgetSleeplock, Bread, BrelseRef, Modify, Bwrite, Bpin,
           Bunpin, Brelse, BpinHash, BunpinHash, BrelseHash, FindBucket,
           InBucket, TryNext, Goto, procvars, Missed
  <2> QED BY <2>1, <2>2, <2>3
<1>3. \/ block' = block
      \/ \E p \in Proc :
           /\ pc[p] \in {"recycle", "take"}
           /\ block' = [block EXCEPT ![buf[p]] = want[p]]
           /\ pc'[p] \notin Missed
  BY <1>1
     DEF Next, CallStep, UserStep, BgetEnter, BgetOwn, BgetHit, BgetRecycle,
         BgetOwnMiss, BgetVictim, BgetVictimMiss, BgetTake, BgetMove,
         BgetInsert, BgetSleeplock, Bread, BrelseRef, Modify, Bwrite, Bpin,
         Bunpin, Brelse, BpinHash, BunpinHash, BrelseHash, FindBucket, Claim,
         Goto, bufvars, Missed
<1>4. CASE block' = block
  BY <1>2, <1>4 DEF CopyInv
<1>5. ASSUME NEW p \in Proc, pc[p] \in {"recycle", "take"},
             block' = [block EXCEPT ![buf[p]] = want[p]], pc'[p] \notin Missed
      PROVE  CopyInv'
  <2>1. buf[p] \in Buf /\ want[p] \in Block
    BY <1>5, BucketsInRange DEF IInv, ShapeInv, LocalInv
  <2>2. \A b \in Buf : block[b] # want[p]
    BY <1>5 DEF CopyInv, Missed
  <2>3. \A a, b \in Buf :
          block'[a] = block'[b] /\ block'[a] \in Block => a = b
    BY <1>1, <1>5, <2>1, <2>2 DEF CopyInv
  <2>4. ASSUME NEW q \in Proc, NEW b \in Buf, pc'[q] \in Missed
        PROVE  block'[b] # want'[q]
    <3>1. want'[q] = want[q] /\ block[b] # want[q] /\ q # p /\ pc[q] # "idle"
      BY <1>2, <1>5, <2>4
    <3>2. want[q] # want[p]
      BY <1>5, <3>1, OwnersDiffer
    <3> QED BY <1>1, <1>5, <2>1, <3>1, <3>2
  <2> QED BY <2>3, <2>4 DEF CopyInv
<1> QED BY <1>3, <1>4, <1>5

(* A buffer that is about to get a new block is not used, and what it has  *)
(* is on the disk.                                                         *)
LEMMA ClaimedIsClean ==
  ASSUME PInv, NEW p \in Proc, pc[p] \in {"recycle", "take"}
  PROVE  /\ buf[p] \in Buf /\ want[p] \in Block
         /\ ~InUse(buf[p])
         /\ valid[buf[p]] => data[buf[p]] = disk[block[buf[p]]]
<1>1. buf[p] \in Buf /\ refcnt[buf[p]] = 0 /\ want[p] \in Block
  BY BucketsInRange DEF PInv, IInv, ShapeInv, LocalInv
<1>2. ~InUse(buf[p])
  BY <1>1, ReferencesCount DEF PInv, InUse, Using, HasRef
<1>3. pins[buf[p]] = 0
  <2>1. Cardinality(Referers(buf[p])) \in Nat
    <3>1. Referers(buf[p]) \in SUBSET Proc
      BY DEF Referers
    <3> QED BY <3>1, CountReferers
  <2>2. pins[buf[p]] \in Nat
    BY <1>1 DEF PInv, IInv, ShapeInv, TypeData
  <2> QED BY <1>1, <2>1, <2>2 DEF PInv, IInv, ShapeInv, RefcntExact
<1> QED BY <1>1, <1>2, <1>3 DEF PInv, DataInv

(* The steps that give a buffer a new block.                               *)
Claims(p) ==
  /\ pc[p] \in {"recycle", "take"}
  /\ block' = [block EXCEPT ![buf[p]] = want[p]]
  /\ valid' = [valid EXCEPT ![buf[p]] = FALSE]
  /\ UNCHANGED <<data, disk, pins, buf, want>>
  /\ \A q \in Proc : q # p => pc'[q] = pc[q]
  /\ ~Using(p)'

(* The steps that change neither the contents of a buffer, nor what it is  *)
(* for, nor who uses it.                                                   *)
Silent ==
  /\ UNCHANGED <<block, valid, data, disk, pins>>
  /\ \A q \in Proc : /\ Using(q)' <=> Using(q)
                     /\ Using(q) => buf'[q] = buf[q] /\ want'[q] = want[q]

(* Every step is of one of the kinds that matter to the contents.          *)
LEMMA StepKinds ==
  ASSUME PInv, Next
  PROVE  \/ Silent
         \/ \E p \in Proc :
              \/ Claims(p) \/ Bread(p) \/ Bwrite(p) \/ Bpin(p) \/ Bunpin(p)
              \/ Brelse(p) \/ \E v \in Value : Modify(p, v)
<1>1. pc \in [Proc -> Labels] /\ buf \in [Proc -> Buf \cup {NULL}]
      /\ want \in [Proc -> Block \cup {NULL}]
  BY DEF PInv, IInv, ShapeInv, TypeControl
<1>2. PICK p \in Proc :
        (\E n \in Block : BgetEnter(p, n)) \/ CallStep(p) \/ UserStep(p)
  BY DEF Next
<1>3. CASE BgetRecycle(p) \/ BgetTake(p)
  <2>1. Claims(p)
    BY <1>1, <1>3 DEF Claims, Using, BgetRecycle, BgetTake, Claim, Goto
  <2> QED BY <2>1
<1>4. CASE \/ \E n \in Block : BgetEnter(p, n)
           \/ BgetOwn(p) \/ BgetHit(p) \/ BgetOwnMiss(p) \/ BgetVictim(p)
           \/ BgetVictimMiss(p) \/ BgetMove(p) \/ BgetInsert(p)
           \/ BgetSleeplock(p) \/ BrelseRef(p)
           \/ BpinHash(p) \/ BunpinHash(p) \/ BrelseHash(p)
  <2>1. Silent
    BY <1>1, <1>4
       DEF Silent, Using, BpinHash, BunpinHash, BrelseHash, FindBucket, InBucket,
           BgetEnter, BgetOwn, BgetHit, BgetOwnMiss, BgetVictim,
           BgetVictimMiss, BgetMove, BgetInsert, BgetSleeplock, BrelseRef,
           TryNext, Goto, bufvars
  <2> QED BY <2>1
<1> QED BY <1>2, <1>3, <1>4 DEF CallStep, UserStep

LEMMA DataStep ==
  ASSUME NoSharing, PInv, Next
  PROVE  DataInv'
<1> USE NULLAssumption DEF PInv
<1>1. /\ pc \in [Proc -> Labels]
      /\ block \in [Buf -> Block \cup {NULL}]
      /\ valid \in [Buf -> BOOLEAN]
      /\ data \in [Buf -> Value]
      /\ disk \in [Block -> Value]
      /\ pins \in [Buf -> Nat]
  BY DEF IInv, ShapeInv, TypeControl, TypeData
<1>2. \A p \in Proc : pc[p] = "got" \/ Using(p) =>
        buf[p] \in Buf /\ want[p] \in Block /\ block[buf[p]] = want[p]
  BY BucketsInRange DEF IInv, ShapeInv, LocalInv, Using, HasRef
<1>3. CASE Silent
  <2>1. \A b : InUse(b)' <=> InUse(b)
    BY <1>3 DEF Silent, InUse
  <2> QED BY <1>3, <2>1 DEF Silent, DataInv
<1>4. ASSUME NEW p \in Proc, Claims(p)
      PROVE  DataInv'
  <2>1. buf[p] \in Buf /\ want[p] \in Block /\ ~InUse(buf[p])
    BY <1>4, ClaimedIsClean DEF Claims
  <2>2. \A b : InUse(b)' <=> InUse(b)
    BY <1>4 DEF Claims, InUse, Using
  <2>3. \A q \in Proc : Using(q)' => Using(q)
    BY <1>4 DEF Claims, Using
  <2> QED BY <1>1, <1>4, <2>1, <2>2, <2>3 DEF Claims, DataInv, InUse
<1>5. ASSUME NEW p \in Proc, Bread(p)
      PROVE  DataInv'
  <2>1. /\ pc[p] = "got" /\ pc' = [pc EXCEPT ![p] = "using"]
        /\ UNCHANGED <<block, disk, buf, pins>>
    BY <1>5 DEF Bread, Goto
  <2>2. /\ \A b : InUse(b)' <=> InUse(b) \/ b = buf[p]
        /\ \A q \in Proc : Using(q)' <=> Using(q) \/ q = p
    BY <1>1, <2>1 DEF InUse, Using
  <2>3. valid'[buf[p]] /\ \A b \in Buf : b # buf[p] =>
                             valid'[b] = valid[b] /\ data'[b] = data[b]
    BY <1>1, <1>2, <1>5, <2>1 DEF Bread
  <2> QED BY <1>1, <1>2, <2>1, <2>2, <2>3 DEF DataInv
<1>6. ASSUME NEW p \in Proc, Bwrite(p)
      PROVE  DataInv'
  <2>1. Using(p) /\ InUse(buf[p])
    BY <1>6 DEF Bwrite, InUse, Using
  <2>2. /\ \A b : InUse(b)' <=> InUse(b)
        /\ \A q \in Proc : Using(q)' <=> Using(q)
    BY <1>6 DEF Bwrite, procvars, InUse, Using
  <2>3. UNCHANGED <<block, valid, data, pins, pc, buf>>
    BY <1>6 DEF Bwrite, bufvars, procvars
  <2>4. \A b \in Buf : valid[b] /\ b # buf[p] => disk'[block[b]] = disk[block[b]]
    BY <1>1, <1>2, <1>6, <2>1 DEF Bwrite, DataInv, CopyInv
  <2> QED BY <2>1, <2>2, <2>3, <2>4 DEF DataInv
<1>7. ASSUME NEW p \in Proc,
             Bpin(p) \/ Bunpin(p) \/ \E v \in Value : Modify(p, v)
      PROVE  DataInv'
  <2>1. /\ pc[p] \in {"using", "pin", "unpin"}
        /\ pc' = pc \/ pc' = [pc EXCEPT ![p] = "using"]
        /\ UNCHANGED <<block, valid, disk, buf>>
    BY <1>7 DEF Bpin, Bunpin, Modify, InBucket, Goto, procvars
  <2>2. \A q \in Proc : Using(q)' <=> Using(q)
    BY <1>1, <2>1 DEF Using
  <2>3. InUse(buf[p]) /\ \A b : InUse(b)' <=> InUse(b)
    BY <2>1, <2>2 DEF InUse, Using
  <2>4. \A b \in Buf : b # buf[p] => data'[b] = data[b] /\ pins'[b] = pins[b]
    BY <1>1, <1>7 DEF Bpin, Bunpin, Modify
  <2> QED BY <2>1, <2>2, <2>3, <2>4 DEF DataInv
<1>8. ASSUME NEW p \in Proc, Brelse(p)
      PROVE  DataInv'
  <2>1. /\ pc[p] = "using" /\ pc' = [pc EXCEPT ![p] = "unlocked"]
        /\ data[buf[p]] = disk[block[buf[p]]] \/ pins[buf[p]] # 0
        /\ UNCHANGED <<block, valid, data, disk, buf, pins>>
    <3>1. pc[p] = "using"
      BY <1>8 DEF Brelse, Goto
    <3>2. pins[buf[p]] > 0 => pins[buf[p]] # 0
      BY <1>1, <1>2, <3>1 DEF Using
    <3> QED BY <1>8, <3>1, <3>2 DEF Brelse, Goto, bufvars
  <2>2. \A q \in Proc : Using(q)' <=> Using(q) /\ q # p
    BY <1>1, <2>1 DEF Using
  <2>3. \A b : b # buf[p] => (InUse(b)' <=> InUse(b))
    BY <2>1, <2>2 DEF InUse
  <2> QED BY <1>1, <1>2, <2>1, <2>2, <2>3 DEF DataInv, Using
<1> QED BY <1>3, <1>4, <1>5, <1>6, <1>7, <1>8, StepKinds

LEMMA InitPInv == Init => PInv
<1> SUFFICES ASSUME Init PROVE PInv
  OBVIOUS
<1>1. IInv
  BY InitIInv
<1>2. \A b \in Buf : block[b] = NULL /\ ~valid[b]
  BY DEF Init
<1>3. \A p \in Proc : pc[p] = "idle"
  BY DEF Init
<1>4. CopyInv
  BY <1>2, <1>3, NULLAssumption, BlockAssumption DEF CopyInv, Missed
<1>5. DataInv
  BY <1>2, <1>3 DEF DataInv, Using
<1> QED BY <1>1, <1>4, <1>5 DEF PInv

LEMMA NextPInv == NoSharing /\ PInv /\ [Next]_vars => PInv'
<1> SUFFICES ASSUME NoSharing, PInv, [Next]_vars PROVE PInv'
  OBVIOUS
<1>1. IInv'
  BY NextIInv DEF PInv
<1>2. CASE Next
  BY <1>1, <1>2, CopyStep, DataStep DEF PInv
<1>3. CASE UNCHANGED vars
  BY <1>1, <1>3
     DEF PInv, CopyInv, DataInv, InUse, Using, vars, bufvars, procvars
<1> QED BY <1>2, <1>3

LEMMA PrivateInvariance == ASSUME NoSharing PROVE Spec => []PInv
<1> QED BY InitPInv, NextPInv, NoSharing, PTL DEF Spec

LEMMA CleanWhenUnused == PInv => NoWriteLost
<1> SUFFICES ASSUME PInv, NEW b \in Buf, refcnt[b] = 0, valid[b]
             PROVE  data[b] = disk[block[b]]
  BY DEF NoWriteLost
<1>1. ~InUse(b)
  BY ReferencesCount DEF PInv, InUse, Using, HasRef
<1>2. pins[b] = 0
  <2>1. Cardinality(Referers(b)) \in Nat
    <3>1. Referers(b) \in SUBSET Proc
      BY DEF Referers
    <3> QED BY ProcAssumption, <3>1, FS_Subset, FS_CardinalityType
  <2>2. pins[b] \in Nat
    BY DEF PInv, IInv, ShapeInv, TypeData
  <2> QED BY <2>1, <2>2 DEF PInv, IInv, ShapeInv, RefcntExact
<1> QED BY <1>1, <1>2 DEF PInv, DataInv

(* When no two processes ask for the same block, recycling a buffer loses  *)
(* no write: what it had is on the disk.                                   *)
THEOREM WritesKept == ASSUME NoSharing PROVE Spec => []NoWriteLost
<1> QED BY CleanWhenUnused, PrivateInvariance, PTL

-----------------------------------------------------------------------------
(* The cache as a store of blocks.                                         *)

User == [p \in Proc |-> IF Using(p) THEN want[p] ELSE NULL]
Kept == [n \in Block |-> Contents(n)]

(* What a block contains, in terms of the one buffer it may have.          *)
Holding(n, v) ==
  \/ \E b \in Buf : valid[b] /\ block[b] = n /\ v = data[b]
  \/ (\A b \in Buf : valid[b] => block[b] # n) /\ v = disk[n]

LEMMA ContentsFound ==
  ASSUME CopyInv, NEW n \in Block, NEW v, Holding(n, v)
  PROVE  Contents(n) = v
<1> DEFINE copies == {b \in Buf : valid[b] /\ block[b] = n}
<1>1. CASE \E b \in Buf : valid[b] /\ block[b] = n /\ v = data[b]
  <2>1. PICK b \in Buf : valid[b] /\ block[b] = n /\ v = data[b]
    BY <1>1
  <2>2. copies = {b}
    BY <2>1 DEF CopyInv
  <2>3. (CHOOSE a \in copies : TRUE) = b
    BY <2>2
  <2> QED BY <2>1, <2>2, <2>3 DEF Contents
<1>2. CASE (\A b \in Buf : valid[b] => block[b] # n) /\ v = disk[n]
  <2>1. copies = {}
    BY <1>2
  <2> QED BY <1>2, <2>1 DEF Contents
<1> QED BY <1>1, <1>2 DEF Holding

(* The same of the next state.                                             *)
LEMMA ContentsFoundNext ==
  ASSUME CopyInv', NEW n \in Block, NEW v, Holding(n, v)'
  PROVE  Contents(n)' = v
<1> DEFINE copies == {b \in Buf : valid'[b] /\ block'[b] = n}
<1>1. CASE \E b \in Buf : valid'[b] /\ block'[b] = n /\ v = data'[b]
  <2>1. PICK b \in Buf : valid'[b] /\ block'[b] = n /\ v = data'[b]
    BY <1>1
  <2>2. copies = {b}
    BY <2>1 DEF CopyInv
  <2>3. (CHOOSE a \in copies : TRUE) = b
    BY <2>2
  <2> QED BY <2>1, <2>2, <2>3 DEF Contents
<1>2. CASE (\A b \in Buf : valid'[b] => block'[b] # n) /\ v = disk'[n]
  <2>1. copies = {}
    BY <1>2
  <2> QED BY <1>2, <2>1 DEF Contents
<1> QED BY <1>1, <1>2 DEF Holding

LEMMA ContentsDefined == \A n : \E v : Holding(n, v)
BY DEF Holding

(* A step that leaves a block with what it had leaves its contents.        *)
LEMMA SameContents ==
  ASSUME CopyInv, CopyInv', NEW n \in Block,
         \A v : Holding(n, v) => Holding(n, v)'
  PROVE  Contents(n)' = Contents(n)
BY ContentsDefined, ContentsFound, ContentsFoundNext

LEMMA InitRefines == Init => Store!Init
<1> SUFFICES ASSUME Init PROVE Store!Init
  OBVIOUS
<1>1. CopyInv
  BY InitPInv DEF PInv
<1>2. \A n \in Block : Contents(n) = 0
  <2> SUFFICES ASSUME NEW n \in Block PROVE Holding(n, 0)
    BY <1>1, ContentsFound
  <2> QED BY DEF Init, Holding
<1> QED BY <1>2 DEF Init, Using, Store!Init

LEMMA StepRefines ==
  ASSUME NoSharing, PInv, PInv', [Next]_vars
  PROVE  [Store!Next]_Store!avars
<1> USE NULLAssumption DEF PInv
<1>1. /\ pc \in [Proc -> Labels]
      /\ block \in [Buf -> Block \cup {NULL}]
      /\ valid \in [Buf -> BOOLEAN]
      /\ data \in [Buf -> Value]
      /\ disk \in [Block -> Value]
      /\ want \in [Proc -> Block \cup {NULL}]
  BY DEF IInv, ShapeInv, TypeControl, TypeData
<1>2. \A p \in Proc : pc[p] = "got" \/ Using(p) =>
        /\ buf[p] \in Buf /\ want[p] \in Block /\ want[p] # NULL
        /\ block[buf[p]] = want[p]
  BY BucketsInRange, BlockAssumption DEF IInv, ShapeInv, LocalInv, Using, HasRef
<1>3. SUFFICES Store!Next \/ (User' = User /\ Kept' = Kept)
  BY DEF Store!avars, User, Kept
<1>4. CASE Silent
  <2>1. User' = User
    BY <1>4 DEF Silent, User
  <2>2. Kept' = Kept
    BY <1>4 DEF Silent, Kept, Contents
  <2> QED BY <2>1, <2>2
<1>5. ASSUME NEW p \in Proc, Claims(p)
      PROVE  User' = User /\ Kept' = Kept
  <2>1. /\ buf[p] \in Buf /\ want[p] \in Block
        /\ valid[buf[p]] => data[buf[p]] = disk[block[buf[p]]]
    BY <1>5, ClaimedIsClean DEF Claims
  <2>2. ASSUME NEW n \in Block, NEW v, Holding(n, v)
        PROVE  Holding(n, v)'
    BY <1>1, <1>5, <2>1, <2>2 DEF Claims, Holding, CopyInv
  <2>3. User' = User
    BY <1>5 DEF Claims, User, Using
  <2> QED BY <2>2, <2>3, SameContents DEF Kept
<1>6. ASSUME NEW p \in Proc, Bread(p)
      PROVE  Store!Next
  <2> PICK n0 \in Block : n0 = want[p]
    BY <1>2, <1>6 DEF Bread, Goto
  <2>1. /\ pc[p] = "got" /\ pc' = [pc EXCEPT ![p] = "using"]
        /\ UNCHANGED <<block, disk, buf, want>>
    BY <1>6 DEF Bread, Goto
  <2>2. ASSUME NEW n \in Block, NEW v, Holding(n, v)
        PROVE  Holding(n, v)'
    BY <1>1, <1>2, <1>6, <2>1, <2>2 DEF Bread, Holding, CopyInv
  <2>3. Kept' = Kept
    BY <2>2, SameContents DEF Kept
  <2>4. /\ User[p] = NULL
        /\ \A q \in Proc : User[q] # n0
        /\ User' = [User EXCEPT ![p] = n0]
    <3>1. ASSUME NEW q \in Proc, Using(q) PROVE want[q] # n0
      BY <2>1, <3>1, OwnersDiffer DEF Using
    <3>2. \A q \in Proc : Using(q)' <=> Using(q) \/ q = p
      BY <1>1, <2>1 DEF Using
    <3>3. ~Using(p)
      BY <2>1 DEF Using
    <3> QED BY <1>1, <1>2, <2>1, <3>1, <3>2, <3>3 DEF User
  <2>5. Store!Obtain(p, n0)
    BY <2>3, <2>4 DEF Store!Obtain, User, Kept
  <2> QED BY <2>5 DEF Store!Next
<1>7. ASSUME NEW p \in Proc, Bwrite(p)
      PROVE  User' = User /\ Kept' = Kept
  <2>1. /\ Using(p) /\ valid[buf[p]]
        /\ UNCHANGED <<block, valid, data, pc, want>>
    BY <1>7 DEF Bwrite, bufvars, procvars, DataInv, Using
  <2>2. ASSUME NEW n \in Block, NEW v, Holding(n, v)
        PROVE  Holding(n, v)'
    BY <1>1, <1>2, <1>7, <2>1, <2>2 DEF Bwrite, Holding
  <2>3. User' = User
    BY <2>1 DEF User, Using
  <2> QED BY <2>2, <2>3, SameContents DEF Kept
<1>8. ASSUME NEW p \in Proc, Bpin(p) \/ Bunpin(p)
      PROVE  User' = User /\ Kept' = Kept
  <2>1. /\ pc[p] \in {"pin", "unpin"} /\ pc' = [pc EXCEPT ![p] = "using"]
        /\ UNCHANGED <<block, valid, data, disk, want>>
    BY <1>8 DEF Bpin, Bunpin, InBucket, Goto
  <2>2. \A q \in Proc : Using(q)' <=> Using(q)
    BY <1>1, <2>1 DEF Using
  <2> QED BY <2>1, <2>2 DEF User, Kept, Contents
<1>9. ASSUME NEW p \in Proc, Brelse(p)
      PROVE  Store!Next
  <2>1. /\ pc[p] = "using" /\ pc' = [pc EXCEPT ![p] = "unlocked"]
        /\ UNCHANGED <<block, valid, data, disk, want>>
    BY <1>9 DEF Brelse, Goto, bufvars
  <2>2. Kept' = Kept
    BY <2>1 DEF Kept, Contents
  <2>3. User[p] # NULL /\ User' = [User EXCEPT ![p] = NULL]
    <3>1. \A q \in Proc : Using(q)' <=> Using(q) /\ q # p
      BY <1>1, <2>1 DEF Using
    <3>2. Using(p)
      BY <2>1 DEF Using
    <3> QED BY <1>2, <2>1, <3>1, <3>2 DEF User
  <2>4. Store!GiveUp(p)
    BY <2>2, <2>3 DEF Store!GiveUp, User, Kept
  <2> QED BY <2>4 DEF Store!Next
<1>10. ASSUME NEW p \in Proc, NEW v \in Value, Modify(p, v)
       PROVE  Store!Next
  <2>1. /\ Using(p) /\ valid[buf[p]] /\ pc[p] = "using"
        /\ UNCHANGED <<block, valid, disk, pc, want>>
        /\ data' = [data EXCEPT ![buf[p]] = v]
    BY <1>10 DEF Modify, procvars, DataInv, Using
  <2>2. ASSUME NEW n \in Block, n # want[p], NEW w, Holding(n, w)
        PROVE  Holding(n, w)'
    BY <1>1, <1>2, <2>1, <2>2 DEF Holding
  <2>3. \A n \in Block : n # want[p] => Contents(n)' = Contents(n)
    BY <2>2, SameContents
  <2>4. Contents(want[p])' = v
    <3>1. PICK n0 \in Block : n0 = want[p] /\ want' = want
      BY <1>2, <2>1
    <3>2. Holding(n0, v)'
      BY <1>1, <1>2, <2>1, <3>1 DEF Holding
    <3>3. Contents(n0)' = v
      BY <3>2, ContentsFoundNext
    <3> QED BY <3>1, <3>3
  <2>5. User[p] = want[p] /\ User' = User
    BY <2>1 DEF User, Using
  <2>6. Kept' = [Kept EXCEPT ![User[p]] = v]
    BY <1>2, <2>1, <2>3, <2>4, <2>5 DEF Kept
  <2>7. Store!Change(p, v)
    BY <1>2, <2>1, <2>5, <2>6 DEF Store!Change, User, Kept
  <2> QED BY <2>7 DEF Store!Next
<1>11. CASE UNCHANGED vars
  BY <1>11 DEF vars, bufvars, procvars, User, Using, Kept, Contents
<1> QED BY <1>4, <1>5, <1>6, <1>7, <1>8, <1>9, <1>10, <1>11, StepKinds

(* When no two processes ask for the same block, the cache implements the  *)
(* store of blocks: hits, misses, recycling and the transfers to and from  *)
(* the disk do not show.                                                   *)
THEOREM Refinement == ASSUME NoSharing PROVE Spec => ImplementsBlockStore
<1>1. PInv /\ PInv' /\ [Next]_vars => [Store!Next]_Store!avars
  BY NoSharing, StepRefines
<1> QED BY <1>1, InitRefines, PrivateInvariance, PTL
           DEF Spec, Store!Spec, ImplementsBlockStore

-----------------------------------------------------------------------------
(* The least recently used buffer: the order of releases.                  *)

(* The order in a list that is pushed at its head.                         *)
LEMMA BeforeCons ==
  ASSUME NEW S, NEW s \in Seq(S), NEW e \in S
  PROVE  \A a, b : Before(Cons(e, s), a, b) <=> Before(s, a, b) \/ (a = e /\ b \in Range(s))
<1> DEFINE t == <<e>> \o s
<1>1. /\ Len(s) \in Nat
      /\ DOMAIN s = 1 .. Len(s)
      /\ DOMAIN t = 1 .. (Len(s) + 1)
      /\ t[1] = e
      /\ \A k \in 1 .. Len(s) : t[k + 1] = s[k]
  OBVIOUS
<1>2. Cons(e, s) = t
  BY DEF Cons
<1> HIDE DEF t
<1> SUFFICES ASSUME NEW a, NEW b
             PROVE  Before(t, a, b) <=> Before(s, a, b) \/ (a = e /\ b \in Range(s))
  BY <1>2
<1>3. ASSUME Before(t, a, b) PROVE Before(s, a, b) \/ (a = e /\ b \in Range(s))
  <2>1. PICK j \in 1 .. (Len(s) + 1), k \in 1 .. (Len(s) + 1) :
               j < k /\ t[j] = a /\ t[k] = b
    BY <1>1, <1>3 DEF Before
  <2>2. k - 1 \in 1 .. Len(s) /\ s[k - 1] = b
    <3>1. k - 1 \in 1 .. Len(s) /\ (k - 1) + 1 = k
      BY <1>1, <2>1
    <3> QED BY <1>1, <2>1, <3>1
  <2>3. CASE j = 1
    BY <1>1, <2>1, <2>2, <2>3 DEF Range
  <2>4. CASE j # 1
    <3>1. j - 1 \in 1 .. Len(s) /\ (j - 1) + 1 = j /\ j - 1 < k - 1
      BY <1>1, <2>1, <2>4
    <3>2. s[j - 1] = a
      BY <1>1, <2>1, <3>1
    <3> QED BY <1>1, <2>2, <3>1, <3>2 DEF Before
  <2> QED BY <2>3, <2>4
<1>4. ASSUME Before(s, a, b) PROVE Before(t, a, b)
  <2>1. PICK j \in 1 .. Len(s), k \in 1 .. Len(s) : j < k /\ s[j] = a /\ s[k] = b
    BY <1>1, <1>4 DEF Before
  <2>2. /\ j + 1 \in 1 .. (Len(s) + 1) /\ k + 1 \in 1 .. (Len(s) + 1) /\ j + 1 < k + 1
        /\ t[j + 1] = a /\ t[k + 1] = b
    BY <1>1, <2>1
  <2> QED BY <1>1, <2>2 DEF Before
<1>5. ASSUME b \in Range(s) PROVE Before(t, e, b)
  <2>1. PICK k \in 1 .. Len(s) : s[k] = b
    BY <1>1, <1>5 DEF Range
  <2>2. 1 \in 1 .. (Len(s) + 1) /\ k + 1 \in 1 .. (Len(s) + 1) /\ 1 < k + 1 /\ t[k + 1] = b
    BY <1>1, <2>1
  <2> QED BY <1>1, <2>2 DEF Before
<1> QED BY <1>3, <1>4, <1>5

(* The order in a list from which an element is unlinked.                  *)
LEMMA BeforeRemove ==
  ASSUME NEW S, NEW s \in Seq(S), NEW e \in Range(s), IsInjective(s)
  PROVE  \A a, b : Before(RemoveFirst(s, e), a, b) <=> Before(s, a, b) /\ a # e /\ b # e
<1>1. Len(s) \in Nat /\ DOMAIN s = 1 .. Len(s)
  OBVIOUS
<1>2. PICK at \in 1 .. Len(s) : s[at] = e /\ RemoveFirst(s, e) = RemoveAt(s, at)
  BY RemoveFirstLemma
<1>3. PICK t : t = RemoveAt(s, at)
  OBVIOUS
<1>4. /\ DOMAIN t = 1 .. (Len(s) - 1)
      /\ \A k \in 1 .. (Len(s) - 1) : t[k] = s[IF k < at THEN k ELSE k + 1]
  <2>1. t \in Seq(S) /\ Len(t) = Len(s) - 1
    BY <1>3, RemoveAtLemma
  <2> QED BY <1>3, <2>1, RemoveAtLemma
<1>5. \A k \in 1 .. Len(s) : k # at => s[k] # e
  BY <1>1, <1>2 DEF IsInjective
<1> SUFFICES ASSUME NEW a, NEW b
             PROVE  Before(t, a, b) <=> Before(s, a, b) /\ a # e /\ b # e
  BY <1>2, <1>3
<1>6. ASSUME Before(t, a, b) PROVE Before(s, a, b) /\ a # e /\ b # e
  <2>1. PICK j \in 1 .. (Len(s) - 1), k \in 1 .. (Len(s) - 1) :
               j < k /\ t[j] = a /\ t[k] = b
    BY <1>4, <1>6 DEF Before
  <2>2. PICK jj, kk : /\ jj = (IF j < at THEN j ELSE j + 1)
                      /\ kk = (IF k < at THEN k ELSE k + 1)
    OBVIOUS
  <2>3. /\ jj \in 1 .. Len(s) /\ kk \in 1 .. Len(s) /\ jj < kk /\ jj # at /\ kk # at
    BY <1>1, <1>2, <2>1, <2>2
  <2>4. s[jj] = a /\ s[kk] = b
    BY <1>4, <2>1, <2>2
  <2> QED BY <1>1, <1>5, <2>3, <2>4 DEF Before
<1>7. ASSUME Before(s, a, b), a # e, b # e PROVE Before(t, a, b)
  <2>1. PICK j \in 1 .. Len(s), k \in 1 .. Len(s) : j < k /\ s[j] = a /\ s[k] = b
    BY <1>1, <1>7 DEF Before
  <2>2. j # at /\ k # at
    BY <1>2, <1>7, <2>1
  <2>3. PICK jj, kk : /\ jj = (IF j < at THEN j ELSE j - 1)
                      /\ kk = (IF k < at THEN k ELSE k - 1)
    OBVIOUS
  <2>4. /\ jj \in 1 .. (Len(s) - 1) /\ kk \in 1 .. (Len(s) - 1) /\ jj < kk
        /\ j = (IF jj < at THEN jj ELSE jj + 1) /\ k = (IF kk < at THEN kk ELSE kk + 1)
    BY <1>1, <1>2, <2>1, <2>2, <2>3
  <2>5. t[jj] = a /\ t[kk] = b
    BY <1>4, <2>1, <2>4
  <2> QED BY <1>4, <2>4, <2>5 DEF Before
<1> QED BY <1>6, <1>7

(* An element that moves to the head.                                      *)
LEMMA BeforeFront ==
  ASSUME NEW S, NEW s \in Seq(S), NEW e \in Range(s), IsInjective(s)
  PROVE  /\ Cons(e, RemoveFirst(s, e)) \in Seq(S)
         /\ Range(Cons(e, RemoveFirst(s, e))) = Range(s)
         /\ IsInjective(Cons(e, RemoveFirst(s, e)))
         /\ \A a, b : Before(Cons(e, RemoveFirst(s, e)), a, b)
                        <=> b # e /\ IF a = e THEN b \in Range(s) ELSE Before(s, a, b)
<1>1. e \in S
  BY DEF Range
<1>2. PICK r : r = RemoveFirst(s, e)
  OBVIOUS
<1>3. r \in Seq(S) /\ Range(r) = Range(s) \ {e} /\ IsInjective(r)
  BY <1>2, UnlinkLemma
<1>4. \A a, b : Before(r, a, b) <=> Before(s, a, b) /\ a # e /\ b # e
  BY <1>2, BeforeRemove
<1>5. \A a, b : Before(Cons(e, r), a, b) <=> Before(r, a, b) \/ (a = e /\ b \in Range(r))
  BY <1>1, <1>3, BeforeCons
<1>6. Cons(e, r) \in Seq(S) /\ Range(Cons(e, r)) = {e} \cup Range(r) /\ IsInjective(Cons(e, r))
  <2>1. e \notin Range(r)
    BY <1>3
  <2> QED BY <1>1, <1>3, <2>1, PushLemma DEF Cons
<1>7. {e} \cup Range(r) = Range(s)
  BY <1>3
<1>8. \A a, b : Before(Cons(e, r), a, b)
                  <=> b # e /\ IF a = e THEN b \in Range(s) ELSE Before(s, a, b)
  BY <1>3, <1>4, <1>5
<1> QED BY <1>2, <1>6, <1>7, <1>8

(* Every buffer is in the order of releases, once.                         *)
RecentInv ==
  /\ recent \in Seq(Buf)
  /\ IsInjective(recent)
  /\ \A b \in Buf : b \in Range(recent)

(* On every list the unused buffers are in the order of their releases.    *)
OrderInv ==
  \A h \in Bucket, a, b \in Buf :
    refcnt[a] = 0 /\ refcnt[b] = 0 /\ Before(chain[h], a, b) => Before(recent, a, b)

RInv == IInv /\ RecentInv /\ OrderInv /\ RecyclesLRU

(* p recycles a buffer of its bucket, which it has locked, in both states. *)
StillRecycles(p) ==
  /\ pc[p] = "recycle"
  /\ Own(p)' = Own(p) /\ buf'[p] = buf[p]
  /\ \A b : On(b, Own(p))' => On(b, Own(p))

(* A step that releases no buffer and does not change the order of unused  *)
(* ones.                                                                   *)
Calm ==
  /\ \A b \in Buf : refcnt'[b] = 0 => refcnt[b] = 0
  /\ \A h \in Bucket, a, b \in Buf :
       refcnt'[a] = 0 /\ Before(chain'[h], a, b) => Before(chain[h], a, b)
  /\ \A p \in Proc : pc'[p] = "recycle" => StillRecycles(p) \/ BgetOwn(p)

(* A step of q that takes no other process to or from "recycle", and no    *)
(* buffer to another place or to no users.                                 *)
LEMMA PlainStep ==
  ASSUME IInv, NEW q \in Proc,
         \A p \in Proc : p # q => pc'[p] = pc[p] /\ want'[p] = want[p] /\ buf'[p] = buf[p],
         pc'[q] # "recycle" \/ BgetOwn(q),
         \A b \in Buf : refcnt'[b] = 0 => refcnt[b] = 0,
         chain' = chain
  PROVE  Calm
<1>1. \A p \in Proc : p # q => Own(p)' = Own(p)
  BY DEF Own
<1>2. \A b, h : On(b, h)' <=> On(b, h)
  BY DEF On
<1>3. \A p \in Proc : p # q /\ pc'[p] = "recycle" => StillRecycles(p)
  BY <1>1, <1>2 DEF StillRecycles
<1> QED BY <1>3 DEF Calm

(* bunpin() leaves the reference of its caller.                            *)
LEMMA UnpinKeeps ==
  ASSUME IInv, NEW p \in Proc, Bunpin(p)
  PROVE  \A b \in Buf : refcnt'[b] = 0 => refcnt[b] = 0
<1>1. pc[p] = "unpin" /\ buf[p] \in Buf
  BY DEF Bunpin, InBucket, Goto, IInv, ShapeInv, LocalInv, HasRef
<1>2. PICK c \in Buf : c = buf[p]
  BY <1>1
<1>3. /\ refcnt \in [Buf -> Nat] /\ refcnt[c] \in Nat /\ pins[c] \in Nat /\ pins[c] > 0
      /\ refcnt' = [refcnt EXCEPT ![c] = refcnt[c] - 1]
  <2>1. refcnt \in [Buf -> Nat] /\ pins \in [Buf -> Nat]
    BY DEF IInv, ShapeInv, TypeData
  <2>2. pins[c] # 0
    BY <1>1, <1>2 DEF IInv, SleepInv
  <2>3. refcnt' = [refcnt EXCEPT ![c] = refcnt[c] - 1]
    BY <1>2 DEF Bunpin
  <2> QED BY <2>1, <2>2, <2>3
<1>4. p \in Referers(c) /\ Referers(c) \in SUBSET Proc
  BY <1>1, <1>2 DEF Referers
<1>5. Cardinality(Referers(c)) \in Nat /\ Cardinality(Referers(c)) > 0
  BY <1>4, CountReferers
<1>6. refcnt[c] = Cardinality(Referers(c)) + pins[c]
  BY DEF IInv, ShapeInv, RefcntExact
<1>7. refcnt[c] - 1 # 0
  BY <1>3, <1>5, <1>6
<1> QED BY <1>3, <1>7

(* A step that does not drop the last reference of a buffer is calm.       *)
LEMMA CalmStep ==
  ASSUME IInv, Next
  PROVE  Calm \/ \E q \in Proc : BrelseRef(q) /\ refcnt[buf[q]] = 1
<1>1. PICK q \in Proc :
        (\E n \in Block : BgetEnter(q, n)) \/ CallStep(q) \/ UserStep(q)
  BY DEF Next
<1>2. /\ pc \in [Proc -> Labels] /\ want \in [Proc -> Block \cup {NULL}]
      /\ buf \in [Proc -> Buf \cup {NULL}] /\ refcnt \in [Buf -> Nat]
      /\ chain \in [Bucket -> Seq(Buf)]
  BY DEF IInv, ShapeInv, TypeControl, TypeData
<1>3. CASE \/ \E n \in Block : BgetEnter(q, n)
           \/ BgetOwn(q) \/ BgetOwnMiss(q) \/ BgetVictim(q) \/ BgetVictimMiss(q)
           \/ BgetMove(q) \/ BgetSleeplock(q) \/ Bread(q)
           \/ (\E v \in Value : Modify(q, v)) \/ Bwrite(q) \/ Brelse(q)
           \/ BpinHash(q) \/ BunpinHash(q) \/ BrelseHash(q)
  <2>1. refcnt' = refcnt /\ chain' = chain
    BY <1>3 DEF BpinHash, BunpinHash, BrelseHash, FindBucket, BgetEnter,
                BgetOwn, BgetOwnMiss, BgetVictim, BgetVictimMiss,
                BgetMove, BgetSleeplock, Bread, Modify, Bwrite, Brelse, TryNext,
                bufvars
  <2>2. /\ \A p \in Proc : p # q => pc'[p] = pc[p] /\ want'[p] = want[p] /\ buf'[p] = buf[p]
        /\ pc'[q] # "recycle" \/ BgetOwn(q)
    BY <1>2, <1>3
       DEF BgetEnter, BgetOwn, BgetOwnMiss, BgetVictim, BgetVictimMiss, BgetMove,
           BgetSleeplock, Bread, Modify, Bwrite, Brelse, BpinHash, BunpinHash,
           BrelseHash, FindBucket, TryNext, Goto, procvars
  <2> QED BY <2>1, <2>2, PlainStep
<1>4. CASE BgetHit(q)
  <2>1. buf[q] \in Buf
    BY <1>4 DEF IInv, ShapeInv, LocalInv, BgetHit, Goto
  <2>2. chain' = chain /\ \A b \in Buf : refcnt'[b] = 0 => refcnt[b] = 0
    BY <1>2, <1>4, <2>1 DEF BgetHit
  <2>3. /\ \A p \in Proc : p # q => pc'[p] = pc[p] /\ want'[p] = want[p] /\ buf'[p] = buf[p]
        /\ pc'[q] # "recycle"
    BY <1>2, <1>4 DEF BgetHit, Goto
  <2> QED BY <2>2, <2>3, PlainStep
<1>5. CASE BgetRecycle(q)
  <2>1. chain' = chain /\ \A b \in Buf : refcnt'[b] = 0 => refcnt[b] = 0
    BY <1>2, <1>5 DEF BgetRecycle, Claim
  <2>2. /\ \A p \in Proc : p # q => pc'[p] = pc[p] /\ want'[p] = want[p] /\ buf'[p] = buf[p]
        /\ pc'[q] # "recycle"
    BY <1>2, <1>5 DEF BgetRecycle, Goto
  <2> QED BY <2>1, <2>2, PlainStep
<1>6. CASE Bpin(q) \/ Bunpin(q)
  <2>1. buf[q] \in Buf
    BY <1>6 DEF IInv, ShapeInv, LocalInv, Bpin, Bunpin, InBucket, Goto, HasRef
  <2>2. CASE Bpin(q)
    <3>1. chain' = chain /\ \A b \in Buf : refcnt'[b] = 0 => refcnt[b] = 0
      BY <1>2, <2>1, <2>2 DEF Bpin
    <3>2. /\ \A p \in Proc : p # q => pc'[p] = pc[p] /\ want'[p] = want[p] /\ buf'[p] = buf[p]
          /\ pc'[q] # "recycle"
      BY <1>2, <2>2 DEF Bpin, InBucket, Goto
    <3> QED BY <3>1, <3>2, PlainStep
  <2>3. CASE Bunpin(q)
    <3>1. chain' = chain /\ \A b \in Buf : refcnt'[b] = 0 => refcnt[b] = 0
      BY <2>3, UnpinKeeps DEF Bunpin
    <3>2. /\ \A p \in Proc : p # q => pc'[p] = pc[p] /\ want'[p] = want[p] /\ buf'[p] = buf[p]
          /\ pc'[q] # "recycle"
      BY <1>2, <2>3 DEF Bunpin, InBucket, Goto
    <3> QED BY <3>1, <3>2, PlainStep
  <2> QED BY <1>6, <2>2, <2>3
<1>7. CASE BgetTake(q)
  <2>1. pc[q] = "take" /\ buf[q] \in Buf /\ Victim(q) \in Bucket /\ On(buf[q], Victim(q))
    BY <1>7, BucketsInRange DEF IInv, ShapeInv, LocalInv, BgetTake, Goto
  <2>2. PICK v \in Bucket, c \in Buf : v = Victim(q) /\ c = buf[q]
    BY <2>1
  <2>3. PICK r : r = RemoveFirst(chain[v], c)
    OBVIOUS
  <2>4. Range(r) = Range(chain[v]) \ {c}
        /\ \A a, b : Before(r, a, b) => Before(chain[v], a, b)
    BY <1>2, <2>1, <2>2, <2>3, UnlinkLemma, BeforeRemove DEF IInv, ShapeInv, ListInv, On
  <2>5. \A h \in Bucket : chain'[h] = IF h = v THEN r ELSE chain[h]
    BY <1>2, <1>7, <2>2, <2>3 DEF BgetTake
  <2>6. \A h \in Bucket, a, b \in Buf : Before(chain'[h], a, b) => Before(chain[h], a, b)
    BY <2>4, <2>5
  <2>7. \A b \in Buf : refcnt'[b] = 0 => refcnt[b] = 0
    BY <1>2, <1>7 DEF BgetTake, Claim
  <2>8. /\ \A p \in Proc : p # q => pc'[p] = pc[p] /\ want'[p] = want[p] /\ buf'[p] = buf[p]
        /\ pc'[q] # "recycle"
    BY <1>2, <1>7 DEF BgetTake, Goto
  <2>9. \A p \in Proc : pc'[p] = "recycle" => StillRecycles(p)
    <3> SUFFICES ASSUME NEW p \in Proc, pc'[p] = "recycle" PROVE StillRecycles(p)
      OBVIOUS
    <3>1. p # q /\ pc[p] = "recycle" /\ Own(p)' = Own(p) /\ buf'[p] = buf[p]
      BY <2>8 DEF Own
    <3>2. Own(p) \in Bucket
      BY <3>1, BucketsInRange
    <3>3. \A b : b \in Range(chain'[Own(p)]) => b \in Range(chain[Own(p)])
      BY <2>4, <2>5, <3>2
    <3>4. \A b : On(b, Own(p))' => On(b, Own(p))
      BY <3>1, <3>3 DEF On
    <3> QED BY <3>1, <3>4 DEF StillRecycles
  <2> QED BY <2>6, <2>7, <2>9 DEF Calm
<1>8. CASE BgetInsert(q)
  <2>1. pc[q] = "insert" /\ buf[q] \in Buf /\ Own(q) \in Bucket /\ refcnt[buf[q]] # 0
    BY <1>8, BucketsInRange, ReferencesCount DEF BgetInsert, Goto, HasRef
  <2>2. PICK v \in Bucket, c \in Buf : v = Own(q) /\ c = buf[q]
    BY <2>1
  <2>3. PICK r : r = Cons(c, chain[v])
    OBVIOUS
  <2>4. \A a, b : Before(r, a, b) => Before(chain[v], a, b) \/ a = c
    BY <1>2, <2>3, BeforeCons
  <2>5. /\ \A h \in Bucket : chain'[h] = IF h = v THEN r ELSE chain[h]
        /\ refcnt' = refcnt
    BY <1>2, <1>8, <2>2, <2>3 DEF BgetInsert, bufvars
  <2>6. \A h \in Bucket, a, b \in Buf :
          refcnt'[a] = 0 /\ Before(chain'[h], a, b) => Before(chain[h], a, b)
    BY <2>1, <2>2, <2>4, <2>5
  <2>7. /\ \A p \in Proc : p # q => pc'[p] = pc[p] /\ want'[p] = want[p] /\ buf'[p] = buf[p]
        /\ pc'[q] # "recycle"
    BY <1>2, <1>8 DEF BgetInsert, Goto
  <2>8. \A p \in Proc : pc'[p] = "recycle" => StillRecycles(p)
    <3> SUFFICES ASSUME NEW p \in Proc, pc'[p] = "recycle" PROVE StillRecycles(p)
      OBVIOUS
    <3>1. p # q /\ pc[p] = "recycle" /\ Own(p)' = Own(p) /\ buf'[p] = buf[p]
      BY <2>7 DEF Own
    <3>2. Own(p) \in Bucket
      BY <3>1, BucketsInRange
    <3>3. Own(p) # v
      <4>1. lock[Own(p)] = p
        BY <3>1, <3>2 DEF IInv, ShapeInv, LockInv, Holds
      <4>2. lock[v] = q
        BY <2>1, <2>2 DEF IInv, ShapeInv, LockInv, Holds
      <4> QED BY <3>1, <4>1, <4>2
    <3>4. chain'[Own(p)] = chain[Own(p)]
      BY <2>5, <3>2, <3>3
    <3>5. \A b : On(b, Own(p))' => On(b, Own(p))
      BY <3>1, <3>4 DEF On
    <3> QED BY <3>1, <3>5 DEF StillRecycles
  <2> QED BY <2>5, <2>6, <2>8 DEF Calm
<1>9. CASE BrelseRef(q) /\ refcnt[buf[q]] # 1
  <2>1. buf[q] \in Buf /\ refcnt[buf[q]] # 0 /\ refcnt[buf[q]] \in Nat
    BY <1>2, <1>9, ReferencesCount DEF BrelseRef, InBucket, Goto, HasRef
  <2>2. PICK c \in Buf : c = buf[q]
    BY <2>1
  <2>3. refcnt' = [refcnt EXCEPT ![c] = refcnt[c] - 1]
    BY <1>9, <2>2 DEF BrelseRef
  <2>4. refcnt[c] # 1
    BY <1>9, <2>2
  <2>5. chain' = chain
    BY <1>9, <2>2, <2>4 DEF BrelseRef
  <2>6. refcnt[c] - 1 # 0
    BY <2>1, <2>2, <2>4
  <2>7. \A b \in Buf : refcnt'[b] = 0 => refcnt[b] = 0
    BY <1>2, <2>3, <2>6
  <2>8. /\ \A p \in Proc : p # q => pc'[p] = pc[p] /\ want'[p] = want[p] /\ buf'[p] = buf[p]
        /\ pc'[q] # "recycle"
    BY <1>2, <1>9 DEF BrelseRef, InBucket, Goto
  <2> QED BY <2>5, <2>7, <2>8, PlainStep
<1> QED BY <1>1, <1>3, <1>4, <1>5, <1>6, <1>7, <1>8, <1>9 DEF CallStep, UserStep

(* bget() takes the last unused buffer of the list.                        *)
LEMMA LastIsLast ==
  ASSUME IInv, NEW h \in Bucket, LastUnused(h) # 0
  PROVE  /\ LastUnused(h) \in DOMAIN chain[h]
         /\ \A k \in DOMAIN chain[h] : refcnt[chain[h][k]] = 0 => k <= LastUnused(h)
<1> DEFINE s == chain[h]
           N == 1 .. Len(s)
           U == {k \in N : refcnt[s[k]] = 0}
<1>1. /\ Len(s) \in Nat /\ DOMAIN s = N
      /\ U \in SUBSET (0 .. Len(s))
  BY DEF IInv, ShapeInv, TypeControl
<1>2. LastUnused(h) = IF U # {} THEN Max(U) ELSE 0
  BY DEF LastUnused, SelectLastInSeq
<1>3. U # {}
  BY <1>2
<1>4. Max(U) \in U /\ \A k \in U : k <= Max(U)
  BY <1>1, <1>3, MaxIsGreatest
<1>5. LastUnused(h) = Max(U)
  BY <1>2, <1>3
<1> QED BY <1>1, <1>4, <1>5

(* It is the one released longest ago.                                     *)
LEMMA OwnTakesOldest ==
  ASSUME RInv, NEW p \in Proc, BgetOwn(p), pc'[p] = "recycle"
  PROVE  /\ Own(p)' = Own(p) /\ chain' = chain /\ refcnt' = refcnt
         /\ \A b \in Range(chain[Own(p)]) :
              refcnt[b] = 0 => b = buf'[p] \/ Before(recent, b, buf'[p])
<1>1. IInv /\ OrderInv /\ pc[p] = "own" /\ pc[p] # "idle"
  BY DEF RInv, BgetOwn
<1>2. PICK h \in Bucket : h = Own(p)
  BY <1>1, BucketsInRange
<1>3. /\ pc \in [Proc -> Labels] /\ buf \in [Proc -> Buf \cup {NULL}]
      /\ chain[h] \in Seq(Buf)
  BY <1>1 DEF IInv, ShapeInv, TypeControl
<1>4. LastUnused(h) # 0 /\ buf' = [buf EXCEPT ![p] = chain[h][LastUnused(h)]]
  BY <1>2, <1>3 DEF BgetOwn, Goto
<1>5. /\ LastUnused(h) \in DOMAIN chain[h]
      /\ \A k \in DOMAIN chain[h] : refcnt[chain[h][k]] = 0 => k <= LastUnused(h)
      /\ chain[h][LastUnused(h)] \in Buf /\ refcnt[chain[h][LastUnused(h)]] = 0
  BY <1>1, <1>4, LastIsLast, Searches
<1>6. PICK last \in DOMAIN chain[h] : last = LastUnused(h)
  BY <1>5
<1>7. buf'[p] = chain[h][last]
  BY <1>3, <1>4, <1>6
<1>8. ASSUME NEW b \in Range(chain[h]), refcnt[b] = 0
      PROVE  b = buf'[p] \/ Before(recent, b, buf'[p])
  <2>1. PICK k \in DOMAIN chain[h] : chain[h][k] = b
    BY DEF Range
  <2>2. k <= last /\ b \in Buf /\ k \in Int /\ last \in Int
    BY <1>3, <1>5, <1>6, <1>8, <2>1
  <2>3. CASE k = last
    BY <1>7, <2>1, <2>3
  <2>4. CASE k # last
    <3>1. k < last
      BY <2>2, <2>4
    <3>2. Before(chain[h], b, chain[h][last])
      BY <2>1, <3>1 DEF Before
    <3> QED BY <1>1, <1>5, <1>6, <1>7, <1>8, <2>2, <3>2 DEF OrderInv
  <2> QED BY <2>3, <2>4
<1>9. chain' = chain /\ refcnt' = refcnt /\ Own(p)' = Own(p)
  BY DEF BgetOwn, bufvars, Own
<1> QED BY <1>2, <1>8, <1>9

(* A calm step keeps the order and what is known of recycling processes.   *)
LEMMA CalmKeeps ==
  ASSUME RInv, IInv', Calm, recent' = recent
  PROVE  RInv'
<1>1. IInv /\ RecentInv /\ OrderInv /\ RecyclesLRU
  BY DEF RInv
<1>2. RecentInv'
  BY <1>1 DEF RecentInv
<1>3. OrderInv'
  BY <1>1 DEF OrderInv, Calm
<1>4. RecyclesLRU'
  <2> SUFFICES ASSUME NEW p \in Proc, pc'[p] = "recycle",
                      NEW b \in Range(chain'[Own(p)']), refcnt'[b] = 0
               PROVE  b = buf'[p] \/ Before(recent, b, buf'[p])
    BY DEF RecyclesLRU
  <2>1. CASE BgetOwn(p)
    BY <2>1, OwnTakesOldest
  <2>2. CASE StillRecycles(p)
    <3>1. /\ pc[p] = "recycle" /\ buf'[p] = buf[p] /\ On(b, Own(p))'
      BY <2>2 DEF StillRecycles, On
    <3>2. b \in Range(chain[Own(p)])
      BY <2>2, <3>1 DEF StillRecycles, On
    <3>3. Own(p) \in Bucket
      BY <1>1, <3>1, BucketsInRange
    <3>4. chain[Own(p)] \in Seq(Buf)
      BY <1>1, <3>3 DEF IInv, ShapeInv, TypeControl
    <3>5. b \in Buf
      BY <3>2, <3>4 DEF Range
    <3>6. refcnt[b] = 0
      BY <3>5 DEF Calm
    <3> QED BY <1>1, <3>1, <3>2, <3>6 DEF RecyclesLRU
  <2> QED BY <2>1, <2>2 DEF Calm
<1> QED BY <1>2, <1>3, <1>4 DEF RInv

(* brelse() of the last reference: the buffer is now the most recent.      *)
LEMMA ReleaseKeeps ==
  ASSUME RInv, IInv', NEW q \in Proc, BrelseRef(q), NEW e \in Buf, e = buf[q],
         refcnt[e] = 1, recent' = Cons(e, RemoveFirst(recent, e))
  PROVE  RInv'
<1>1. IInv /\ RecentInv /\ OrderInv /\ RecyclesLRU
  BY DEF RInv
<1>2. /\ pc[q] = "release" /\ block[e] = want[q] /\ want[q] \in Block
      /\ Own(q) \in Bucket
  BY <1>1, BucketsInRange DEF BrelseRef, InBucket, Goto, IInv, ShapeInv, LocalInv, HasRef
<1>3. PICK h0 \in Bucket : h0 = Hash(block[e]) /\ h0 = num[q]
  BY <1>1, <1>2 DEF IInv, NumInv, Located, Own
<1>4. PICK r : r = Cons(e, RemoveFirst(chain[h0], e))
  OBVIOUS
<1>5. /\ lock[h0] = NULL
      /\ refcnt' = [refcnt EXCEPT ![e] = 0]
      /\ chain' = [chain EXCEPT ![h0] = r]
      /\ pc' = [pc EXCEPT ![q] = "idle"]
      /\ want' = [want EXCEPT ![q] = NULL]
      /\ buf' = [buf EXCEPT ![q] = NULL]
  BY <1>3, <1>4 DEF BrelseRef, InBucket, Goto
<1>6. /\ pc \in [Proc -> Labels] /\ want \in [Proc -> Block \cup {NULL}]
      /\ buf \in [Proc -> Buf \cup {NULL}] /\ refcnt \in [Buf -> Nat]
      /\ chain \in [Bucket -> Seq(Buf)] /\ \A h \in Bucket : IsInjective(chain[h])
  BY <1>1 DEF IInv, ShapeInv, TypeControl, TypeData, ListInv
<1>7. On(e, h0) /\ \A h \in Bucket : h # h0 => ~On(e, h)
  <2>1. ~Carried(e)
    BY <1>1, <1>2 DEF IInv, ShapeInv, ListInv, Carried, HasRef, Carrying
  <2>2. On(e, h0)
    BY <1>1, <1>2, <1>3, <2>1 DEF IInv, ShapeInv, HomeInv
  <2> QED BY <1>1, <2>2 DEF IInv, ShapeInv, ListInv
<1>8. \A a, b : Before(r, a, b)
                  <=> b # e /\ IF a = e THEN b \in Range(chain[h0])
                                        ELSE Before(chain[h0], a, b)
  BY <1>4, <1>6, <1>7, BeforeFront DEF On
<1>9. /\ recent' \in Seq(Buf) /\ IsInjective(recent') /\ Range(recent') = Range(recent)
      /\ \A a, b : Before(recent', a, b)
                     <=> b # e /\ IF a = e THEN b \in Range(recent) ELSE Before(recent, a, b)
  BY <1>1, BeforeFront DEF RecentInv
<1>10. RecentInv'
  BY <1>1, <1>9 DEF RecentInv
<1>11. \A h \in Bucket : \A a, b : Before(chain[h], a, b) => On(a, h) /\ On(b, h)
  BY DEF Before, On, Range
<1>12. \A b \in Buf : b # e => refcnt'[b] = refcnt[b]
  BY <1>5, <1>6
<1>13. OrderInv'
  <2> SUFFICES ASSUME NEW h \in Bucket, NEW a \in Buf, NEW b \in Buf,
                      refcnt'[a] = 0, refcnt'[b] = 0, Before(chain'[h], a, b)
               PROVE  Before(recent', a, b)
    BY DEF OrderInv
  <2>1. CASE h = h0
    <3>1. chain'[h] = r
      BY <1>5, <1>6, <2>1
    <3>2. b # e /\ IF a = e THEN TRUE ELSE Before(chain[h], a, b)
      BY <1>8, <2>1, <3>1
    <3>3. a # e => Before(recent, a, b)
      BY <1>1, <1>12, <3>2 DEF OrderInv
    <3> QED BY <1>1, <1>9, <3>2, <3>3 DEF RecentInv
  <2>2. CASE h # h0
    <3>1. chain'[h] = chain[h]
      BY <1>5, <1>6, <2>2
    <3>2. a # e /\ b # e
      BY <1>7, <1>11, <2>2, <3>1
    <3>3. Before(recent, a, b)
      BY <1>1, <1>12, <3>1, <3>2 DEF OrderInv
    <3> QED BY <1>9, <3>2, <3>3
  <2> QED BY <2>1, <2>2
<1>14. RecyclesLRU'
  <2> SUFFICES ASSUME NEW p \in Proc, pc'[p] = "recycle",
                      NEW b \in Range(chain'[Own(p)']), refcnt'[b] = 0
               PROVE  b = buf'[p] \/ Before(recent', b, buf'[p])
    BY DEF RecyclesLRU
  <2>1. p # q /\ pc[p] = "recycle" /\ want'[p] = want[p] /\ buf'[p] = buf[p]
    BY <1>5, <1>6
  <2>2. Own(p)' = Own(p)
    BY <2>1 DEF Own
  <2>3. PICK h \in Bucket : h = Own(p)
    BY <1>1, <2>1, BucketsInRange
  <2>4. h # h0
    <3>1. lock[h] = p
      BY <1>1, <2>1, <2>3 DEF IInv, ShapeInv, LockInv, Holds
    <3> QED BY <1>5, <3>1, NULLAssumption
  <2>5. chain'[h] = chain[h]
    BY <1>5, <1>6, <2>4
  <2>6. b \in Range(chain[h]) /\ b \in Buf
    <3>1. b \in Range(chain[h])
      BY <2>2, <2>3, <2>5
    <3> QED BY <1>6, <3>1 DEF Range
  <2>7. b # e /\ On(buf[p], h) /\ buf[p] # e
    BY <1>1, <1>7, <2>1, <2>3, <2>4, <2>6 DEF IInv, ShapeInv, LocalInv, On
  <2>8. refcnt[b] = 0
    BY <1>12, <2>6, <2>7
  <2>9. b = buf[p] \/ Before(recent, b, buf[p])
    BY <1>1, <2>1, <2>3, <2>6, <2>8 DEF RecyclesLRU
  <2> QED BY <1>9, <2>1, <2>7, <2>9
<1> QED BY <1>10, <1>13, <1>14 DEF RInv

(* Every step with its effect on the history.                              *)
LEMMA NextRInv ==
  ASSUME RInv, [HNext]_hvars
  PROVE  RInv'
<1>1. IInv /\ [Next]_vars
  BY DEF RInv, HNext, hvars
<1>2. IInv'
  BY <1>1, NextIInv
<1>3. CASE UNCHANGED hvars
  <2>1. recent' = recent /\ UNCHANGED vars
    BY <1>3 DEF hvars
  <2>2. Calm
    BY <2>1 DEF Calm, StillRecycles, Own, On, vars, bufvars, procvars
  <2> QED BY <1>2, <2>1, <2>2, CalmKeeps
<1>4. CASE HNext
  <2>1. Next
    BY <1>4 DEF HNext
  <2>2. CASE Calm
    <3>1. ~(\E b \in Buf : Released(b))
      BY <2>2 DEF Calm, Released
    <3>2. recent' = recent
      BY <1>4, <3>1 DEF HNext
    <3> QED BY <1>2, <2>2, <3>2, CalmKeeps
  <2>3. CASE \E q \in Proc : BrelseRef(q) /\ refcnt[buf[q]] = 1
    <3>1. PICK q \in Proc : BrelseRef(q) /\ refcnt[buf[q]] = 1
      BY <2>3
    <3>2. buf[q] \in Buf
      BY <1>1, <3>1, ReferencesCount DEF BrelseRef, InBucket, Goto, HasRef
    <3>3. refcnt \in [Buf -> Nat] /\ refcnt' = [refcnt EXCEPT ![buf[q]] = 0]
      BY <1>1, <3>1 DEF BrelseRef, IInv, ShapeInv, TypeData
    <3>4. \A b \in Buf : Released(b) <=> b = buf[q]
      BY <3>1, <3>2, <3>3 DEF Released
    <3>5. recent' = Cons(buf[q], RemoveFirst(recent, buf[q]))
      BY <1>4, <3>2, <3>4 DEF HNext
    <3> QED BY <1>2, <3>1, <3>2, <3>5, ReleaseKeeps
  <2> QED BY <1>1, <2>1, <2>2, <2>3, CalmStep
<1> QED BY <1>3, <1>4

(* binit() pushes the buffers in the order of their numbers.               *)
LEMMA BinitDescends ==
  \A h \in Bucket, a, b \in Buf : Before(binit[NBUF][h], a, b) => b < a
<1> DEFINE D(n) == \A h \in Bucket, a, b \in Buf : Before(binit[n][h], a, b) => b < a
           T == {n \in 0 .. NBUF : ~ D(n)}
<1> SUFFICES ASSUME T # {} PROVE FALSE
  OBVIOUS
<1>1. PICK n \in T : \A k \in T : n <= k
  <2> T \subseteq Nat
    OBVIOUS
  <2> QED BY Least
<1>2. n # 0
  <2> SUFFICES D(0)
    OBVIOUS
  <2>1. \A h \in Bucket : binit[0][h] = <<>>
    BY BinitRounds DEF Empty
  <2>2. \A a, b : ~Before(<<>>, a, b)
    BY DEF Before
  <2> QED BY <2>1, <2>2
<1>3. n \in 1 .. NBUF /\ n - 1 \in 0 .. NBUF /\ D(n - 1)
  BY <1>1, <1>2
<1> SUFFICES D(n)
  OBVIOUS
<1>4. PICK f, c, home : f = binit[n - 1] /\ c = n - 1 /\ home = c % NBUCKETS
  OBVIOUS
<1>5. /\ f \in [Bucket -> Seq(Buf)]
      /\ \A h \in Bucket : \A b \in Range(f[h]) : b < c
  <2>1. Sorted(n - 1)
    BY <1>3, BinitSortsAll
  <2>2. f \in [Bucket -> Seq(Buf)]
    BY <1>4, <2>1 DEF Sorted
  <2>3. \A h \in Bucket : Range(f[h]) = {b \in 0 .. (n - 1) - 1 : b % NBUCKETS = h}
    BY <1>4, <2>1 DEF Sorted
  <2>4. \A b \in 0 .. (n - 1) - 1 : b < c
    BY <1>3, <1>4
  <2> QED BY <2>2, <2>3, <2>4
<1>6. c \in Buf /\ home \in Bucket
  BY <1>3, <1>4 DEF Buf, Bucket
<1>7. binit[n] = [f EXCEPT ![home] = Cons(c, f[home])]
  BY <1>3, <1>4, BinitRounds DEF Round
<1>8. \A h \in Bucket : binit[n][h] = IF h = home THEN Cons(c, f[h]) ELSE f[h]
  BY <1>5, <1>6, <1>7
<1>9. ASSUME NEW h \in Bucket, NEW a \in Buf, NEW b \in Buf, Before(binit[n][h], a, b)
      PROVE  b < a
  <2>1. CASE h = home
    <3>1. Before(f[h], a, b) \/ (a = c /\ b \in Range(f[h]))
      BY <1>5, <1>6, <1>8, <1>9, <2>1, BeforeCons
    <3> QED BY <1>3, <1>4, <1>5, <3>1
  <2>2. CASE h # home
    BY <1>3, <1>4, <1>8, <1>9, <2>2
  <2> QED BY <2>1, <2>2
<1> QED BY <1>9

(* The order before the first release is that of binit()'s lists.          *)
LEMMA InitRInv ==
  ASSUME HInit
  PROVE  RInv
<1>1. Init /\ recent = [k \in 1 .. NBUF |-> NBUF - k]
  BY DEF HInit
<1>2. RecentInv
  <2>1. \A k \in 1 .. NBUF : NBUF - k \in Buf
    BY DEF Buf
  <2>2. DOMAIN recent = 1 .. NBUF /\ recent \in Seq(Buf)
    BY <1>1, <2>1
  <2>3. IsInjective(recent)
    BY <1>1, <2>2 DEF IsInjective
  <2>4. \A b \in Buf : NBUF - b \in 1 .. NBUF /\ NBUF - (NBUF - b) = b
    BY DEF Buf
  <2>5. \A b \in Buf : b \in Range(recent)
    BY <1>1, <2>2, <2>4 DEF Range
  <2> QED BY <2>2, <2>3, <2>5 DEF RecentInv
<1>3. OrderInv
  <2> SUFFICES ASSUME NEW h \in Bucket, NEW a \in Buf, NEW b \in Buf, Before(chain[h], a, b)
               PROVE  Before(recent, a, b)
    BY DEF OrderInv
  <2>1. b < a /\ a \in 0 .. NBUF - 1 /\ b \in 0 .. NBUF - 1
    BY <1>1, BinitDescends DEF Init, Buf
  <2>2. /\ NBUF - a \in 1 .. NBUF /\ NBUF - b \in 1 .. NBUF /\ NBUF - a < NBUF - b
        /\ NBUF - (NBUF - a) = a /\ NBUF - (NBUF - b) = b
    BY <2>1
  <2> QED BY <1>1, <2>2 DEF Before
<1>4. RecyclesLRU
  BY <1>1 DEF RecyclesLRU, Init
<1> QED BY <1>1, <1>2, <1>3, <1>4, InitIInv DEF RInv

(* Whatever was stolen, hit, pinned or unpinned meanwhile, bget() recycles *)
(* the unused buffer of its bucket that was released longest ago.          *)
THEOREM OldestRecycled == HSpec => []RecyclesLRU
<1>1. HSpec => []RInv
  BY InitRInv, NextRInv, PTL DEF HSpec
<1>2. RInv => RecyclesLRU
  BY DEF RInv
<1> QED BY <1>1, <1>2, PTL

-----------------------------------------------------------------------------
(* When bget() may give up                                                 *)

(* What % does to a multiple of the number of buckets and a rest.          *)
LEMMA Remainder ==
  ASSUME NEW q \in Nat, NEW l \in Bucket
  PROVE  (NBUCKETS * q + l) % NBUCKETS = l
<1> USE NBUCKETSAssumption DEF Bucket
<1>1. PICK m \in Nat : m = NBUCKETS * q + l
  OBVIOUS
<1>2. PICK x \in 0 .. NBUCKETS - 1 : x = m % NBUCKETS
  OBVIOUS
<1>3. PICK r \in Nat : m = NBUCKETS * r + x
  <2>1. m \div NBUCKETS \in Nat
    OBVIOUS
  <2>2. m = NBUCKETS * (m \div NBUCKETS) + (m % NBUCKETS)
    OBVIOUS
  <2> QED BY <1>2, <2>1, <2>2
<1>4. PICK y \in Nat, z \in Nat : y = NBUCKETS * q /\ z = NBUCKETS * r
  OBVIOUS
<1>5. y + l = z + x
  BY <1>1, <1>3, <1>4
<1>6. ~(q >= r + 1)
  <2> SUFFICES ASSUME q >= r + 1 PROVE FALSE
    OBVIOUS
  <2>1. NBUCKETS * q >= NBUCKETS * (r + 1)
    OBVIOUS
  <2>2. NBUCKETS * (r + 1) = NBUCKETS * r + NBUCKETS
    OBVIOUS
  <2>3. y >= z + NBUCKETS
    BY <2>1, <2>2, <1>4
  <2> QED BY <2>3, <1>5, <1>2
<1>7. ~(r >= q + 1)
  <2> SUFFICES ASSUME r >= q + 1 PROVE FALSE
    OBVIOUS
  <2>1. NBUCKETS * r >= NBUCKETS * (q + 1)
    OBVIOUS
  <2>2. NBUCKETS * (q + 1) = NBUCKETS * q + NBUCKETS
    OBVIOUS
  <2>3. z >= y + NBUCKETS
    BY <2>1, <2>2, <1>4
  <2> QED BY <2>3, <1>5, <1>2
<1>8. q = r
  BY <1>6, <1>7
<1>9. x = l
  BY <1>4, <1>5, <1>8
<1> QED BY <1>1, <1>2, <1>9

(* The search goes once round all the buckets, wherever it starts.         *)
LEMMA GoesRound ==
  ASSUME NEW w \in Nat, NEW l \in Bucket
  PROVE  \E k \in 0 .. NBUCKETS - 1 : (w + k) % NBUCKETS = l
<1>1. PICK q \in Nat, m \in 0 .. NBUCKETS - 1 : w = NBUCKETS * q + m
  <2>1. w \div NBUCKETS \in Nat
    BY NBUCKETSAssumption
  <2>2. w % NBUCKETS \in 0 .. NBUCKETS - 1
    BY NBUCKETSAssumption
  <2>3. w = NBUCKETS * (w \div NBUCKETS) + (w % NBUCKETS)
    BY NBUCKETSAssumption
  <2> QED BY <2>1, <2>2, <2>3
<1>2. PICK z \in Nat, y \in Nat :
        z = NBUCKETS * q /\ y = NBUCKETS * (q + 1) /\ y = z + NBUCKETS
  BY NBUCKETSAssumption
<1>3. (z + l) % NBUCKETS = l /\ (y + l) % NBUCKETS = l
  <2>1. (NBUCKETS * q + l) % NBUCKETS = l
    BY Remainder
  <2>2. q + 1 \in Nat
    OBVIOUS
  <2>3. (NBUCKETS * (q + 1) + l) % NBUCKETS = l
    BY <2>2, Remainder
  <2> QED BY <1>2, <2>1, <2>3
<1>4. l \in Nat /\ l < NBUCKETS /\ m \in Nat /\ m < NBUCKETS /\ w = z + m
  BY <1>1, <1>2, NBUCKETSAssumption DEF Bucket
<1>5. CASE l >= m
  <2>1. l - m \in 0 .. NBUCKETS - 1
    BY <1>4, <1>5, NBUCKETSAssumption
  <2>2. w + (l - m) = z + l
    BY <1>4
  <2> QED BY <1>3, <2>1, <2>2
<1>6. CASE ~(l >= m)
  <2>1. l - m + NBUCKETS \in 0 .. NBUCKETS - 1
    BY <1>4, <1>6, NBUCKETSAssumption
  <2>2. w + (l - m + NBUCKETS) = y + l
    BY <1>2, <1>4, NBUCKETSAssumption
  <2> QED BY <1>3, <2>1, <2>2
<1> QED BY <1>5, <1>6

(* Where the loop variable of bget() has its initial value.                *)
AtStart == {"idle", "own", "own_miss", "got", "using", "pin", "unpin",
            "unlocked", "release"}

(* The buckets that process p has found without an unused buffer.          *)
Searched(p) ==
  {(want[p] + k) % NBUCKETS :
     k \in 0 .. (IF pc[p] \in {"own_miss", "victim_miss"} THEN i[p] ELSE i[p] - 1)}

(* The inductive invariant: no bucket already searched counts as spare.    *)
SpareInv ==
  /\ spare \in [Proc -> SUBSET Bucket]
  /\ \A p \in Proc :
       /\ pc[p] \in AtStart => i[p] = 0
       /\ pc[p] \in {"own_miss", "victim", "victim_miss"}
            => spare[p] \cap Searched(p) = {}
  /\ PanicsOnlyIfNoneSpare

LEMMA SearchIsBcache == [SearchNext]_searchVars => [Next]_vars
  BY DEF SearchNext, searchVars, Next

LEMMA InitSpareInv == SearchInit => IInv /\ SpareInv
  BY InitIInv DEF SearchInit, Init, SpareInv, PanicsOnlyIfNoneSpare, AtStart

(* bget() is called: no bucket has been searched.                          *)
LEMMA SpareEnterStep ==
  ASSUME IInv, SpareInv, NEW p \in Proc, NEW n \in Block, BgetEnter(p, n),
         spare' = [spare EXCEPT ![p] = Spare]
  PROVE  SpareInv'
<1>1. Spare \in SUBSET Bucket /\ spare \in [Proc -> SUBSET Bucket]
  BY DEF Spare, SpareInv
<1>2. /\ pc[p] = "idle" /\ pc' = [pc EXCEPT ![p] = "own"] /\ i' = i
      /\ want' = [want EXCEPT ![p] = n]
      /\ pc \in [Proc -> Labels] /\ want \in [Proc -> Block \cup {NULL}]
  BY DEF BgetEnter, Goto, IInv, ShapeInv, TypeControl
<1>3. \A q \in Proc : q # p => /\ pc'[q] = pc[q] /\ want'[q] = want[q]
                              /\ spare'[q] = spare[q]
  BY <1>1, <1>2
<1>4. \A q \in Proc : q # p => Searched(q)' = Searched(q)
  BY <1>2, <1>3 DEF Searched
<1>5. pc'[p] = "own" /\ i'[p] = 0
  BY <1>2 DEF SpareInv, AtStart
<1>6. ASSUME NEW q \in Proc
      PROVE  /\ pc'[q] \in AtStart => i'[q] = 0
             /\ pc'[q] \in {"own_miss", "victim", "victim_miss"}
                  => spare'[q] \cap Searched(q)' = {}
             /\ pc'[q] = "panic" => spare'[q] = {}
  BY <1>2, <1>3, <1>4, <1>5 DEF SpareInv, PanicsOnlyIfNoneSpare
<1>7. spare' \in [Proc -> SUBSET Bucket]
  BY <1>1
<1> QED BY <1>6, <1>7 DEF SpareInv, PanicsOnlyIfNoneSpare

(* What a step inside bget() does to the history of its own process.       *)
LEMMA OwnSpareStep ==
  ASSUME IInv, SpareInv, NEW p \in Proc, CallStep(p) \/ UserStep(p),
         spare'[p] \subseteq spare[p], spare'[p] \subseteq Spare'
  PROVE  /\ pc'[p] \in AtStart => i'[p] = 0
         /\ pc'[p] \in {"own_miss", "victim", "victim_miss"}
              => spare'[p] \cap Searched(p)' = {}
         /\ pc'[p] = "panic" => spare'[p] = {}
<1>1. /\ pc \in [Proc -> Labels] /\ i \in [Proc -> Bucket]
      /\ i[p] \in Nat /\ i[p] < NBUCKETS /\ spare[p] \subseteq Bucket
  <2>1. i \in [Proc -> Bucket] /\ i[p] \in Bucket
    BY DEF IInv, ShapeInv, TypeData
  <2>2. i[p] \in Nat /\ i[p] < NBUCKETS
    BY <2>1 DEF Bucket
  <2> QED BY <2>1, <2>2 DEF IInv, ShapeInv, TypeControl, SpareInv
<1>2. /\ pc[p] \in AtStart => i[p] = 0
      /\ pc[p] \in {"own_miss", "victim", "victim_miss"}
           => spare[p] \cap Searched(p) = {}
      /\ pc[p] = "panic" => spare[p] = {}
  BY DEF SpareInv, PanicsOnlyIfNoneSpare
<1>3. ASSUME NEW h \in Bucket, \A b \in Range(chain[h]) : refcnt[b] # 0,
             chain' = chain, refcnt' = refcnt
      PROVE  h \notin spare'[p]
  BY <1>3 DEF Spare
<1>4. CASE BgetOwn(p)
  <2>1. /\ pc[p] = "own" /\ i' = i /\ want' = want
        /\ pc'[p] \in {"hit", "recycle", "own_miss"}
        /\ chain' = chain /\ refcnt' = refcnt
    BY <1>1, <1>4 DEF BgetOwn, Goto, bufvars
  <2>2. i[p] = 0 /\ Own(p) \in Bucket /\ want[p] \in Nat
    BY <1>2, <2>1, BucketsInRange, BlockAssumption DEF AtStart
  <2>3. CASE pc'[p] = "own_miss"
    <3>1. LastUnused(Own(p)) = 0
      BY <1>1, <1>4, <2>3 DEF BgetOwn, Goto
    <3>2. Own(p) \notin spare'[p]
      BY <1>3, <2>1, <2>2, <3>1, Searches
    <3>3. Searched(p)' = {(want[p] + k) % NBUCKETS : k \in 0 .. 0}
      BY <2>1, <2>2, <2>3 DEF Searched
    <3>4. Searched(p)' = {Own(p)}
      BY <2>2, <3>3 DEF Own, Hash
    <3> QED BY <2>1, <2>2, <2>3, <3>2, <3>4
  <2> QED BY <2>1, <2>3 DEF AtStart
<1>5. CASE BgetVictim(p)
  <2>1. /\ pc[p] = "victim" /\ i' = i /\ want' = want
        /\ pc'[p] \in {"take", "victim_miss"}
        /\ chain' = chain /\ refcnt' = refcnt
    BY <1>1, <1>5 DEF BgetVictim, Goto, bufvars
  <2>2. CASE pc'[p] = "victim_miss"
    <3>1. Victim(p) \in Bucket /\ FirstUnused(Victim(p)) = 0
      BY <1>1, <1>5, <2>1, <2>2, BucketsInRange DEF BgetVictim, Goto
    <3>2. Victim(p) \notin spare'[p]
      BY <1>3, <2>1, <3>1, Searches
    <3>3. Searched(p)' \subseteq Searched(p) \cup {Victim(p)}
      <4>1. ASSUME NEW k \in 0 .. i[p], k # i[p] PROVE k \in 0 .. i[p] - 1
        BY <1>1, <4>1
      <4>2. Searched(p)' = {(want[p] + k) % NBUCKETS : k \in 0 .. i[p]}
        BY <2>1, <2>2 DEF Searched
      <4>3. Searched(p) = {(want[p] + k) % NBUCKETS : k \in 0 .. i[p] - 1}
        BY <2>1 DEF Searched
      <4> QED BY <4>1, <4>2, <4>3 DEF Victim
    <3>4. spare[p] \cap Searched(p) = {}
      BY <1>2, <2>1
    <3> QED BY <2>2, <3>2, <3>3, <3>4 DEF AtStart
  <2> QED BY <2>1, <2>2 DEF AtStart
<1>6. ASSUME NEW from \in {"own_miss", "victim_miss"}, TryNext(p, from),
             want' = want
      PROVE  /\ pc'[p] \in AtStart => i'[p] = 0
             /\ pc'[p] \in {"own_miss", "victim", "victim_miss"}
                  => spare'[p] \cap Searched(p)' = {}
             /\ pc'[p] = "panic" => spare'[p] = {}
  <2>1. pc[p] = from /\ spare[p] \cap Searched(p) = {}
    BY <1>2, <1>6 DEF TryNext, Goto
  <2>2. Searched(p) = {(want[p] + k) % NBUCKETS : k \in 0 .. i[p]}
    BY <2>1 DEF Searched
  <2>3. CASE i[p] + 1 < NBUCKETS
    <3>1. pc'[p] = "victim" /\ i'[p] = i[p] + 1
      BY <1>1, <1>6, <2>3 DEF TryNext, Goto
    <3>2. i'[p] - 1 = i[p]
      BY <1>1, <3>1
    <3>3. Searched(p)' = {(want[p] + k) % NBUCKETS : k \in 0 .. i[p]}
      BY <1>6, <3>1, <3>2 DEF Searched
    <3> QED BY <2>1, <2>2, <3>1, <3>3 DEF AtStart
  <2>4. CASE ~(i[p] + 1 < NBUCKETS)
    <3>1. pc'[p] = "panic"
      BY <1>1, <1>6, <2>4 DEF TryNext, Goto
    <3>2. i[p] = NBUCKETS - 1
      BY <1>1, <2>4
    <3>3. want[p] \in Nat
      BY <2>1, BucketsInRange, BlockAssumption
    <3>4. \A l \in Bucket : l \in Searched(p)
      <4> TAKE l \in Bucket
      <4>1. PICK k \in 0 .. NBUCKETS - 1 : (want[p] + k) % NBUCKETS = l
        BY <3>3, GoesRound
      <4>2. k \in 0 .. i[p]
        BY <3>2
      <4> QED BY <2>2, <4>1, <4>2
    <3>5. spare'[p] = {}
      BY <1>1, <2>1, <3>4
    <3> QED BY <3>1, <3>5 DEF AtStart
  <2> QED BY <2>3, <2>4
<1>7. CASE BgetOwnMiss(p) \/ BgetVictimMiss(p)
  BY <1>6, <1>7 DEF BgetOwnMiss, BgetVictimMiss
<1>8. CASE BgetSleeplock(p)
  BY <1>1, <1>8 DEF BgetSleeplock, Goto
<1>9. CASE \/ BgetHit(p) \/ BgetRecycle(p) \/ BgetTake(p) \/ BgetMove(p)
           \/ BgetInsert(p)
  BY <1>1, <1>9
     DEF BgetHit, BgetRecycle, BgetTake, BgetMove, BgetInsert, Goto, AtStart
<1>10. CASE \/ Bread(p) \/ Bpin(p) \/ Bunpin(p) \/ BrelseHash(p) \/ BrelseRef(p)
            \/ UserStep(p)
  <2>1. pc[p] \in AtStart /\ i' = i
    BY <1>10 DEF Bread, Bpin, Bunpin, BrelseHash, BrelseRef, UserStep, Modify,
                 Bwrite, BpinHash, BunpinHash, Brelse, FindBucket, InBucket,
                 Goto, procvars, AtStart
  <2>2. pc'[p] \notin {"own_miss", "victim", "victim_miss", "panic"}
    BY <1>1, <1>10
       DEF Bread, Bpin, Bunpin, BrelseHash, BrelseRef, UserStep, Modify,
           Bwrite, BpinHash, BunpinHash, Brelse, FindBucket, InBucket, Goto,
           procvars
  <2> QED BY <1>2, <2>1, <2>2
<1> QED BY <1>4, <1>5, <1>7, <1>8, <1>9, <1>10 DEF CallStep

LEMMA SpareCallStep ==
  ASSUME IInv, SpareInv, NEW p \in Proc, CallStep(p) \/ UserStep(p),
         spare' = [q \in Proc |-> IF pc'[q] \in Searching
                                  THEN spare[q] \cap Spare' ELSE {}]
  PROVE  SpareInv'
<1>1. /\ spare \in [Proc -> SUBSET Bucket]
      /\ spare' \in [Proc -> SUBSET Bucket]
      /\ \A q \in Proc : spare'[q] \subseteq spare[q] /\ spare'[q] \subseteq Spare'
  BY DEF SpareInv
<1>2. /\ pc \in [Proc -> Labels] /\ i \in [Proc -> Bucket]
      /\ want \in [Proc -> Block \cup {NULL}]
  BY DEF IInv, ShapeInv, TypeControl, TypeData
<1>3. ASSUME NEW q \in Proc, q # p
      PROVE  pc'[q] = pc[q] /\ i'[q] = i[q] /\ want'[q] = want[q]
  BY <1>2, <1>3
     DEF CallStep, UserStep, BgetOwn, BgetHit, BgetRecycle, BgetOwnMiss,
         BgetVictim, BgetVictimMiss, BgetTake, BgetMove, BgetInsert,
         BgetSleeplock, Bread, BrelseHash, BrelseRef, Modify, Bwrite, Bpin,
         Bunpin, BpinHash, BunpinHash, Brelse, FindBucket, InBucket, TryNext,
         Goto, procvars
<1>4. ASSUME NEW q \in Proc
      PROVE  /\ pc'[q] \in AtStart => i'[q] = 0
             /\ pc'[q] \in {"own_miss", "victim", "victim_miss"}
                  => spare'[q] \cap Searched(q)' = {}
             /\ pc'[q] = "panic" => spare'[q] = {}
  <2>1. CASE q = p
    BY <1>1, <2>1, OwnSpareStep
  <2>2. CASE q # p
    <3>1. pc'[q] = pc[q] /\ i'[q] = i[q] /\ Searched(q)' = Searched(q)
      BY <1>3, <2>2 DEF Searched
    <3> QED BY <1>1, <3>1 DEF SpareInv, PanicsOnlyIfNoneSpare
  <2> QED BY <2>1, <2>2
<1> QED BY <1>1, <1>4 DEF SpareInv, PanicsOnlyIfNoneSpare

LEMMA NextSpareInv ==
  IInv /\ SpareInv /\ [SearchNext]_searchVars => SpareInv'
<1> SUFFICES ASSUME IInv, SpareInv, [SearchNext]_searchVars PROVE SpareInv'
  OBVIOUS
<1>1. CASE UNCHANGED searchVars
  BY <1>1 DEF searchVars, vars, procvars, SpareInv, Searched, PanicsOnlyIfNoneSpare
<1>2. CASE SearchNext
  BY <1>2, SpareEnterStep, SpareCallStep DEF SearchNext
<1> QED BY <1>1, <1>2

(* bget() panics only when each bucket was without an unused buffer at     *)
(* some moment of the call: its search visits every bucket once, and finds *)
(* it so under the bucket's lock.                                          *)
THEOREM PanicExplained == SearchSpec => []PanicsOnlyIfNoneSpare
<1>1. IInv /\ SpareInv /\ [SearchNext]_searchVars => (IInv /\ SpareInv)'
  BY NextIInv, SearchIsBcache, NextSpareInv
<1>2. SpareInv => PanicsOnlyIfNoneSpare
  BY DEF SpareInv
<1> QED BY InitSpareInv, <1>1, <1>2, PTL DEF SearchSpec
=============================================================================
