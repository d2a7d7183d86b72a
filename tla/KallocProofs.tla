---------------------------- MODULE KallocProofs ----------------------------
(***************************************************************************)
(* Proofs about Kalloc and KallocSearch, for any number of CPUs and pages. *)
(***************************************************************************)
EXTENDS KallocSearch, TLAPS

-----------------------------------------------------------------------------
(* A list without repetitions, as a stack                                  *)

(* Popping a list without repetitions removes its head from its elements.  *)
LEMMA PopLemma ==
  ASSUME NEW S, NEW s \in Seq(S), s # <<>>, IsInjective(s)
  PROVE  /\ Head(s) \in Range(s)
         /\ Tail(s) \in Seq(S)
         /\ Range(Tail(s)) = Range(s) \ {Head(s)}
         /\ IsInjective(Tail(s))
<1>1. /\ Len(s) \in Nat \ {0}
      /\ DOMAIN s = 1 .. Len(s)
      /\ Head(s) = s[1]
      /\ Tail(s) \in Seq(S)
      /\ DOMAIN Tail(s) = 1 .. (Len(s) - 1)
      /\ \A k \in 1 .. (Len(s) - 1) : Tail(s)[k] = s[k + 1]
  OBVIOUS
<1>2. Head(s) \in Range(s)
  BY <1>1 DEF Range
<1>3. Range(Tail(s)) \subseteq Range(s) \ {Head(s)}
  BY <1>1 DEF Range, IsInjective
<1>4. Range(s) \ {Head(s)} \subseteq Range(Tail(s))
  <2> SUFFICES ASSUME NEW k \in 1 .. Len(s), s[k] # s[1]
               PROVE  s[k] \in Range(Tail(s))
    BY <1>1 DEF Range
  <2>1. k - 1 \in 1 .. (Len(s) - 1) /\ Tail(s)[k - 1] = s[k]
    BY <1>1
  <2> QED BY <1>1, <2>1 DEF Range
<1>5. IsInjective(Tail(s))
  BY <1>1 DEF IsInjective
<1> QED BY <1>1, <1>2, <1>3, <1>4, <1>5

(* Pushing a new element on such a list adds it to the elements.           *)
LEMMA PushLemma ==
  ASSUME NEW S, NEW s \in Seq(S), NEW p \in S, p \notin Range(s), IsInjective(s)
  PROVE  /\ <<p>> \o s \in Seq(S)
         /\ Range(<<p>> \o s) = {p} \cup Range(s)
         /\ IsInjective(<<p>> \o s)
<1> DEFINE t == <<p>> \o s
<1>1. /\ Len(s) \in Nat
      /\ DOMAIN s = 1 .. Len(s)
      /\ t \in Seq(S)
      /\ DOMAIN t = 1 .. (Len(s) + 1)
      /\ t[1] = p
      /\ \A k \in 1 .. Len(s) : t[k + 1] = s[k]
  OBVIOUS
<1> HIDE DEF t
<1>2. \A k \in DOMAIN t : k = 1 \/ (k - 1 \in DOMAIN s /\ t[k] = s[k - 1])
  <2> SUFFICES ASSUME NEW k \in 1 .. (Len(s) + 1), k # 1
               PROVE  k - 1 \in 1 .. Len(s) /\ t[k] = s[k - 1]
    BY <1>1
  <2> QED BY <1>1
<1>3. Range(t) = {p} \cup Range(s)
  <2>1. Range(t) \subseteq {p} \cup Range(s)
    BY <1>1, <1>2 DEF Range
  <2>2. \A k \in DOMAIN s : k + 1 \in DOMAIN t /\ t[k + 1] = s[k]
    BY <1>1
  <2>3. {p} \cup Range(s) \subseteq Range(t)
    BY <1>1, <2>2 DEF Range
  <2> QED BY <2>1, <2>3
<1>4. IsInjective(t)
  <2> SUFFICES ASSUME NEW a \in DOMAIN t, NEW b \in DOMAIN t, t[a] = t[b]
               PROVE  a = b
    BY DEF IsInjective
  <2> QED BY <1>1, <1>2 DEF IsInjective, Range
<1> QED BY <1>1, <1>3, <1>4 DEF t

-----------------------------------------------------------------------------
(* Each step preserves the inductive invariant                             *)

(* The list a search looks at is the list of some CPU.                     *)
LEMMA TargetLemma ==
  ASSUME TypeOK, NEW c \in CPU
  PROVE  Target(c) \in CPU
<1>1. c + i[c] \in Nat
  <2>1. i[c] \in CPU
    BY DEF TypeOK
  <2> QED BY <2>1, NCPUAssumption DEF CPU
<1>2. \A n \in Nat : n % NCPU \in 0 .. NCPU - 1
  BY NCPUAssumption
<1> QED BY <1>1, <1>2 DEF Target, CPU

(* Nobody is in a call, and every page is in a list.                       *)
LEMMA InitIInv == Init => IInv
<1> SUFFICES ASSUME Init PROVE IInv
  OBVIOUS
<1> PICK id \in CPU :
      freelist = [c \in CPU |-> IF c = id THEN [k \in Page |-> NPAGES + 1 - k]
                                          ELSE <<>>]
  BY DEF Init
<1> DEFINE all == [k \in Page |-> NPAGES + 1 - k]
<1>1. /\ all \in Seq(Page)
      /\ \A p \in Page : p \in Range(all)
      /\ IsInjective(all)
  <2>1. \A k \in Page : NPAGES + 1 - k \in Page
    BY NPAGESAssumption DEF Page
  <2>2. all \in [1 .. NPAGES -> Page]
    BY <2>1 DEF Page
  <2>3. all \in Seq(Page)
    BY <2>2, NPAGESAssumption
  <2>4. ASSUME NEW p \in Page PROVE p \in Range(all)
    <3>1. NPAGES + 1 - p \in Page
      BY <2>1
    <3>2. all[NPAGES + 1 - p] = p
      BY <3>1, NPAGESAssumption DEF Page
    <3> QED BY <3>1, <3>2 DEF Range
  <2>5. IsInjective(all)
    BY NPAGESAssumption DEF IsInjective, Page
  <2> QED BY <2>3, <2>4, <2>5
<1>2. /\ <<>> \in Seq(Page)
      /\ Range(<<>>) = {}
      /\ IsInjective(<<>>)
  BY DEF Range, IsInjective
<1>3. \A c \in CPU : freelist[c] = IF c = id THEN all ELSE <<>>
  OBVIOUS
<1> HIDE DEF all
<1>4. 0 \in CPU
  BY NCPUAssumption DEF CPU
<1>5. TypeOK
  BY <1>1, <1>2, <1>3, <1>4 DEF Init, TypeOK, Labels, all
<1>6. LockInv /\ LocalInv
  <2>1. NULL \notin CPU
    BY NULLAssumption, NCPUAssumption DEF CPU
  <2> QED BY <2>1 DEF Init, LockInv, LocalInv
<1>7. NoPageLost
  BY <1>1, <1>3 DEF NoPageLost, OnList
<1>8. NoPageTwice
  BY <1>1, <1>2, <1>3 DEF Init, NoPageTwice, OnList, InHand
<1> QED BY <1>5, <1>6, <1>7, <1>8 DEF IInv

-----------------------------------------------------------------------------
(* Two CPUs are never inside the critical section of one list.             *)
LEMMA Exclusion ==
  ASSUME LockInv, NEW c \in CPU, NEW d \in CPU, Target(c) \in CPU,
         pc[c] \in {"load", "unlink", "miss"},
         \/ pc[d] \in {"load", "unlink", "miss"} /\ Target(d) = Target(c)
         \/ pc[d] = "f_push" /\ d = Target(c)
  PROVE  c = d
<1>1. lock[Target(c)] = c
  BY DEF LockInv
<1>2. lock[Target(c)] = d
  BY DEF LockInv
<1> QED BY <1>1, <1>2

(* The steps that touch no list and no page: only control and locks.       *)
LEMMA ControlStep ==
  ASSUME IInv, NEW c \in CPU,
         \/ KallocEnter(c) \/ KallocAcquire(c) \/ KallocMiss(c)
         \/ KfreeAcquire(c)
  PROVE  IInv'
<1> USE DEF IInv
<1>0. Target(c) \in CPU /\ NULL \notin CPU
  BY TargetLemma, NULLAssumption, NCPUAssumption DEF CPU
<1>1. TypeOK'
  <2>1. i[c] \in CPU
    BY DEF TypeOK
  <2>2. i[c] + 1 < NCPU => i[c] + 1 \in CPU
    BY <2>1, NCPUAssumption DEF CPU
  <2>3. 0 \in CPU
    BY NCPUAssumption DEF CPU
  <2>4. CASE KallocEnter(c)
    BY <2>3, <2>4 DEF TypeOK, Labels, Goto, KallocEnter
  <2>5. CASE KallocAcquire(c) \/ KfreeAcquire(c)
    <3>1. pc' \in [CPU -> Labels]
      BY <2>5 DEF TypeOK, Labels, Goto, KallocAcquire, KfreeAcquire
    <3>2. lock' \in [CPU -> CPU \cup {NULL}]
      BY <2>5, <1>0 DEF TypeOK, acquire, KallocAcquire, KfreeAcquire
    <3>3. UNCHANGED <<freelist, i, r, out>>
      BY <2>5 DEF KallocAcquire, KfreeAcquire
    <3> QED BY <3>1, <3>2, <3>3 DEF TypeOK
  <2>6. CASE KallocMiss(c)
    <3>1. i' \in [CPU -> CPU]
      BY <2>2, <2>6 DEF TypeOK, KallocMiss
    <3>2. pc' \in [CPU -> Labels]
      BY <2>6 DEF TypeOK, Labels, Goto, KallocMiss
    <3> QED BY <2>6, <3>1, <3>2, <1>0 DEF TypeOK, release, KallocMiss
  <2> QED BY <2>4, <2>5, <2>6
<1>2. LockInv'
  <2> SUFFICES ASSUME NEW l \in CPU, NEW d \in CPU
               PROVE  lock'[l] = d
                        <=> \/ pc'[d] \in {"load", "unlink", "miss"} /\ Target(d)' = l
                            \/ pc'[d] = "f_push" /\ d = l
    BY DEF LockInv
  <2>1. CASE KallocEnter(c)
    BY <2>1 DEF KallocEnter, Goto, LockInv, Target, TypeOK
  <2>2. CASE KallocAcquire(c)
    BY <2>2, <1>0 DEF KallocAcquire, Goto, acquire, LockInv, Target, TypeOK
  <2>3. CASE KallocMiss(c)
    BY <2>3, <1>0, Exclusion DEF KallocMiss, Goto, release, LockInv, Target, TypeOK
  <2>4. CASE KfreeAcquire(c)
    BY <2>4, <1>0 DEF KfreeAcquire, Goto, acquire, LockInv, Target, TypeOK
  <2> QED BY <2>1, <2>2, <2>3, <2>4
<1>3. LocalInv'
  BY <1>0 DEF LocalInv, TypeOK, Target, Goto, KallocEnter, KallocAcquire,
        KallocMiss, KfreeAcquire
<1>4. /\ UNCHANGED <<freelist, out>>
      /\ \A d \in CPU : InHand(d)' = InHand(d) /\ OnList(d)' = OnList(d)
  BY DEF LocalInv, TypeOK, Goto, InHand, OnList, KallocEnter, KallocAcquire,
         KallocMiss, KfreeAcquire
<1>5. NoPageLost' /\ NoPageTwice'
  BY <1>4 DEF NoPageLost, NoPageTwice
<1> QED BY <1>1, <1>2, <1>3, <1>5

(* KallocLoad: the page the CPU takes hold of is still on its list.        *)
LEMMA LoadStep ==
  ASSUME IInv, NEW c \in CPU, KallocLoad(c)
  PROVE  IInv'
<1> USE DEF IInv
<1> DEFINE s == freelist[Target(c)]
<1>0. Target(c) \in CPU /\ NULL \notin CPU /\ NULL \notin Page
  BY TargetLemma, NULLAssumption, NCPUAssumption, NPAGESAssumption DEF CPU, Page
<1>1. s \in Seq(Page) /\ IsInjective(s)
  BY <1>0 DEF TypeOK, NoPageTwice
<1>2. s # <<>> => Head(s) \in Page
  BY <1>1
<1>3. TypeOK'
  <2>1. pc' \in [CPU -> Labels]
    BY DEF TypeOK, Labels, Goto, KallocLoad
  <2>2. r' \in [CPU -> Page \cup {NULL}]
    <3>1. CASE s = <<>>
      BY <3>1 DEF TypeOK, KallocLoad
    <3>2. CASE s # <<>>
      <4>1. r' = [r EXCEPT ![c] = Head(s)]
        BY <3>2 DEF KallocLoad
      <4> QED BY <3>2, <4>1, <1>2 DEF TypeOK
    <3> QED BY <3>1, <3>2
  <2> QED BY <2>1, <2>2 DEF TypeOK, KallocLoad
<1>4. LockInv'
  BY <1>0 DEF KallocLoad, Goto, LockInv, Target, TypeOK
<1>5. LocalInv'
  <2>1. \A d \in CPU : Target(d)' = Target(d) /\ freelist' = freelist
    BY DEF Target, KallocLoad
  <2>2. CASE s = <<>>
    BY <2>1, <2>2 DEF LocalInv, TypeOK, Goto, KallocLoad
  <2>3. CASE s # <<>>
    <3>1. r' = [r EXCEPT ![c] = Head(s)] /\ pc' = [pc EXCEPT ![c] = "unlink"]
      BY <2>3 DEF KallocLoad, Goto
    <3> QED BY <2>1, <2>3, <3>1 DEF LocalInv, TypeOK
  <2> QED BY <2>2, <2>3
<1>6. /\ UNCHANGED <<freelist, out>>
      /\ \A d \in CPU : InHand(d)' = InHand(d) /\ OnList(d)' = OnList(d)
  BY DEF LocalInv, TypeOK, Goto, InHand, OnList, KallocLoad
<1>7. NoPageLost' /\ NoPageTwice'
  BY <1>6 DEF NoPageLost, NoPageTwice
<1> QED BY <1>3, <1>4, <1>5, <1>7

(* KallocUnlink: the head of the list passes into the CPU's hand.          *)
LEMMA UnlinkStep ==
  ASSUME IInv, NEW c \in CPU, KallocUnlink(c)
  PROVE  IInv'
<1> USE DEF IInv
<1> DEFINE t == Target(c)
           s == freelist[t]
<1>0. t \in CPU /\ NULL \notin CPU /\ NULL \notin Page
  BY TargetLemma, NULLAssumption, NCPUAssumption, NPAGESAssumption DEF CPU, Page
<1>1. /\ s \in Seq(Page) /\ IsInjective(s)
      /\ s # <<>> /\ r[c] = Head(s)
  BY <1>0 DEF TypeOK, NoPageTwice, LocalInv, KallocUnlink, Goto
<1>2. /\ r[c] \in Range(s)
      /\ Tail(s) \in Seq(Page)
      /\ Range(Tail(s)) = Range(s) \ {r[c]}
      /\ IsInjective(Tail(s))
  BY <1>1, PopLemma
<1>3. r[c] \in Page
  BY <1>1
<1>4. TypeOK'
  BY <1>0, <1>2 DEF TypeOK, Labels, Goto, release, KallocUnlink
<1>5. LockInv'
  BY <1>0, Exclusion DEF KallocUnlink, Goto, release, LockInv, Target, TypeOK
<1>6. LocalInv'
  <2> SUFFICES ASSUME NEW d \in CPU
               PROVE  /\ pc'[d] \in {"idle", "acquire", "load", "miss"} => r'[d] = NULL
                      /\ pc'[d] \in {"f_acquire", "f_push"} => r'[d] \in Page
                      /\ pc'[d] = "unlink" =>
                           /\ freelist'[Target(d)] # <<>>
                           /\ r'[d] = Head(freelist'[Target(d)])
    BY DEF LocalInv, Target, KallocUnlink
  <2>1. CASE d = c
    BY <2>1 DEF KallocUnlink, Goto, TypeOK
  <2>2. CASE d # c
    <3>1. pc'[d] = pc[d] /\ r'[d] = r[d]
      BY <2>2 DEF KallocUnlink, Goto, TypeOK
    <3>2. pc[d] = "unlink" => Target(d) # t
      BY <2>2, <1>0, Exclusion DEF KallocUnlink, Goto
    <3>3. pc[d] = "unlink" => freelist'[Target(d)] = freelist[Target(d)]
      BY <3>2, TargetLemma DEF KallocUnlink, TypeOK
    <3> QED BY <3>1, <3>3 DEF LocalInv
  <2> QED BY <2>1, <2>2
<1>7. /\ out' = out
      /\ \A d \in CPU : IsInjective(freelist'[d])
      /\ \A d \in CPU : OnList(d)' = IF d = t THEN OnList(d) \ {r[c]} ELSE OnList(d)
      /\ \A d \in CPU : InHand(d)' = IF d = c THEN {r[c]} ELSE InHand(d)
      /\ InHand(c) = {}
      /\ r[c] \in OnList(t)
  <2>1. \A d \in CPU : freelist'[d] = IF d = t THEN Tail(s) ELSE freelist[d]
    BY <1>0 DEF KallocUnlink, TypeOK
  <2>2. \A d \in CPU : IsInjective(freelist'[d])
    BY <1>2, <2>1 DEF NoPageTwice
  <2>3. \A d \in CPU : OnList(d)' = IF d = t THEN OnList(d) \ {r[c]} ELSE OnList(d)
    BY <1>2, <2>1 DEF OnList
  <2>4. \A d \in CPU : InHand(d)' = IF d = c THEN {r[c]} ELSE InHand(d)
    BY <1>0, <1>3 DEF InHand, KallocUnlink, Goto, TypeOK
  <2> QED BY <1>2, <2>2, <2>3, <2>4 DEF KallocUnlink, Goto, InHand, OnList
<1>8. NoPageLost'
  BY <1>0, <1>7 DEF NoPageLost
<1>9. NoPageTwice'
  BY <1>0, <1>7 DEF NoPageTwice
<1> QED BY <1>4, <1>5, <1>6, <1>8, <1>9

(* KallocReturn: the page in hand becomes the caller's.                    *)
LEMMA ReturnStep ==
  ASSUME IInv, NEW c \in CPU, KallocReturn(c)
  PROVE  IInv'
<1> USE DEF IInv
<1>0. NULL \notin CPU /\ NULL \notin Page
  BY NULLAssumption, NCPUAssumption, NPAGESAssumption DEF CPU, Page
<1>1. r[c] \in Page \cup {NULL}
  BY DEF TypeOK
<1>2. TypeOK'
  BY <1>1 DEF TypeOK, Labels, Goto, KallocReturn
<1>3. LockInv'
  BY <1>0 DEF KallocReturn, Goto, LockInv, Target, TypeOK
<1>4. LocalInv'
  BY <1>0 DEF KallocReturn, Goto, LocalInv, Target, TypeOK
<1>5. /\ freelist' = freelist
      /\ out' = out \cup InHand(c)
      /\ \A d \in CPU : OnList(d)' = OnList(d)
      /\ \A d \in CPU : InHand(d)' = IF d = c THEN {} ELSE InHand(d)
  BY <1>0 DEF KallocReturn, Goto, OnList, InHand, TypeOK
<1>6. NoPageLost'
  BY <1>5 DEF NoPageLost
<1>7. NoPageTwice'
  BY <1>5 DEF NoPageTwice
<1> QED BY <1>2, <1>3, <1>4, <1>6, <1>7

(* KfreeEnter: the page its owner gives back is in the CPU's hand.         *)
LEMMA FreeEnterStep ==
  ASSUME IInv, NEW c \in CPU, NEW pa \in Page, KfreeEnter(c, pa)
  PROVE  IInv'
<1> USE DEF IInv
<1>0. NULL \notin CPU /\ NULL \notin Page
  BY NULLAssumption, NCPUAssumption, NPAGESAssumption DEF CPU, Page
<1>1. TypeOK'
  BY DEF TypeOK, Labels, Goto, KfreeEnter
<1>2. LockInv'
  BY <1>0 DEF KfreeEnter, Goto, LockInv, Target, TypeOK
<1>3. LocalInv'
  BY <1>0 DEF KfreeEnter, Goto, LocalInv, Target, TypeOK
<1>4. /\ freelist' = freelist
      /\ pa \in out /\ out' = out \ {pa}
      /\ \A d \in CPU : OnList(d)' = OnList(d)
      /\ \A d \in CPU : InHand(d)' = IF d = c THEN {pa} ELSE InHand(d)
      /\ InHand(c) = {}
  BY <1>0 DEF KfreeEnter, Goto, OnList, InHand, TypeOK, LocalInv
<1>5. NoPageLost'
  BY <1>4 DEF NoPageLost
<1>6. NoPageTwice'
  BY <1>4 DEF NoPageTwice
<1> QED BY <1>1, <1>2, <1>3, <1>5, <1>6

(* KfreePush: the page in hand goes onto the CPU's own list.               *)
LEMMA PushStep ==
  ASSUME IInv, NEW c \in CPU, KfreePush(c)
  PROVE  IInv'
<1> USE DEF IInv
<1> DEFINE s == freelist[c]
           t == <<r[c]>> \o s
<1>0. NULL \notin CPU /\ NULL \notin Page
  BY NULLAssumption, NCPUAssumption, NPAGESAssumption DEF CPU, Page
<1>1. pc[c] = "f_push" /\ r[c] \in Page /\ InHand(c) = {r[c]}
  BY <1>0 DEF KfreePush, Goto, LocalInv, InHand
<1>2. /\ s \in Seq(Page) /\ IsInjective(s)
      /\ r[c] \notin Range(s)
  BY <1>1 DEF TypeOK, NoPageTwice, OnList
<1>3. /\ t \in Seq(Page)
      /\ Range(t) = {r[c]} \cup Range(s)
      /\ IsInjective(t)
  BY <1>1, <1>2, PushLemma
<1>4. \A d \in CPU : freelist'[d] = IF d = c THEN t ELSE freelist[d]
  BY DEF KfreePush, TypeOK
<1> HIDE DEF t
<1>5. TypeOK'
  <2>1. freelist' \in [CPU -> Seq(Page)]
    BY <1>3 DEF KfreePush, TypeOK, t
  <2>2. lock' \in [CPU -> CPU \cup {NULL}]
    BY DEF KfreePush, TypeOK, release
  <2> QED BY <2>1, <2>2 DEF TypeOK, Labels, Goto, KfreePush
<1>6. LockInv'
  BY <1>0, <1>1 DEF KfreePush, Goto, release, LockInv, Target, TypeOK
<1>7. LocalInv'
  <2> SUFFICES ASSUME NEW d \in CPU
               PROVE  /\ pc'[d] \in {"idle", "acquire", "load", "miss"} => r'[d] = NULL
                      /\ pc'[d] \in {"f_acquire", "f_push"} => r'[d] \in Page
                      /\ pc'[d] = "unlink" =>
                           /\ freelist'[Target(d)] # <<>>
                           /\ r'[d] = Head(freelist'[Target(d)])
    BY DEF LocalInv, Target, KfreePush
  <2>1. CASE d = c
    BY <2>1 DEF KfreePush, Goto, TypeOK
  <2>2. CASE d # c
    <3>1. pc'[d] = pc[d] /\ r'[d] = r[d]
      BY <2>2 DEF KfreePush, Goto, TypeOK
    <3>2. pc[d] = "unlink" => Target(d) # c
      BY <2>2, <1>1, TargetLemma, Exclusion
    <3>3. pc[d] = "unlink" => freelist'[Target(d)] = freelist[Target(d)]
      BY <3>2, <1>4, TargetLemma
    <3> QED BY <3>1, <3>3 DEF LocalInv
  <2> QED BY <2>1, <2>2
<1>8. /\ out' = out
      /\ \A d \in CPU : IsInjective(freelist'[d])
      /\ \A d \in CPU : OnList(d)' = IF d = c THEN {r[c]} \cup OnList(d) ELSE OnList(d)
      /\ \A d \in CPU : InHand(d)' = IF d = c THEN {} ELSE InHand(d)
  <2>1. \A d \in CPU : IsInjective(freelist'[d])
    BY <1>3, <1>4 DEF NoPageTwice
  <2>2. \A d \in CPU : OnList(d)' = IF d = c THEN {r[c]} \cup OnList(d) ELSE OnList(d)
    BY <1>3, <1>4 DEF OnList
  <2>3. \A d \in CPU : InHand(d)' = IF d = c THEN {} ELSE InHand(d)
    BY <1>0 DEF InHand, KfreePush, Goto, TypeOK
  <2> QED BY <2>1, <2>2, <2>3 DEF KfreePush
<1>9. NoPageLost'
  BY <1>1, <1>8 DEF NoPageLost
<1>10. NoPageTwice'
  BY <1>1, <1>8 DEF NoPageTwice
<1> QED BY <1>5, <1>6, <1>7, <1>9, <1>10

-----------------------------------------------------------------------------
LEMMA NextIInv == IInv /\ [Next]_vars => IInv'
<1> SUFFICES ASSUME IInv, [Next]_vars PROVE IInv'
  OBVIOUS
<1>1. CASE UNCHANGED vars
  BY <1>1 DEF vars, IInv, TypeOK, LockInv, LocalInv, NoPageLost, NoPageTwice,
              Target, OnList, InHand
<1>2. CASE Next
  <2> PICK c \in CPU :
        \/ KallocEnter(c)
        \/ \E pa \in Page : KfreeEnter(c, pa)
        \/ CallStep(c)
    BY <1>2 DEF Next
  <2> QED
    BY ControlStep, LoadStep, UnlinkStep, ReturnStep, FreeEnterStep, PushStep
    DEF CallStep
<1> QED BY <1>1, <1>2

(* In every reachable state of the allocator, whatever the number of CPUs  *)
(* and of pages: the types, the lock discipline and both page invariants.  *)
THEOREM Invariance == Spec => []IInv
<1>1. IInv /\ [Next]_vars => IInv'
  BY NextIInv
<1> QED BY InitIInv, <1>1, PTL DEF Spec

(* Type correctness (Lab3/kernel/kalloc.c, the whole allocator).           *)
THEOREM TypeCorrectness == Spec => []TypeOK
<1>1. IInv => TypeOK
  BY DEF IInv
<1> QED BY <1>1, Invariance, PTL

(* No page is ever lost by kalloc(), by kfree() or by a steal from another *)
(* CPU's list.                                                             *)
THEOREM PagesConserved == Spec => []NoPageLost
<1>1. IInv => NoPageLost
  BY DEF IInv
<1> QED BY <1>1, Invariance, PTL

(* No page is ever handed out while it is free or owned.                   *)
THEOREM PagesExclusive == Spec => []NoPageTwice
<1>1. IInv => NoPageTwice
  BY DEF IInv
<1> QED BY <1>1, Invariance, PTL

(* Seen from its clients the allocator is the abstract one: unlinking the  *)
(* head of a list is a Pick, kalloc()'s return a Return unless it failed,  *)
(* kfree()'s call a Free, and every other step a stutter.                  *)
THEOREM Refinement == Spec => ImplementsPageAllocator
<1> DEFINE hand == [c \in CPU |-> Picked(c)]
<1>1. Init => Abstract!Init
  BY DEF Init, Abstract!Init, Picked
<1>2. IInv /\ [Next]_vars => [Abstract!Next]_(Abstract!avars)
  <2> SUFFICES ASSUME IInv, [Next]_vars
               PROVE  Abstract!Next \/ UNCHANGED <<hand, out>>
    BY DEF Abstract!avars
  <2> USE DEF IInv
  <2>1. CASE UNCHANGED vars
    BY <2>1 DEF vars, Picked
  <2>2. ASSUME NEW c \in CPU, KallocReturn(c)
        PROVE  Abstract!Next \/ UNCHANGED <<hand, out>>
    <3>1. hand[c] = r[c] /\ hand' = [hand EXCEPT ![c] = NULL]
      BY <2>2 DEF KallocReturn, Goto, Picked, TypeOK
    <3>2. CASE r[c] = NULL
      <4>1. hand' = hand
        BY <3>1, <3>2
      <4> QED BY <2>2, <3>2, <4>1 DEF KallocReturn
    <3>3. CASE r[c] # NULL
      <4>1. Abstract!Return(c)
        BY <2>2, <3>1, <3>3 DEF KallocReturn, Abstract!Return
      <4> QED BY <4>1 DEF Abstract!Next
    <3> QED BY <3>2, <3>3
  <2>3. ASSUME NEW c \in CPU, KallocUnlink(c)
        PROVE  Abstract!Next
    <3>1. Target(c) \in CPU /\ NULL \notin Page
      BY TargetLemma, NULLAssumption, NPAGESAssumption DEF Page
    <3>2. r[c] = Head(freelist[Target(c)]) /\ freelist[Target(c)] # <<>>
      BY <2>3 DEF KallocUnlink, Goto, LocalInv
    <3>3. freelist[Target(c)] \in Seq(Page) /\ IsInjective(freelist[Target(c)])
      BY <3>1 DEF TypeOK, NoPageTwice
    <3>4. r[c] \in OnList(Target(c)) /\ r[c] \in Page
      BY <3>2, <3>3, PopLemma DEF OnList
    <3>5. r[c] \notin out /\ \A d \in CPU : r[c] \notin InHand(d)
      BY <3>1, <3>4 DEF NoPageTwice
    <3>6. \A d \in CPU : hand[d] # r[c]
      BY <3>1, <3>4, <3>5 DEF Picked, InHand
    <3>7. hand[c] = NULL /\ hand' = [hand EXCEPT ![c] = r[c]]
      BY <2>3 DEF KallocUnlink, Goto, Picked, TypeOK
    <3>8. Abstract!Pick(c, r[c])
      BY <2>3, <3>5, <3>6, <3>7 DEF KallocUnlink, Abstract!Pick
    <3> QED BY <3>4, <3>8 DEF Abstract!Next
  <2>4. ASSUME NEW c \in CPU, NEW pa \in Page, KfreeEnter(c, pa)
        PROVE  Abstract!Next
    <3>1. UNCHANGED hand
      BY <2>4 DEF KfreeEnter, Goto, Picked, TypeOK
    <3> QED BY <2>4, <3>1 DEF KfreeEnter, Abstract!Next, Abstract!Free
  <2>5. ASSUME NEW c \in CPU,
               \/ KallocEnter(c) \/ KallocAcquire(c) \/ KallocLoad(c)
               \/ KallocMiss(c) \/ KfreeAcquire(c) \/ KfreePush(c)
        PROVE  UNCHANGED <<hand, out>>
    <3>1. UNCHANGED out
      BY <2>5 DEF KallocEnter, KallocAcquire, KallocLoad, KallocMiss,
                  KfreeAcquire, KfreePush
    <3>2. \A d \in CPU : Picked(d)' = Picked(d)
      BY <2>5 DEF KallocEnter, KallocAcquire, KallocLoad, KallocMiss,
                  KfreeAcquire, KfreePush, Goto, Picked, TypeOK, LocalInv
    <3> QED BY <3>1, <3>2
  <2> QED BY <2>1, <2>2, <2>3, <2>4, <2>5 DEF Next, CallStep
<1> QED BY <1>1, <1>2, Invariance, PTL
        DEF Spec, ImplementsPageAllocator, Abstract!Spec

-----------------------------------------------------------------------------
(* When kalloc() may fail                                                  *)

(* The search goes once round all the lists.                               *)
LEMMA RoundLemma ==
  ASSUME NEW c \in CPU, NEW l \in CPU
  PROVE  \E k \in 0 .. NCPU - 1 : (c + k) % NCPU = l
<1> USE NCPUAssumption DEF CPU
<1>1. CASE l >= c
  <2>1. l - c \in 0 .. NCPU - 1 /\ c + (l - c) = l
    BY <1>1
  <2>2. l % NCPU = l
    OBVIOUS
  <2> QED BY <2>1, <2>2
<1>2. CASE l < c
  <2>1. /\ l - c + NCPU \in 0 .. NCPU - 1
        /\ c + (l - c + NCPU) = l + NCPU
    BY <1>2
  <2>2. (l + NCPU) % NCPU = l
    OBVIOUS
  <2> QED BY <2>1, <2>2
<1> QED BY <1>1, <1>2

(* A step of Kalloc with the history beside it.                            *)
LEMMA SearchIsKalloc == [SearchNext]_searchVars => [Next]_vars
  BY DEF SearchNext, searchVars, Next

LEMMA SearchInit_Inv == SearchInit => IInv /\ SearchInv
  BY InitIInv DEF SearchInit, Init, SearchInv, FailsOnlyIfAllRanDry

(* kalloc()'s call begins before it has passed a list.                     *)
LEMMA SearchEnterStep ==
  ASSUME IInv, SearchInv, NEW c \in CPU, KallocEnter(c),
         stocked' = [stocked EXCEPT ![c] = Stocked]
  PROVE  SearchInv'
<1> USE DEF SearchInv
<1>1. Stocked \in SUBSET CPU
  BY DEF Stocked
<1>2. stocked' \in [CPU -> SUBSET CPU]
  BY <1>1
<1>3. ASSUME NEW d \in CPU, d # c
      PROVE  /\ pc'[d] = pc[d] /\ r'[d] = r[d] /\ stocked'[d] = stocked[d]
             /\ Passed(d)' = Passed(d)
  BY <1>3 DEF KallocEnter, Goto, IInv, TypeOK, Passed
<1>4. pc'[c] = "acquire" /\ i'[c] = 0
  BY DEF KallocEnter, Goto, IInv, TypeOK
<1>5. Passed(c)' = {}
  BY <1>4 DEF Passed
<1>6. ASSUME NEW d \in CPU, pc'[d] \in {"acquire", "load", "miss"}
      PROVE  stocked'[d] \cap Passed(d)' = {}
  BY <1>3, <1>5, <1>6
<1>7. FailsOnlyIfAllRanDry'
  BY <1>3, <1>4 DEF FailsOnlyIfAllRanDry
<1> QED BY <1>2, <1>6, <1>7

(* Every other step only takes lists away from the history.                *)
LEMMA SearchCallStep ==
  ASSUME IInv, SearchInv, NEW c \in CPU,
         (\E pa \in Page : KfreeEnter(c, pa)) \/ CallStep(c),
         stocked' = [d \in CPU |-> IF pc'[d] = "idle" THEN {}
                                   ELSE stocked[d] \cap Stocked']
  PROVE  SearchInv'
<1> USE DEF SearchInv
<1>1. /\ stocked' \in [CPU -> SUBSET CPU]
      /\ \A d \in CPU : stocked'[d] \subseteq stocked[d]
      /\ \A d \in CPU : stocked'[d] \subseteq Stocked'
  OBVIOUS
<1>2. ASSUME NEW d \in CPU, d # c
      PROVE  pc'[d] = pc[d] /\ i'[d] = i[d] /\ r'[d] = r[d]
  BY <1>2 DEF CallStep, KallocAcquire, KallocLoad, KallocUnlink, KallocMiss,
              KallocReturn, KfreeEnter, KfreeAcquire, KfreePush, Goto, IInv, TypeOK
<1>3. ASSUME NEW d \in CPU, d # c
      PROVE  /\ pc'[d] \in {"acquire", "load", "miss"}
                  => stocked'[d] \cap Passed(d)' = {}
             /\ pc'[d] = "return" /\ r'[d] = NULL => stocked'[d] = {}
  <2>1. Passed(d)' = Passed(d)
    BY <1>2, <1>3 DEF Passed
  <2> QED BY <1>1, <1>2, <1>3, <2>1 DEF FailsOnlyIfAllRanDry
<1>4. i[c] \in Nat /\ i[c] < NCPU /\ NULL \notin Page /\ Target(c) \in CPU
  <2>1. i[c] \in CPU /\ Target(c) \in CPU
    BY TargetLemma DEF IInv, TypeOK
  <2>2. NULL \notin Page
    BY NULLAssumption, NPAGESAssumption DEF Page
  <2> QED BY <2>1, <2>2, NCPUAssumption DEF CPU
<1>5. /\ pc'[c] \in {"acquire", "load", "miss"} => stocked'[c] \cap Passed(c)' = {}
      /\ pc'[c] = "return" /\ r'[c] = NULL => stocked'[c] = {}
  <2>1. CASE KallocAcquire(c)
    <3>1. pc[c] = "acquire" /\ pc'[c] = "load" /\ i'[c] = i[c]
      BY <2>1 DEF KallocAcquire, Goto, IInv, TypeOK
    <3>2. Passed(c)' = Passed(c)
      BY <3>1 DEF Passed
    <3> QED BY <1>1, <3>1, <3>2
  <2>2. CASE KallocLoad(c)
    <3>1. pc[c] = "load" /\ pc'[c] \in {"miss", "unlink"} /\ i'[c] = i[c]
      BY <2>2 DEF KallocLoad, Goto, IInv, TypeOK
    <3>2. CASE pc'[c] = "miss"
      <4>1. freelist'[Target(c)] = <<>>
        BY <2>2, <3>2 DEF KallocLoad, Goto, IInv, TypeOK
      <4>2. Target(c) \notin stocked'[c]
        BY <1>1, <4>1 DEF Stocked
      <4>3. Passed(c)' \subseteq Passed(c) \cup {Target(c)}
        <5>1. ASSUME NEW k \in 0 .. i[c], k # i[c] PROVE k \in 0 .. i[c] - 1
          BY <1>4, <5>1
        <5>2. Passed(c)' = {(c + k) % NCPU : k \in 0 .. i[c]}
          BY <3>1, <3>2 DEF Passed
        <5>3. Passed(c) = {(c + k) % NCPU : k \in 0 .. i[c] - 1}
          BY <3>1 DEF Passed
        <5> QED BY <5>1, <5>2, <5>3 DEF Target
      <4> QED BY <1>1, <3>1, <3>2, <4>2, <4>3
    <3> QED BY <3>1, <3>2
  <2>3. CASE KallocMiss(c)
    <3>1. pc[c] = "miss" /\ stocked[c] \cap Passed(c) = {}
      BY <2>3 DEF KallocMiss, Goto
    <3>2. Passed(c) = {(c + k) % NCPU : k \in 0 .. i[c]}
      BY <3>1 DEF Passed
    <3>3. CASE i[c] + 1 < NCPU
      <4>1. pc'[c] = "acquire" /\ i'[c] = i[c] + 1
        BY <2>3, <3>3 DEF KallocMiss, Goto, IInv, TypeOK
      <4>2. i'[c] - 1 = i[c]
        BY <1>4, <4>1
      <4>3. Passed(c)' = Passed(c)
        BY <3>2, <4>1, <4>2 DEF Passed
      <4> QED BY <1>1, <3>1, <4>1, <4>3
    <3>4. CASE ~(i[c] + 1 < NCPU)
      <4>1. pc'[c] = "return"
        BY <2>3, <3>4 DEF KallocMiss, Goto, IInv, TypeOK
      <4>2. i[c] = NCPU - 1
        BY <1>4, <3>4, NCPUAssumption
      <4>3. \A l \in CPU : l \in Passed(c)
        BY <3>2, <4>2, RoundLemma
      <4>4. stocked[c] = {}
        BY <3>1, <4>3
      <4> QED BY <1>1, <4>1, <4>4
    <3> QED BY <3>3, <3>4
  <2>4. CASE KallocUnlink(c)
    <3>1. /\ freelist[Target(c)] # <<>>
          /\ freelist[Target(c)] \in Seq(Page)
          /\ r[c] = Head(freelist[Target(c)])
      BY <2>4, <1>4 DEF KallocUnlink, Goto, IInv, LocalInv, TypeOK
    <3>2. r[c] \in Page
      BY <3>1
    <3>3. pc'[c] = "return" /\ r'[c] = r[c]
      BY <2>4 DEF KallocUnlink, Goto, IInv, TypeOK
    <3> QED BY <1>4, <3>2, <3>3
  <2>5. CASE KallocReturn(c) \/ KfreePush(c)
    BY <2>5 DEF KallocReturn, KfreePush, Goto, IInv, TypeOK
  <2>6. CASE KfreeAcquire(c) \/ \E pa \in Page : KfreeEnter(c, pa)
    BY <2>6 DEF KfreeAcquire, KfreeEnter, Goto, IInv, TypeOK
  <2> QED BY <2>1, <2>2, <2>3, <2>4, <2>5, <2>6 DEF CallStep
<1>6. FailsOnlyIfAllRanDry'
  BY <1>3, <1>5 DEF FailsOnlyIfAllRanDry
<1> QED BY <1>1, <1>3, <1>5, <1>6

LEMMA SearchNext_Inv ==
  IInv /\ SearchInv /\ [SearchNext]_searchVars => SearchInv'
<1> SUFFICES ASSUME IInv, SearchInv, [SearchNext]_searchVars PROVE SearchInv'
  OBVIOUS
<1>1. CASE UNCHANGED searchVars
  BY <1>1 DEF searchVars, vars, SearchInv, Passed, FailsOnlyIfAllRanDry
<1>2. CASE SearchNext
  BY <1>2, SearchEnterStep, SearchCallStep DEF SearchNext
<1> QED BY <1>1, <1>2

(* kalloc() returns 0 only when every list was empty at some moment of the *)
(* call, whatever the number of CPUs and of pages: its search visits each  *)
(* list once, and a list it passes is empty under the list's lock.         *)
THEOREM FailureExplained == SearchSpec => []FailsOnlyIfAllRanDry
<1>1. IInv /\ SearchInv /\ [SearchNext]_searchVars => (IInv /\ SearchInv)'
  BY NextIInv, SearchIsKalloc, SearchNext_Inv
<1>2. SearchInv => FailsOnlyIfAllRanDry
  BY DEF SearchInv
<1> QED BY SearchInit_Inv, <1>1, <1>2, PTL DEF SearchSpec
=============================================================================
