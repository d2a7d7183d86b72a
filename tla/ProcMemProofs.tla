---------------------------- MODULE ProcMemProofs ----------------------------
(***************************************************************************)
(* Proofs about ProcMem: whatever allocation fails, no page is lost        *)
(* (PagesConserved), no slot is left half made (WholeOrEmpty), and the     *)
(* kernel stops only for want of a page-table page (OnlyMemoryPanics).     *)
(***************************************************************************)
EXTENDS ProcMem, FiniteSetTheorems, FunctionTheorems, SequenceTheorems,
        TLAPS

-----------------------------------------------------------------------------
(* The inductive invariant                                                 *)

User == {TRAMPOLINE, TRAPFRAME}
Kernel(s) == ToSet(KernelMap) \cup {KSTACK(s)}

Stages(c) ==
  CASE c = "none" -> {"none"}
    [] c = "fork" -> {"frame", "root", "tramp", "tframe", "kroot", "kmap",
                      "kstack", "mem", "map", "copy"}
    [] c = "exec" -> {"root", "tramp", "tframe", "mem", "map", "copy"}
    [] c = "grow" -> {"mem", "map", "copy"}

(* Which calls are at which stage, and where their indices are.            *)
CallOK(p) ==
  /\ stage[p] \in Stages(call[p])
  /\ call[p] # "none" => used[p]
  /\ call[p] # "fork" => np[p] = NULL
  /\ call[p] = "fork" => /\ np[p] \in Slot /\ ~used[np[p]]
                         /\ \A q \in Slot : np[q] = np[p] => q = p
  /\ stage[p] \in {"mem", "copy"} => i[p] \in 0 .. tgt[p]
  /\ stage[p] = "map" => i[p] \in 0 .. tgt[p] - 1
  /\ stage[p] = "kmap" => i[p] \in 1 .. 6
  /\ stage[p] \in {"root", "tramp", "tframe"} => i[p] = 0
  /\ call[p] = "grow" => sz[p] <= i[p] /\ sz[p] < tgt[p]
  /\ call[p] = "exec" /\ stage[p] = "copy" => tgt[p] = sz[p]

(* How many user pages the two tables of a process map: sz, and more while *)
(* sbrk() adds pages, fewer while exec() copies them.                      *)
InUser(s) ==
  IF call[s] # "grow" THEN sz[s] ELSE IF stage[s] = "copy" THEN tgt[s] ELSE i[s]
InKernel(s) ==
  IF call[s] \in {"grow", "exec"} /\ stage[s] = "copy" THEN i[s] ELSE sz[s]

UsedOK(s) ==
  used[s] => /\ frame[s]
             /\ Leaves(table[s].user) = User \cup UserPages(InUser(s))
             /\ Leaves(table[s].kernel) = Kernel(s) \cup UserPages(InKernel(s))
             /\ <<>> \in table[s].kernel

(* What proc_pagetable() and then uvmcopy() or uvmalloc() have mapped.     *)
Built(st, n) ==
  CASE st = "tframe" -> {TRAMPOLINE}
    [] st \in {"kroot", "kmap", "kstack"} -> User
    [] st \in {"mem", "map", "copy"} -> User \cup UserPages(n)
    [] OTHER -> {}

(* What proc_kvminit(), allocproc() and vmcopypage() have mapped.          *)
BuiltKernel(s, st, n) ==
  CASE st = "kmap" -> {KernelMap[j] : j \in 1 .. n - 1}
    [] st = "kstack" -> ToSet(KernelMap)
    [] st \in {"mem", "map"} -> Kernel(s)
    [] st = "copy" -> Kernel(s) \cup UserPages(n)
    [] OTHER -> {}

(* exec()'s new table.                                                     *)
NewOK(p) ==
  /\ call[p] # "exec" \/ stage[p] \in {"root", "copy"} => table[p].new = {}
  /\ call[p] = "exec" /\ stage[p] # "copy" =>
       Leaves(table[p].new) = Built(stage[p], i[p])

(* The slot c that p's fork() fills.                                       *)
FilledOK(p, c) ==
  /\ frame[c] <=> stage[p] # "frame"
  /\ Leaves(table[c].user) = Built(stage[p], IF stage[p] = "copy" THEN tgt[p] ELSE i[p])
  /\ Leaves(table[c].kernel) = BuiltKernel(c, stage[p], i[p])
  /\ stage[p] \in {"frame", "root"} => table[c].user = {}
  /\ stage[p] \in {"frame", "root", "tramp", "tframe", "kroot"} => table[c].kernel = {}
  /\ stage[p] \in {"mem", "map", "copy"} => <<>> \in table[c].kernel
  /\ stage[p] \in {"kmap", "kstack"} => zeroed \/ <<>> \in table[c].kernel

ForkOK(p) == call[p] = "fork" => FilledOK(p, np[p])

(* A slot that is UNUSED, and that no fork() is filling.                   *)
EmptyOK(s) ==
  ~used[s] /\ (\A q \in Slot : np[q] # s) =>
     ~frame[s] /\ table[s].user = {} /\ table[s].kernel = {}

SInv ==
  \A s \in Slot : CallOK(s) /\ UsedOK(s) /\ NewOK(s) /\ ForkOK(s) /\ EmptyOK(s)

Finite(tb) ==
  \A s \in Slot : /\ IsFiniteSet(tb[s].user)
                  /\ IsFiniteSet(tb[s].kernel)
                  /\ IsFiniteSet(tb[s].new)

(* The pages that are out: those that the slots hold, and those that were  *)
(* put below an overwritten page 0.                                        *)
CountInv ==
  /\ Cardinality(Held) <= taken
  /\ ~zeroed => taken = Cardinality(Held)

IInv ==
  /\ TypeOK
  /\ OnlyMemoryPanics
  /\ Finite(table)
  /\ CountInv
  /\ panic = NULL => SInv

-----------------------------------------------------------------------------
(* Positions                                                               *)

(* The two indices of a user page determine it.                            *)
LEMMA DivMod ==
  ASSUME NEW x \in Nat
  PROVE  /\ x \div PERTABLE \in Nat
         /\ x % PERTABLE \in 0 .. PERTABLE - 1
         /\ x = (x \div PERTABLE) * PERTABLE + (x % PERTABLE)
BY PERTABLEAssumption

(* A user page is below PLIC.                                              *)
LEMMA DivBelow ==
  ASSUME NEW x \in Nat, x < 96 * PERTABLE
  PROVE  x \div PERTABLE < 96
<1> USE PERTABLEAssumption
<1>1. /\ x \div PERTABLE \in Nat /\ x % PERTABLE \in 0 .. PERTABLE - 1
      /\ x = (x \div PERTABLE) * PERTABLE + (x % PERTABLE)
  BY DivMod
<1> DEFINE d == x \div PERTABLE
<1>2. d \in Nat /\ d * PERTABLE <= x
  BY <1>1
<1> HIDE DEF d
<1>3. CASE d >= 96
  <2>1. PICK e \in Nat : d = 96 + e
    <3>1. d - 96 \in Nat /\ d = 96 + (d - 96)
      BY <1>2, <1>3
    <3> QED BY <3>1
  <2>2. d * PERTABLE = 96 * PERTABLE + e * PERTABLE
    BY <2>1
  <2>3. e * PERTABLE \in Nat
    BY <2>1
  <2> QED BY <1>2, <2>2, <2>3
<1> QED BY <1>2, <1>3 DEF d

(* Different user pages are at different positions.                        *)
LEMMA UserPageInjective ==
  ASSUME NEW a \in Nat, NEW b \in Nat, UserPage(a) = UserPage(b)
  PROVE  a = b
<1>1. a \div PERTABLE = b \div PERTABLE /\ a % PERTABLE = b % PERTABLE
  BY DEF UserPage
<1>2. /\ a = (a \div PERTABLE) * PERTABLE + (a % PERTABLE)
      /\ b = (b \div PERTABLE) * PERTABLE + (b % PERTABLE)
  BY DivMod
<1> QED BY <1>1, <1>2, Zenon

(* The six pages that proc_kvminit() maps.                                 *)
LEMMA KernelMapEntries ==
  /\ Len(KernelMap) = 6
  /\ ToSet(KernelMap) = {KernelMap[j] : j \in 1 .. 6}
  /\ ToSet(KernelMap) = {<<0, 128, 0>>, <<0, 128, 1>>, <<0, 96, 0>>,
                         <<2, 0, 0>>, <<2, 1, 0>>, TRAMPOLINE}
<1>1. Len(KernelMap) = 6 /\ DOMAIN KernelMap = 1 .. 6
  BY DEF KernelMap
<1>2. ToSet(KernelMap) = {KernelMap[j] : j \in 1 .. 6}
  BY <1>1 DEF ToSet
<1>3. \A j \in 1 .. 6 : j \in {1, 2, 3, 4, 5, 6}
  OBVIOUS
<1>4. /\ KernelMap[1] = <<0, 128, 0>> /\ KernelMap[2] = <<0, 128, 1>>
      /\ KernelMap[3] = <<0, 96, 0>> /\ KernelMap[4] = <<2, 0, 0>>
      /\ KernelMap[5] = <<2, 1, 0>> /\ KernelMap[6] = TRAMPOLINE
  BY DEF KernelMap
<1>5. {KernelMap[j] : j \in 1 .. 6}
       = {KernelMap[1], KernelMap[2], KernelMap[3], KernelMap[4], KernelMap[5], KernelMap[6]}
  BY <1>3
<1> QED BY <1>1, <1>2, <1>4, <1>5

(* proc_kvminit() maps no page twice.                                      *)
LEMMA KernelMapInjective ==
  \A j, k \in 1 .. 6 : KernelMap[j] = KernelMap[k] => j = k
<1>1. \A j \in 1 .. 6 : j \in {1, 2, 3, 4, 5, 6}
  OBVIOUS
<1>2. /\ KernelMap[1] = <<0, 128, 0>> /\ KernelMap[2] = <<0, 128, 1>>
      /\ KernelMap[3] = <<0, 96, 0>> /\ KernelMap[4] = <<2, 0, 0>>
      /\ KernelMap[5] = <<2, 1, 0>> /\ KernelMap[6] = <<255, 511, 511>>
  BY DEF KernelMap, TRAMPOLINE
<1>3. /\ <<0, 128, 0>> # <<0, 128, 1>> /\ <<0, 128, 0>> # <<0, 96, 0>>
      /\ <<0, 128, 0>> # <<2, 0, 0>> /\ <<0, 128, 0>> # <<2, 1, 0>>
      /\ <<0, 128, 0>> # <<255, 511, 511>>
      /\ <<0, 128, 1>> # <<0, 96, 0>> /\ <<0, 128, 1>> # <<2, 0, 0>>
      /\ <<0, 128, 1>> # <<2, 1, 0>> /\ <<0, 128, 1>> # <<255, 511, 511>>
      /\ <<0, 96, 0>> # <<2, 0, 0>> /\ <<0, 96, 0>> # <<2, 1, 0>>
      /\ <<0, 96, 0>> # <<255, 511, 511>>
      /\ <<2, 0, 0>> # <<2, 1, 0>> /\ <<2, 0, 0>> # <<255, 511, 511>>
      /\ <<2, 1, 0>> # <<255, 511, 511>>
  OBVIOUS
<1> QED BY <1>1, <1>2, <1>3

(* A mapping: a position with three indices.                               *)
Mapping == {x \in Position : Len(x) = 3}

(* No two regions of memory share a position.                              *)
LEMMA Regions ==
  /\ TRAMPOLINE \in Mapping /\ TRAPFRAME \in Mapping /\ TRAMPOLINE # TRAPFRAME
  /\ TRAMPOLINE \in ToSet(KernelMap) /\ TRAPFRAME \notin ToSet(KernelMap)
  /\ \A x \in ToSet(KernelMap) : x \in Mapping
  /\ \A s \in Slot : KSTACK(s) \in Mapping /\ KSTACK(s) \notin ToSet(KernelMap)
  /\ \A n \in 0 .. MAXPAGES : \A x \in UserPages(n) : x \in Mapping
  /\ \A n \in 0 .. MAXPAGES : \A x \in UserPages(n) : x \notin User
  /\ \A n \in 0 .. MAXPAGES : \A x \in UserPages(n) : x \notin ToSet(KernelMap)
  /\ \A n \in 0 .. MAXPAGES : \A s \in Slot : KSTACK(s) \notin UserPages(n)
<1> USE NPROCAssumption
<1>1. \A a, b, c \in Int : <<a, b, c>> \in Mapping
  BY DEF Mapping, Position
<1>2. ToSet(KernelMap) = {<<0, 128, 0>>, <<0, 128, 1>>, <<0, 96, 0>>,
                          <<2, 0, 0>>, <<2, 1, 0>>, <<255, 511, 511>>}
  BY KernelMapEntries DEF TRAMPOLINE
<1>3. TRAMPOLINE \in Mapping /\ TRAPFRAME \in Mapping /\ TRAMPOLINE # TRAPFRAME
  BY <1>1 DEF TRAMPOLINE, TRAPFRAME
<1>4. TRAMPOLINE \in ToSet(KernelMap)
  BY <1>2 DEF TRAMPOLINE
<1>5. TRAPFRAME \notin ToSet(KernelMap)
  BY <1>2 DEF TRAPFRAME
<1>6. \A x \in ToSet(KernelMap) : x \in Mapping
  BY <1>1, <1>2
<1>7. \A s \in Slot : KSTACK(s) \in Mapping /\ KSTACK(s) \notin ToSet(KernelMap)
  <2> TAKE s \in Slot
  <2>1. 511 - 2 * s \in Int /\ 511 - 2 * s # 511
    BY DEF Slot
  <2>2. KSTACK(s) \in Mapping
    BY <1>1, <2>1 DEF KSTACK
  <2>3. KSTACK(s)[1] = 255 /\ KSTACK(s)[3] # 511
    BY <2>1 DEF KSTACK
  <2>4. \A x \in ToSet(KernelMap) : x[1] # 255 \/ x[3] = 511
    BY <1>2
  <2> QED BY <2>2, <2>3, <2>4
<1>8. \A n \in 0 .. MAXPAGES : \A x \in UserPages(n) :
        x \in Mapping /\ x[1] = 0 /\ x[2] < 96 /\ x[2] \in Nat
  <2> SUFFICES ASSUME NEW n \in 0 .. MAXPAGES, NEW a \in 0 .. n - 1
               PROVE  LET x == UserPage(a) IN
                      x \in Mapping /\ x[1] = 0 /\ x[2] < 96 /\ x[2] \in Nat
    BY DEF UserPages
  <2>1. a \in Nat /\ a < 96 * PERTABLE
    BY PERTABLEAssumption, MAXPAGESAssumption
  <2>2. a \div PERTABLE \in Nat /\ a % PERTABLE \in Nat /\ a \div PERTABLE < 96
    BY <2>1, DivMod, DivBelow
  <2> DEFINE d == a \div PERTABLE
             m == a % PERTABLE
  <2>3. UserPage(a) = <<0, d, m>> /\ d \in Nat /\ d < 96 /\ m \in Nat
    BY <2>2 DEF UserPage
  <2> HIDE DEF d, m
  <2> QED BY <2>3, <1>1
<1>9. \A n \in 0 .. MAXPAGES : \A x \in UserPages(n) : x \notin User
  <2>1. TRAMPOLINE[1] # 0 /\ TRAPFRAME[1] # 0
    BY DEF TRAMPOLINE, TRAPFRAME
  <2> QED BY <1>8, <2>1 DEF User
<1>10. \A n \in 0 .. MAXPAGES : \A x \in UserPages(n) : x \notin ToSet(KernelMap)
  <2>1. \A x \in ToSet(KernelMap) : x[1] # 0 \/ x[2] >= 96
    BY <1>2
  <2> QED BY <1>8, <2>1
<1>11. \A n \in 0 .. MAXPAGES : \A s \in Slot : KSTACK(s) \notin UserPages(n)
  <2>1. \A s \in Slot : KSTACK(s)[1] = 255
    BY DEF KSTACK
  <2> QED BY <1>8, <2>1
<1> QED BY <1>3, <1>4, <1>5, <1>6, <1>7, <1>8, <1>9, <1>10, <1>11

(* One page more.                                                          *)
LEMMA UserPagesNext ==
  ASSUME NEW n \in Nat
  PROVE  /\ UserPages(n + 1) = UserPages(n) \cup {UserPage(n)}
         /\ UserPage(n) \notin UserPages(n)
<1>1. 0 .. (n + 1) - 1 = (0 .. n - 1) \cup {n}
  OBVIOUS
<1>2. UserPages(n + 1) = UserPages(n) \cup {UserPage(n)}
  BY <1>1 DEF UserPages
<1>3. ASSUME NEW a \in 0 .. n - 1, UserPage(n) = UserPage(a) PROVE FALSE
  <2>1. a \in Nat /\ a # n
    OBVIOUS
  <2> QED BY <1>3, <2>1, UserPageInjective
<1> QED BY <1>2, <1>3 DEF UserPages

(* A larger memory contains the smaller one.                               *)
LEMMA UserPagesGrow ==
  ASSUME NEW m \in Nat, NEW n \in Nat, m <= n
  PROVE  UserPages(m) \subseteq UserPages(n)
<1>1. \A a \in 0 .. m - 1 : a \in 0 .. n - 1
  OBVIOUS
<1> QED BY <1>1 DEF UserPages

(* A memory of no pages.                                                   *)
LEMMA NoUserPages == UserPages(0) = {}
BY DEF UserPages

(* A memory of n pages has n of them.                                      *)
LEMMA UserPagesCount ==
  ASSUME NEW n \in Nat
  PROVE  IsFiniteSet(UserPages(n)) /\ Cardinality(UserPages(n)) = n
<1> DEFINE S == 0 .. n - 1
           f == [a \in S |-> UserPage(a)]
<1>1. IsFiniteSet(S) /\ Cardinality(S) = n
  <2>1. 0 \in Int /\ n - 1 \in Int
    OBVIOUS
  <2> QED BY <2>1, FS_Interval
<1>2. UserPages(n) = {UserPage(a) : a \in S} /\ \A a \in S : a \in Nat
  BY DEF UserPages
<1> HIDE DEF S
<1>3. f \in [S -> UserPages(n)]
  BY <1>2
<1>4. \A a, b \in S : f[a] = f[b] => a = b
  BY <1>2, UserPageInjective
<1>5. \A x \in UserPages(n) : \E a \in S : f[a] = x
  BY <1>2
<1> HIDE DEF f
<1>6. f \in Bijection(S, UserPages(n))
  BY <1>3, <1>4, <1>5 DEF Bijection, Injection, Surjection, IsInjective
<1>7. ExistsBijection(S, UserPages(n))
  BY <1>6 DEF ExistsBijection
<1> QED BY <1>1, <1>7, FS_Bijection

-----------------------------------------------------------------------------
(* Counting pages                                                          *)

Pairs(H, D) == UNION {{q} \X H[q] : q \in D}

(* Finitely many finite sets.                                              *)
LEMMA PairsFinite ==
  ASSUME NEW D, IsFiniteSet(D), NEW H, \A q \in D : IsFiniteSet(H[q])
  PROVE  IsFiniteSet(Pairs(H, D))
<1> DEFINE F == {{q} \X H[q] : q \in D}
           f == [q \in D |-> {q} \X H[q]]
<1>1. f \in Surjection(D, F)
  BY DEF Surjection
<1>2. IsFiniteSet(F)
  BY <1>1, FS_Surjection
<1>3. \A q \in D : IsFiniteSet({q} \X H[q])
  BY FS_Singleton, FS_Product
<1>4. \A T \in F : IsFiniteSet(T)
  BY <1>3
<1> QED BY <1>2, <1>4, FS_UNION DEF Pairs

(* One of the sets counts for itself.                                      *)
LEMMA PairsSplit ==
  ASSUME NEW D, IsFiniteSet(D), NEW H, \A q \in D : IsFiniteSet(H[q]), NEW r \in D
  PROVE  /\ Cardinality(Pairs(H, D \ {r})) \in Nat
         /\ Cardinality(H[r]) \in Nat
         /\ Cardinality(Pairs(H, D)) = Cardinality(Pairs(H, D \ {r})) + Cardinality(H[r])
<1> DEFINE R == Pairs(H, D \ {r})
           X == {r} \X H[r]
<1>1. IsFiniteSet(R)
  <2>1. IsFiniteSet(D \ {r})
    BY FS_RemoveElement
  <2> QED BY <2>1, PairsFinite
<1>2. IsFiniteSet(X) /\ Cardinality(X) = Cardinality(H[r]) /\ Cardinality(H[r]) \in Nat
  <2>1. IsFiniteSet({r}) /\ Cardinality({r}) = 1
    BY FS_Singleton
  <2>2. IsFiniteSet(X) /\ Cardinality(X) = 1 * Cardinality(H[r])
    BY <2>1, FS_Product
  <2>3. Cardinality(H[r]) \in Nat
    BY FS_CardinalityType
  <2> QED BY <2>2, <2>3
<1>3. Pairs(H, D) = R \cup X
  BY DEF Pairs
<1>4. R \cap X = {}
  BY DEF Pairs
<1>5. Cardinality(R) \in Nat
  BY <1>1, FS_CardinalityType
<1> HIDE DEF R, X
<1>6. Cardinality(R \cup X) = Cardinality(R) + Cardinality(X) - Cardinality(R \cap X)
  BY <1>1, <1>2, FS_Union
<1>7. Cardinality(R \cap X) = 0
  BY <1>4, FS_EmptySet
<1> QED BY <1>2, <1>3, <1>5, <1>6, <1>7 DEF R

OneApart(G, H, D, r) ==
  /\ \A q \in D : IsFiniteSet(G[q])
  /\ \A q \in D : IsFiniteSet(H[q])
  /\ \A q \in D : q # r => G[q] = H[q]

(* When the sets differ at one place, so do the counts.                    *)
LEMMA PairsExchange ==
  ASSUME NEW D, IsFiniteSet(D), NEW G, NEW H, NEW r \in D, OneApart(G, H, D, r)
  PROVE  /\ Cardinality(Pairs(G, D)) \in Nat /\ Cardinality(Pairs(H, D)) \in Nat
         /\ Cardinality(G[r]) \in Nat /\ Cardinality(H[r]) \in Nat
         /\ Cardinality(Pairs(G, D))
              = Cardinality(Pairs(H, D)) - Cardinality(H[r]) + Cardinality(G[r])
<1>1. Pairs(G, D \ {r}) = Pairs(H, D \ {r})
  BY DEF Pairs, OneApart
<1>2. /\ Cardinality(Pairs(G, D \ {r})) \in Nat /\ Cardinality(G[r]) \in Nat
      /\ Cardinality(Pairs(G, D)) = Cardinality(Pairs(G, D \ {r})) + Cardinality(G[r])
  BY PairsSplit DEF OneApart
<1>3. /\ Cardinality(Pairs(H, D \ {r})) \in Nat /\ Cardinality(H[r]) \in Nat
      /\ Cardinality(Pairs(H, D)) = Cardinality(Pairs(H, D \ {r})) + Cardinality(H[r])
  BY PairsSplit DEF OneApart
<1> QED BY <1>1, <1>2, <1>3

One(b) == IF b THEN 1 ELSE 0
InHand(st) == IF st = "map" THEN 1 ELSE 0
PageCount(t) == Cardinality(t \ User)            \* user pages and page-table pages
TableCount(t) == Cardinality(TablePages(t))

(* There are finitely many places to hold a page.                          *)
LEMMA PlaceFinite == IsFiniteSet(Slot \X Place)
<1>1. IsFiniteSet(Slot)
  <2>1. 1 \in Int /\ NPROC \in Int
    BY NPROCAssumption
  <2> QED BY <2>1, FS_Interval DEF Slot
<1>2. IsFiniteSet(Place)
  <2>1. IsFiniteSet({"frame"})
    BY FS_Singleton
  <2>2. IsFiniteSet({"frame"} \cup {"mem"})
    BY <2>1, FS_AddElement
  <2>3. IsFiniteSet({"frame"} \cup {"mem"} \cup {"user"})
    BY <2>2, FS_AddElement
  <2>4. IsFiniteSet({"frame"} \cup {"mem"} \cup {"user"} \cup {"new"})
    BY <2>3, FS_AddElement
  <2>5. IsFiniteSet({"frame"} \cup {"mem"} \cup {"user"} \cup {"new"} \cup {"kernel"})
    BY <2>4, FS_AddElement
  <2>6. Place = {"frame"} \cup {"mem"} \cup {"user"} \cup {"new"} \cup {"kernel"}
    BY DEF Place
  <2> QED BY <2>5, <2>6
<1> QED BY <1>1, <1>2, FS_Product

(* What the slots hold, as a function of the three variables it depends on. *)
Hold(fr, st, tb) ==
  [q \in Slot \X Place |->
     CASE q[2] = "frame"  -> IF fr[q[1]] THEN {<<>>} ELSE {}
       [] q[2] = "mem"    -> IF st[q[1]] = "map" THEN {<<>>} ELSE {}
       [] q[2] = "user"   -> tb[q[1]].user \ User
       [] q[2] = "new"    -> tb[q[1]].new \ User
       [] q[2] = "kernel" -> TablePages(tb[q[1]].kernel)]

Count(fr, st, tb) == Cardinality(Pairs(Hold(fr, st, tb), Slot \X Place))

(* The model's set of pages has this count.                                *)
LEMMA HeldCount == Cardinality(Held) = Count(frame, stage, table)
<1>1. \A q \in Slot \X Place : Holds(q[1], q[2]) = Hold(frame, stage, table)[q]
  BY DEF Holds, Hold, Place, User
<1> QED BY <1>1 DEF Held, Count, Pairs

(* A page that is there or not counts one or nothing.                      *)
LEMMA OneCount ==
  ASSUME NEW b \in BOOLEAN
  PROVE  /\ IsFiniteSet(IF b THEN {<<>>} ELSE {})
         /\ Cardinality(IF b THEN {<<>>} ELSE {}) = One(b)
BY FS_EmptySet, FS_Singleton DEF One, InHand

(* Every place holds finitely many pages.                                  *)
LEMMA HoldFinite ==
  ASSUME NEW fr, NEW st, NEW tb, Finite(tb)
  PROVE  \A q \in Slot \X Place : IsFiniteSet(Hold(fr, st, tb)[q])
<1> SUFFICES ASSUME NEW s \in Slot, NEW k \in Place
             PROVE  IsFiniteSet(Hold(fr, st, tb)[<<s, k>>])
  OBVIOUS
<1>1. IsFiniteSet({<<>>}) /\ IsFiniteSet({})
  BY FS_EmptySet, FS_Singleton
<1>2. IsFiniteSet(tb[s].user \ User) /\ IsFiniteSet(tb[s].new \ User)
  BY FS_Difference DEF Finite
<1>3. IsFiniteSet(TablePages(tb[s].kernel))
  <2>1. TablePages(tb[s].kernel) \in SUBSET tb[s].kernel
    BY DEF TablePages
  <2> QED BY <2>1, FS_Subset DEF Finite
<1> DEFINE h == Hold(fr, st, tb)[<<s, k>>]
<1>4. CASE k = "frame"
  <2>1. h = IF fr[s] THEN {<<>>} ELSE {}
    BY <1>4 DEF Hold, Place
  <2> HIDE DEF h
  <2>2. h = {<<>>} \/ h = {}
    BY <2>1, Zenon
  <2> QED BY <1>1, <2>2 DEF h
<1>5. CASE k = "mem"
  <2>1. h = IF st[s] = "map" THEN {<<>>} ELSE {}
    BY <1>5 DEF Hold, Place
  <2> HIDE DEF h
  <2>2. h = {<<>>} \/ h = {}
    BY <2>1, Zenon
  <2> QED BY <1>1, <2>2 DEF h
<1>6. CASE k = "user"
  <2>1. h = tb[s].user \ User
    BY <1>6 DEF Hold, Place
  <2> QED BY <1>2, <2>1, Zenon
<1>7. CASE k = "new"
  <2>1. h = tb[s].new \ User
    BY <1>7 DEF Hold, Place
  <2> QED BY <1>2, <2>1, Zenon
<1>8. CASE k = "kernel"
  <2>1. h = TablePages(tb[s].kernel)
    BY <1>8 DEF Hold, Place
  <2> QED BY <1>3, <2>1, Zenon
<1> QED BY <1>4, <1>5, <1>6, <1>7, <1>8 DEF Place

(* Sets that differ at five places, one after the other.                   *)
FiveApart(G, H, D, a, b, c, d, e) ==
  /\ \A q \in D : IsFiniteSet(G[q])
  /\ \A q \in D : IsFiniteSet(H[q])
  /\ a # b /\ a # c /\ a # d /\ a # e /\ b # c
  /\ b # d /\ b # e /\ c # d /\ c # e /\ d # e
  /\ \A q \in D : q \notin {a, b, c, d, e} => G[q] = H[q]

(* The count changes by what changes at each of the five places.           *)
LEMMA PairsExchanges ==
  ASSUME NEW D, IsFiniteSet(D), NEW G, NEW H,
         NEW a \in D, NEW b \in D, NEW c \in D, NEW d \in D, NEW e \in D,
         FiveApart(G, H, D, a, b, c, d, e)
  PROVE  /\ Cardinality(Pairs(G, D)) \in Nat /\ Cardinality(Pairs(H, D)) \in Nat
         /\ Cardinality(Pairs(G, D))
              = Cardinality(Pairs(H, D))
                  - Cardinality(H[a]) + Cardinality(G[a])
                  - Cardinality(H[b]) + Cardinality(G[b])
                  - Cardinality(H[c]) + Cardinality(G[c])
                  - Cardinality(H[d]) + Cardinality(G[d])
                  - Cardinality(H[e]) + Cardinality(G[e])
<1> DEFINE F(S) == [q \in D |-> IF q \in S THEN G[q] ELSE H[q]]
           H1 == F({a})
           H2 == F({a, b})
           H3 == F({a, b, c})
           H4 == F({a, b, c, d})
           C(h) == Cardinality(Pairs(h, D))
<1>1. /\ \A q \in D : IsFiniteSet(H1[q])
      /\ \A q \in D : IsFiniteSet(H2[q])
      /\ \A q \in D : IsFiniteSet(H3[q])
      /\ \A q \in D : IsFiniteSet(H4[q])
  BY DEF FiveApart
<1>2. \A q \in D : Cardinality(G[q]) \in Nat /\ Cardinality(H[q]) \in Nat
  BY FS_CardinalityType DEF FiveApart
<1>3. /\ C(H1) \in Nat /\ C(H) \in Nat
      /\ C(H1) = C(H) - Cardinality(H[a]) + Cardinality(G[a])
  <2>1. OneApart(H1, H, D, a)
    BY <1>1 DEF OneApart, FiveApart
  <2>2. H1[a] = G[a]
    BY DEF FiveApart
  <2> HIDE DEF H1, H2, H3, H4, F, C
  <2>3. /\ Cardinality(Pairs(H1, D)) \in Nat /\ Cardinality(Pairs(H, D)) \in Nat
        /\ Cardinality(H1[a]) \in Nat /\ Cardinality(H[a]) \in Nat
        /\ Cardinality(Pairs(H1, D))
             = Cardinality(Pairs(H, D)) - Cardinality(H[a]) + Cardinality(H1[a])
    BY <2>1, PairsExchange
  <2> QED BY <2>2, <2>3 DEF C
<1>4. /\ C(H2) \in Nat /\ C(H1) \in Nat
      /\ C(H2) = C(H1) - Cardinality(H[b]) + Cardinality(G[b])
  <2>1. OneApart(H2, H1, D, b)
    BY <1>1 DEF OneApart, FiveApart
  <2>2. H2[b] = G[b] /\ H1[b] = H[b]
    BY DEF FiveApart
  <2> HIDE DEF H1, H2, H3, H4, F, C
  <2>3. /\ Cardinality(Pairs(H2, D)) \in Nat /\ Cardinality(Pairs(H1, D)) \in Nat
        /\ Cardinality(H2[b]) \in Nat /\ Cardinality(H1[b]) \in Nat
        /\ Cardinality(Pairs(H2, D))
             = Cardinality(Pairs(H1, D)) - Cardinality(H1[b]) + Cardinality(H2[b])
    BY <2>1, PairsExchange
  <2> QED BY <2>2, <2>3 DEF C
<1>5. /\ C(H3) \in Nat /\ C(H2) \in Nat
      /\ C(H3) = C(H2) - Cardinality(H[c]) + Cardinality(G[c])
  <2>1. OneApart(H3, H2, D, c)
    BY <1>1 DEF OneApart, FiveApart
  <2>2. H3[c] = G[c] /\ H2[c] = H[c]
    BY DEF FiveApart
  <2> HIDE DEF H1, H2, H3, H4, F, C
  <2>3. /\ Cardinality(Pairs(H3, D)) \in Nat /\ Cardinality(Pairs(H2, D)) \in Nat
        /\ Cardinality(H3[c]) \in Nat /\ Cardinality(H2[c]) \in Nat
        /\ Cardinality(Pairs(H3, D))
             = Cardinality(Pairs(H2, D)) - Cardinality(H2[c]) + Cardinality(H3[c])
    BY <2>1, PairsExchange
  <2> QED BY <2>2, <2>3 DEF C
<1>6. /\ C(H4) \in Nat /\ C(H3) \in Nat
      /\ C(H4) = C(H3) - Cardinality(H[d]) + Cardinality(G[d])
  <2>1. OneApart(H4, H3, D, d)
    BY <1>1 DEF OneApart, FiveApart
  <2>2. H4[d] = G[d] /\ H3[d] = H[d]
    BY DEF FiveApart
  <2> HIDE DEF H1, H2, H3, H4, F, C
  <2>3. /\ Cardinality(Pairs(H4, D)) \in Nat /\ Cardinality(Pairs(H3, D)) \in Nat
        /\ Cardinality(H4[d]) \in Nat /\ Cardinality(H3[d]) \in Nat
        /\ Cardinality(Pairs(H4, D))
             = Cardinality(Pairs(H3, D)) - Cardinality(H3[d]) + Cardinality(H4[d])
    BY <2>1, PairsExchange
  <2> QED BY <2>2, <2>3 DEF C
<1>7. /\ C(G) \in Nat /\ C(H4) \in Nat
      /\ C(G) = C(H4) - Cardinality(H[e]) + Cardinality(G[e])
  <2>1. OneApart(G, H4, D, e)
    BY <1>1 DEF OneApart, FiveApart
  <2>2. G[e] = G[e] /\ H4[e] = H[e]
    BY DEF FiveApart
  <2> HIDE DEF H1, H2, H3, H4, F, C
  <2>3. /\ Cardinality(Pairs(G, D)) \in Nat /\ Cardinality(Pairs(H4, D)) \in Nat
        /\ Cardinality(G[e]) \in Nat /\ Cardinality(H4[e]) \in Nat
        /\ Cardinality(Pairs(G, D))
             = Cardinality(Pairs(H4, D)) - Cardinality(H4[e]) + Cardinality(G[e])
    BY <2>1, PairsExchange
  <2> QED BY <2>2, <2>3 DEF C
<1> HIDE DEF H1, H2, H3, H4, C
<1> QED BY <1>2, <1>3, <1>4, <1>5, <1>6, <1>7 DEF C

(* The counts before and after a step that changes a place of one slot at  *)
(* most: f's trapframe, m's page to map, the tables of u, n and k.         *)
Near(fr, st, tb, fq, sq, tq, f, m, u, n, k) ==
  /\ fr \in [Slot -> BOOLEAN] /\ fq \in [Slot -> BOOLEAN]
  /\ Finite(tb) /\ Finite(tq)
  /\ \A s \in Slot : s # f => fq[s] = fr[s]
  /\ \A s \in Slot : s # m => (sq[s] = "map" <=> st[s] = "map")
  /\ \A s \in Slot : s # u => tq[s].user = tb[s].user
  /\ \A s \in Slot : s # n => tq[s].new = tb[s].new
  /\ \A s \in Slot : s # k => tq[s].kernel = tb[s].kernel

Balanced(fr, st, tb, fq, sq, tq, f, m, u, n, k) ==
  /\ Count(fr, st, tb) \in Nat /\ Count(fq, sq, tq) \in Nat
  /\ One(fr[f]) \in Nat /\ One(fq[f]) \in Nat
  /\ InHand(st[m]) \in Nat /\ InHand(sq[m]) \in Nat
  /\ PageCount(tb[u].user) \in Nat /\ PageCount(tq[u].user) \in Nat
  /\ PageCount(tb[n].new) \in Nat /\ PageCount(tq[n].new) \in Nat
  /\ TableCount(tb[k].kernel) \in Nat /\ TableCount(tq[k].kernel) \in Nat
  /\ Count(fq, sq, tq)
       = Count(fr, st, tb)
         - One(fr[f]) + One(fq[f])
         - InHand(st[m]) + InHand(sq[m])
         - PageCount(tb[u].user) + PageCount(tq[u].user)
         - PageCount(tb[n].new) + PageCount(tq[n].new)
         - TableCount(tb[k].kernel) + TableCount(tq[k].kernel)

(* The count after such a step, from the count before.                     *)
LEMMA Balance ==
  ASSUME NEW fr, NEW st, NEW tb, NEW fq, NEW sq, NEW tq,
         NEW f \in Slot, NEW m \in Slot, NEW u \in Slot, NEW n \in Slot, NEW k \in Slot,
         Near(fr, st, tb, fq, sq, tq, f, m, u, n, k)
  PROVE  Balanced(fr, st, tb, fq, sq, tq, f, m, u, n, k)
<1> DEFINE D == Slot \X Place
           H0 == Hold(fr, st, tb)
           G == Hold(fq, sq, tq)
           C(h) == Cardinality(Pairs(h, D))
<1>1. IsFiniteSet(D)
  BY PlaceFinite
<1>2. /\ \A q \in D : IsFiniteSet(H0[q])
      /\ \A q \in D : IsFiniteSet(G[q])
  BY HoldFinite DEF Near
<1>3. /\ <<f, "frame">> \in D /\ <<m, "mem">> \in D /\ <<u, "user">> \in D
      /\ <<n, "new">> \in D /\ <<k, "kernel">> \in D
  BY DEF Place
<1>4. \A q \in D : q = <<q[1], q[2]>> /\ q[1] \in Slot /\ q[2] \in Place
  OBVIOUS
<1>5. \A q \in D : q[2] = "frame" /\ q # <<f, "frame">> => G[q] = H0[q]
  <2> SUFFICES ASSUME NEW s \in Slot, s # f
               PROVE  G[<<s, "frame">>] = H0[<<s, "frame">>]
    BY <1>4
  <2> QED BY DEF Hold, Place, Near
<1>6. \A q \in D : q[2] = "mem" /\ q # <<m, "mem">> => G[q] = H0[q]
  <2> SUFFICES ASSUME NEW s \in Slot, s # m
               PROVE  G[<<s, "mem">>] = H0[<<s, "mem">>]
    BY <1>4
  <2> QED BY DEF Hold, Place, Near
<1>7. \A q \in D : q[2] = "user" /\ q # <<u, "user">> => G[q] = H0[q]
  <2> SUFFICES ASSUME NEW s \in Slot, s # u
               PROVE  G[<<s, "user">>] = H0[<<s, "user">>]
    BY <1>4
  <2> QED BY DEF Hold, Place, Near
<1>8. \A q \in D : q[2] = "new" /\ q # <<n, "new">> => G[q] = H0[q]
  <2> SUFFICES ASSUME NEW s \in Slot, s # n
               PROVE  G[<<s, "new">>] = H0[<<s, "new">>]
    BY <1>4
  <2> QED BY DEF Hold, Place, Near
<1>9. \A q \in D : q[2] = "kernel" /\ q # <<k, "kernel">> => G[q] = H0[q]
  <2> SUFFICES ASSUME NEW s \in Slot, s # k
               PROVE  G[<<s, "kernel">>] = H0[<<s, "kernel">>]
    BY <1>4
  <2> QED BY DEF Hold, Place, Near
<1> HIDE DEF D, H0, G
<1>10. \A q \in D : q \notin {<<f, "frame">>, <<m, "mem">>, <<u, "user">>, <<n, "new">>,
                                <<k, "kernel">>} => G[q] = H0[q]
  BY <1>4, <1>5, <1>6, <1>7, <1>8, <1>9 DEF Place
<1>16. /\ Cardinality(H0[<<f, "frame">>]) = One(fr[f])
       /\ Cardinality(G[<<f, "frame">>]) = One(fq[f])
       /\ Cardinality(H0[<<m, "mem">>]) = InHand(st[m])
       /\ Cardinality(G[<<m, "mem">>]) = InHand(sq[m])
  <2>1. /\ H0[<<f, "frame">>] = IF fr[f] THEN {<<>>} ELSE {}
        /\ G[<<f, "frame">>] = IF fq[f] THEN {<<>>} ELSE {}
        /\ H0[<<m, "mem">>] = IF st[m] = "map" THEN {<<>>} ELSE {}
        /\ G[<<m, "mem">>] = IF sq[m] = "map" THEN {<<>>} ELSE {}
    BY DEF H0, G, Hold, Place
  <2>2. fr[f] \in BOOLEAN /\ fq[f] \in BOOLEAN
        /\ (st[m] = "map") \in BOOLEAN /\ (sq[m] = "map") \in BOOLEAN
    BY DEF Near
  <2>3. /\ InHand(st[m]) = One(st[m] = "map") /\ InHand(sq[m]) = One(sq[m] = "map")
    BY DEF InHand, One
  <2>4. /\ Cardinality(H0[<<m, "mem">>]) = One(st[m] = "map")
        /\ Cardinality(G[<<m, "mem">>]) = One(sq[m] = "map")
    BY <2>1, <2>2, OneCount, Zenon
  <2>5. /\ Cardinality(H0[<<f, "frame">>]) = One(fr[f])
        /\ Cardinality(G[<<f, "frame">>]) = One(fq[f])
    BY <2>1, <2>2, OneCount, Zenon
  <2> QED BY <2>3, <2>4, <2>5
<1>17. /\ H0[<<u, "user">>] = tb[u].user \ User
       /\ G[<<u, "user">>] = tq[u].user \ User
       /\ H0[<<n, "new">>] = tb[n].new \ User
       /\ G[<<n, "new">>] = tq[n].new \ User
       /\ H0[<<k, "kernel">>] = TablePages(tb[k].kernel)
       /\ G[<<k, "kernel">>] = TablePages(tq[k].kernel)
  BY DEF H0, G, Hold, Place
<1>19. C(H0) = Count(fr, st, tb) /\ C(G) = Count(fq, sq, tq)
  BY DEF H0, G, Count, D
<1>20. /\ C(G) \in Nat /\ C(H0) \in Nat
       /\ C(G) = C(H0) - Cardinality(H0[<<f, "frame">>]) + Cardinality(G[<<f, "frame">>])
                       - Cardinality(H0[<<m, "mem">>]) + Cardinality(G[<<m, "mem">>])
                       - Cardinality(H0[<<u, "user">>]) + Cardinality(G[<<u, "user">>])
                       - Cardinality(H0[<<n, "new">>]) + Cardinality(G[<<n, "new">>])
                       - Cardinality(H0[<<k, "kernel">>]) + Cardinality(G[<<k, "kernel">>])
  <2>1. /\ <<f, "frame">> # <<m, "mem">> /\ <<f, "frame">> # <<u, "user">>
        /\ <<f, "frame">> # <<n, "new">> /\ <<f, "frame">> # <<k, "kernel">>
        /\ <<m, "mem">> # <<u, "user">> /\ <<m, "mem">> # <<n, "new">>
        /\ <<m, "mem">> # <<k, "kernel">> /\ <<u, "user">> # <<n, "new">>
        /\ <<u, "user">> # <<k, "kernel">> /\ <<n, "new">> # <<k, "kernel">>
    OBVIOUS
  <2> DEFINE a == <<f, "frame">>
             b == <<m, "mem">>
             c == <<u, "user">>
             d == <<n, "new">>
             e == <<k, "kernel">>
  <2>2. a \in D /\ b \in D /\ c \in D /\ d \in D /\ e \in D
    BY <1>3
  <2>3. /\ a # b /\ a # c /\ a # d /\ a # e /\ b # c
        /\ b # d /\ b # e /\ c # d /\ c # e /\ d # e
    BY <2>1
  <2>4. \A q \in D : q \notin {a, b, c, d, e} => G[q] = H0[q]
    BY <1>10
  <2> HIDE DEF a, b, c, d, e
  <2>6. FiveApart(G, H0, D, a, b, c, d, e)
    BY <1>2, <2>3, <2>4 DEF FiveApart
  <2>5. /\ C(G) \in Nat /\ C(H0) \in Nat
        /\ C(G) = C(H0) - Cardinality(H0[a]) + Cardinality(G[a])
                        - Cardinality(H0[b]) + Cardinality(G[b])
                        - Cardinality(H0[c]) + Cardinality(G[c])
                        - Cardinality(H0[d]) + Cardinality(G[d])
                        - Cardinality(H0[e]) + Cardinality(G[e])
    BY <1>1, <2>2, <2>6, PairsExchanges
  <2> QED BY <2>5 DEF a, b, c, d, e
<1>21. \A q \in D : Cardinality(G[q]) \in Nat /\ Cardinality(H0[q]) \in Nat
  BY <1>2, FS_CardinalityType
<1>22. /\ One(fr[f]) \in Nat /\ One(fq[f]) \in Nat
       /\ InHand(st[m]) \in Nat /\ InHand(sq[m]) \in Nat
       /\ PageCount(tb[u].user) \in Nat /\ PageCount(tq[u].user) \in Nat
       /\ PageCount(tb[n].new) \in Nat /\ PageCount(tq[n].new) \in Nat
       /\ TableCount(tb[k].kernel) \in Nat /\ TableCount(tq[k].kernel) \in Nat
  BY <1>3, <1>16, <1>17, <1>21 DEF PageCount, TableCount
<1> QED BY <1>16, <1>17, <1>19, <1>20, <1>22 DEF Balanced, PageCount, TableCount

(* A position has three indices at most, a mapping has three.              *)
LEMMA PositionLength ==
  /\ \A x \in Position : Len(x) \in Nat /\ Len(x) <= 3
  /\ \A x \in Mapping : x \in Position /\ Len(x) = 3
BY DEF Position, Mapping

(* A table in which all pages below the stack of positions are mapped      *)
(* has its user pages and its page-table pages.                            *)
LEMMA PageCountIs ==
  ASSUME NEW t \in SUBSET Position, IsFiniteSet(t), NEW n \in 0 .. MAXPAGES,
         NEW S \in SUBSET User, Leaves(t) = S \cup UserPages(n)
  PROVE  TableCount(t) \in Nat /\ PageCount(t) = n + TableCount(t)
<1> DEFINE A == TablePages(t)
           B == UserPages(n)
<1>1. n \in Nat /\ \A x \in B : x \in Mapping /\ x \notin User
  BY MAXPAGESAssumption, Regions
<1>2. IsFiniteSet(A)
  <2>1. A \in SUBSET t
    BY DEF TablePages
  <2> QED BY <2>1, FS_Subset
<1>3. IsFiniteSet(B) /\ Cardinality(B) = n
  BY <1>1, UserPagesCount
<1>4. \A x \in User : Len(x) = 3
  BY Regions DEF User, Mapping
<1>5. \A x \in t : Len(x) \in Nat /\ (Len(x) = 3 \/ Len(x) < 3)
  <2>1. \A x \in t : x \in Position
    OBVIOUS
  <2>2. \A k \in Nat : k <= 3 => k = 3 \/ k < 3
    OBVIOUS
  <2> QED BY <2>1, <2>2, PositionLength, Zenon
<1>6. t \ User = A \cup B
  <2>1. ASSUME NEW x \in t, x \notin User PROVE x \in A \cup B
    <3>1. CASE Len(x) = 3
      BY <2>1, <3>1 DEF Leaves
    <3>2. CASE Len(x) < 3
      BY <3>2 DEF TablePages
    <3> QED BY <1>5, <3>1, <3>2
  <2>2. ASSUME NEW x \in A PROVE x \in t /\ x \notin User
    BY <1>4 DEF TablePages
  <2>3. ASSUME NEW x \in B PROVE x \in t /\ x \notin User
    <3>1. x \in Leaves(t)
      OBVIOUS
    <3> QED BY <1>1, <3>1 DEF Leaves
  <2> QED BY <2>1, <2>2, <2>3
<1>7. A \cap B = {}
  <2>1. \A x \in A : Len(x) < 3
    BY DEF TablePages
  <2>2. \A x \in B : Len(x) = 3
    BY <1>1, PositionLength
  <2> QED BY <2>1, <2>2
<1>8. Cardinality(A) \in Nat
  BY <1>2, FS_CardinalityType
<1> HIDE DEF A, B
<1>9. Cardinality(A \cup B) = Cardinality(A) + Cardinality(B) - Cardinality(A \cap B)
  BY <1>2, <1>3, FS_Union
<1>10. Cardinality(A \cap B) = 0
  BY <1>7, FS_EmptySet
<1>11. PageCount(t) = Cardinality(A \cup B) /\ TableCount(t) = Cardinality(A)
  BY <1>6 DEF A, PageCount, TableCount
<1> QED BY <1>1, <1>3, <1>8, <1>9, <1>10, <1>11

(* No table counts nothing.                                                *)
LEMMA NoTableCounts == PageCount({}) = 0 /\ TableCount({}) = 0 /\ Leaves({}) = {}
<1>1. {} \ User = {} /\ TablePages({}) = {}
  BY DEF TablePages
<1> QED BY <1>1, FS_EmptySet DEF PageCount, TableCount, Leaves

(* The same table with one more page-table page.                           *)
LEMMA AddTable ==
  ASSUME NEW t \in SUBSET Position, IsFiniteSet(t), NEW x \in Position,
         Len(x) < 3, x \notin t
  PROVE  /\ t \cup {x} \in SUBSET Position /\ IsFiniteSet(t \cup {x})
         /\ Leaves(t \cup {x}) = Leaves(t)
         /\ TableCount(t) \in Nat /\ TableCount(t \cup {x}) = TableCount(t) + 1
         /\ PageCount(t) \in Nat /\ PageCount(t \cup {x}) = PageCount(t) + 1
<1>1. Leaves(t \cup {x}) = Leaves(t)
  BY DEF Leaves
<1>2. TablePages(t \cup {x}) = TablePages(t) \cup {x} /\ x \notin TablePages(t)
  BY DEF TablePages
<1>3. x \notin User
  BY Regions, PositionLength DEF User
<1>4. (t \cup {x}) \ User = (t \ User) \cup {x} /\ x \notin t \ User
  BY <1>3
<1>5. IsFiniteSet(TablePages(t)) /\ IsFiniteSet(t \ User)
  <2>1. TablePages(t) \in SUBSET t /\ t \ User \in SUBSET t
    BY DEF TablePages
  <2> QED BY <2>1, FS_Subset
<1>6. TableCount(t) \in Nat /\ PageCount(t) \in Nat
  BY <1>5, FS_CardinalityType DEF TableCount, PageCount
<1>7. TableCount(t \cup {x}) = TableCount(t) + 1
  BY <1>2, <1>5, FS_AddElement DEF TableCount
<1>8. PageCount(t \cup {x}) = PageCount(t) + 1
  BY <1>4, <1>5, FS_AddElement DEF PageCount
<1> QED BY <1>1, <1>6, <1>7, <1>8, FS_AddElement

(* The same table with one more mapping.                                   *)
LEMMA AddMapping ==
  ASSUME NEW t \in SUBSET Position, IsFiniteSet(t), NEW x \in Mapping
  PROVE  /\ t \cup {x} \in SUBSET Position /\ IsFiniteSet(t \cup {x})
         /\ Leaves(t \cup {x}) = Leaves(t) \cup {x}
         /\ TableCount(t) \in Nat /\ TableCount(t \cup {x}) = TableCount(t)
         /\ PageCount(t) \in Nat
         /\ x \in User => PageCount(t \cup {x}) = PageCount(t)
         /\ x \notin User /\ x \notin t => PageCount(t \cup {x}) = PageCount(t) + 1
<1>1. Leaves(t \cup {x}) = Leaves(t) \cup {x}
  BY DEF Leaves, Mapping
<1>2. TablePages(t \cup {x}) = TablePages(t)
  BY DEF TablePages, Mapping
<1>3. IsFiniteSet(TablePages(t)) /\ IsFiniteSet(t \ User)
  <2>1. TablePages(t) \in SUBSET t /\ t \ User \in SUBSET t
    BY DEF TablePages
  <2> QED BY <2>1, FS_Subset
<1>4. TableCount(t) \in Nat /\ PageCount(t) \in Nat
  BY <1>3, FS_CardinalityType DEF TableCount, PageCount
<1>5. x \in User => (t \cup {x}) \ User = t \ User
  OBVIOUS
<1>6. x \notin User /\ x \notin t =>
        (t \cup {x}) \ User = (t \ User) \cup {x} /\ x \notin t \ User
  OBVIOUS
<1>7. x \in User => PageCount(t \cup {x}) = PageCount(t)
  BY <1>5 DEF PageCount
<1>8. x \notin User /\ x \notin t => PageCount(t \cup {x}) = PageCount(t) + 1
  BY <1>3, <1>6, FS_AddElement DEF PageCount
<1>9. x \in Position
  BY DEF Mapping
<1> QED BY <1>1, <1>2, <1>4, <1>7, <1>8, <1>9, FS_AddElement DEF TableCount

(* The same table without some of its user pages.                          *)
LEMMA RemovePages ==
  ASSUME NEW t \in SUBSET Position, IsFiniteSet(t), NEW g,
         \A x \in g : x \in t /\ x \in Mapping /\ x \notin User
  PROVE  /\ t \ g \in SUBSET Position /\ IsFiniteSet(t \ g)
         /\ Leaves(t \ g) = Leaves(t) \ g
         /\ TableCount(t) \in Nat /\ TableCount(t \ g) = TableCount(t)
         /\ PageCount(t) \in Nat /\ Cardinality(g) \in Nat
         /\ PageCount(t \ g) = PageCount(t) - Cardinality(g)
<1>1. Leaves(t \ g) = Leaves(t) \ g
  BY DEF Leaves
<1>2. TablePages(t \ g) = TablePages(t)
  BY DEF TablePages, Mapping
<1>3. IsFiniteSet(TablePages(t)) /\ IsFiniteSet(t \ User) /\ IsFiniteSet(t \ g)
  <2>1. TablePages(t) \in SUBSET t /\ t \ User \in SUBSET t /\ t \ g \in SUBSET t
    BY DEF TablePages
  <2> QED BY <2>1, FS_Subset
<1>4. TableCount(t) \in Nat /\ PageCount(t) \in Nat
  BY <1>3, FS_CardinalityType DEF TableCount, PageCount
<1>5. (t \ g) \ User = (t \ User) \ g /\ (t \ User) \cap g = g
  OBVIOUS
<1>6. IsFiniteSet(g)
  <2>1. g \in SUBSET t
    OBVIOUS
  <2> QED BY <2>1, FS_Subset
<1>7. Cardinality(g) \in Nat
  BY <1>6, FS_CardinalityType
<1>8. Cardinality((t \ User) \ g)
        = Cardinality(t \ User) - Cardinality((t \ User) \cap g)
  BY <1>3, FS_Difference
<1> QED BY <1>1, <1>2, <1>3, <1>4, <1>5, <1>7, <1>8 DEF TableCount, PageCount

(* uvmunmap() and freewalk() find a table as they expect it.               *)
LEMMA FreeTableFine ==
  ASSUME NEW t, NEW n, Leaves(t) = User \cup UserPages(n)
  PROVE  FreeTablePanic(t, n) = NULL
<1>1. Leaves(t) \subseteq t
  BY DEF Leaves
<1> QED BY <1>1 DEF FreeTablePanic, User

-----------------------------------------------------------------------------
(* Steps                                                                   *)

(* HeldCount holds in the next state too: it is about any state.           *)
LEMMA HeldCountNext == (Cardinality(Held) = Count(frame, stage, table))'
BY HeldCount, PTL

(* A step that takes or gives back as many pages as it says.               *)
LEMMA CountKept ==
  ASSUME CountInv, taken \in Nat, zeroed => zeroed',
         Count(frame, stage, table) \in Nat, Count(frame', stage', table') \in Nat,
         taken' \in Int,
         Count(frame', stage', table') = Count(frame, stage, table) + taken' - taken
  PROVE  CountInv' /\ taken' \in Nat
<1>1. Cardinality(Held)' = Cardinality(Held) + taken' - taken
  BY HeldCount, HeldCountNext
<1>2. Cardinality(Held) \in Nat /\ Cardinality(Held)' \in Nat
  BY HeldCount, HeldCountNext
<1> QED BY <1>1, <1>2 DEF CountInv

(* What a step of p's call does not reach.  c is the slot that p works on: *)
(* p itself, or the one that fork() fills.                                 *)
Reaches(p, c) ==
  /\ c # p => ~used[c]
  /\ \A q \in Slot : q # p => np[q] # c
  /\ np[p] \in {c, NULL} /\ np'[p] \in {c, NULL}
  /\ \A q \in Slot : q # p => /\ call'[q] = call[q] /\ stage'[q] = stage[q]
                              /\ i'[q] = i[q] /\ tgt'[q] = tgt[q] /\ np'[q] = np[q]
  /\ \A q \in Slot : q # p /\ q # c => /\ used'[q] = used[q] /\ sz'[q] = sz[q]
                                       /\ frame'[q] = frame[q] /\ table'[q] = table[q]
  /\ c # p => table'[c].new = table[c].new
  /\ zeroed => zeroed'

(* A step that reaches only p and c keeps what is known of the other slots *)
(* and their calls.                                                        *)
LEMMA OthersKept ==
  ASSUME SInv, NEW p \in Slot, NEW c \in Slot, used[p], Reaches(p, c),
         NEW q \in Slot, q # p
  PROVE  /\ CallOK(q)' /\ NewOK(q)' /\ ForkOK(q)'
         /\ q # c => UsedOK(q)' /\ EmptyOK(q)'
<1>1. /\ CallOK(q) /\ UsedOK(q) /\ NewOK(q) /\ ForkOK(q) /\ EmptyOK(q)
  BY DEF SInv
<1>2. NULL \notin Slot
  BY NULLAssumption DEF Slot
<1>3. /\ call'[q] = call[q] /\ stage'[q] = stage[q] /\ i'[q] = i[q]
      /\ tgt'[q] = tgt[q] /\ np'[q] = np[q]
  BY DEF Reaches
<1>4. np[q] # c /\ np'[p] \in {c, NULL} /\ np[p] \in {c, NULL}
  BY DEF Reaches
<1>5. q # c => /\ used'[q] = used[q] /\ sz'[q] = sz[q]
               /\ frame'[q] = frame[q] /\ table'[q] = table[q]
  BY DEF Reaches
<1>6. CASE q = c
  <2>1. ~used[c]
    BY <1>6 DEF Reaches
  <2>2. call[q] = "none" /\ stage[q] = "none" /\ np[q] = NULL
    BY <1>1, <1>6, <2>1 DEF CallOK, Stages
  <2>3. table'[q].new = {}
    BY <1>1, <1>6, <2>2 DEF NewOK, Reaches
  <2>4. CallOK(q)'
    BY <1>3, <2>2 DEF CallOK, Stages
  <2> QED BY <1>3, <1>6, <2>2, <2>3, <2>4 DEF NewOK, ForkOK
<1>7. CASE q # c
  <2>1. call[q] = "fork" => /\ np[q] \in Slot /\ ~used[np[q]] /\ np[q] # p /\ np[q] # c
                            /\ \A r \in Slot : np[r] = np[q] => r = q
    BY <1>1, <1>4 DEF CallOK
  <2>2. call[q] = "fork" => \A r \in Slot : np'[r] = np'[q] => r = q
    <3> SUFFICES ASSUME call[q] = "fork", NEW r \in Slot, np'[r] = np'[q] PROVE r = q
      OBVIOUS
    <3>1. r # p
      BY <1>2, <1>3, <1>4, <2>1
    <3>2. np'[r] = np[r]
      BY <3>1 DEF Reaches
    <3> QED BY <1>3, <2>1, <3>2
  <2>3. call[q] = "fork" => /\ used'[np[q]] = used[np[q]] /\ frame'[np[q]] = frame[np[q]]
                            /\ table'[np[q]] = table[np[q]]
    BY <2>1 DEF Reaches
  <2>4. CallOK(q)'
    BY <1>1, <1>3, <1>5, <1>7, <2>1, <2>2, <2>3 DEF CallOK
  <2>5. NewOK(q)'
    BY <1>1, <1>3, <1>5, <1>7 DEF NewOK
  <2>6. ForkOK(q)'
    <3> SUFFICES ASSUME call[q] = "fork" PROVE FilledOK(q, np[q])'
      BY <1>3 DEF ForkOK
    <3>1. FilledOK(q, np[q]) /\ (zeroed => zeroed')
      BY <1>1 DEF ForkOK, Reaches
    <3> QED BY <1>3, <2>3, <3>1 DEF FilledOK
  <2>7. UsedOK(q)'
    BY <1>1, <1>3, <1>5, <1>7 DEF UsedOK, InUser, InKernel
  <2>8. EmptyOK(q)'
    <3>1. ASSUME \A r \in Slot : np'[r] # q PROVE \A r \in Slot : np[r] # q
      <4> TAKE r \in Slot
      <4>1. CASE r = p
        BY <1>2, <1>4, <1>7, <4>1
      <4>2. CASE r # p
        BY <3>1, <4>2 DEF Reaches
      <4> QED BY <4>1, <4>2
    <3> QED BY <1>1, <1>5, <1>7, <3>1 DEF EmptyOK
  <2> QED BY <2>4, <2>5, <2>6, <2>7, <2>8
<1> QED BY <1>6, <1>7

(* The two halves of the type invariant.                                   *)
CallTypes ==
  /\ used \in [Slot -> BOOLEAN] /\ frame \in [Slot -> BOOLEAN]
  /\ sz \in [Slot -> 0 .. MAXPAGES] /\ tgt \in [Slot -> 0 .. MAXPAGES]
  /\ i \in [Slot -> 0 .. MAXPAGES + 6]
  /\ np \in [Slot -> Slot \cup {NULL}]
  /\ call \in [Slot -> {"none", "fork", "exec", "grow"}]
  /\ stage \in [Slot -> {"none", "frame", "root", "tramp", "tframe", "kroot",
                         "kmap", "kstack", "mem", "map", "copy"}]

Kind == {"user", "kernel", "new"}

TableTypes ==
  /\ table \in [Slot -> [Kind -> SUBSET Position]]
  /\ \A s \in Slot : \A k \in Kind : Grown(table[s][k]) /\ IsFiniteSet(table[s][k])

Types == CallTypes /\ TableTypes /\ taken \in Nat /\ zeroed \in BOOLEAN

(* The type invariant is its two halves and the scalars.                   *)
LEMMA TypeParts ==
  OnlyMemoryPanics => (TypeOK /\ Finite(table) <=> Types)
<1>1. \A s \in Slot : /\ table[s].user = table[s]["user"]
                      /\ table[s].kernel = table[s]["kernel"]
                      /\ table[s].new = table[s]["new"]
  OBVIOUS
<1>2. Finite(table) /\ (\A s \in Slot : /\ Grown(table[s].user) /\ Grown(table[s].kernel)
                                        /\ Grown(table[s].new))
        <=> \A s \in Slot : \A k \in Kind : Grown(table[s][k]) /\ IsFiniteSet(table[s][k])
  BY <1>1 DEF Finite, Kind
<1>3. OnlyMemoryPanics =>
        panic \in Panics \cup {NULL}
  BY DEF OnlyMemoryPanics, Panics
<1> QED BY <1>2, <1>3, KernelMapEntries, Zenon DEF TypeOK, CallTypes, TableTypes, Kind, Types

(* TypeParts in the next state.                                            *)
LEMMA TypePartsNext ==
  (OnlyMemoryPanics => (TypeOK /\ Finite(table) <=> Types))'
BY TypeParts, PTL

(* What the inductive invariant says, part by part.                        *)
LEMMA Typed ==
  ASSUME IInv
  PROVE  /\ CallTypes /\ TableTypes /\ taken \in Nat /\ zeroed \in BOOLEAN
         /\ CountInv /\ Finite(table) /\ (panic = NULL => SInv)
BY TypeParts DEF IInv, Types

(* What a step must show.                                                  *)
LEMMA StepKept ==
  ASSUME IInv, panic = NULL, NEW p \in Slot, NEW c \in Slot, used[p], Reaches(p, c),
         CallTypes', TableTypes', OnlyMemoryPanics', zeroed' \in BOOLEAN,
         taken' \in Nat, CountInv',
         panic' = NULL => /\ CallOK(p)' /\ UsedOK(p)' /\ NewOK(p)'
                          /\ ForkOK(p)' /\ EmptyOK(p)'
                          /\ UsedOK(c)' /\ EmptyOK(c)'
  PROVE  IInv'
<1>1. SInv
  BY DEF IInv
<1>2. ASSUME panic' = NULL, NEW q \in Slot
      PROVE  CallOK(q)' /\ UsedOK(q)' /\ NewOK(q)' /\ ForkOK(q)' /\ EmptyOK(q)'
  <2>1. CASE q = p
    BY <1>2, <2>1
  <2>2. CASE q # p
    <3>1. /\ CallOK(q)' /\ NewOK(q)' /\ ForkOK(q)'
          /\ q # c => UsedOK(q)' /\ EmptyOK(q)'
      BY <1>1, <2>2, OthersKept
    <3> QED BY <1>2, <3>1
  <2> QED BY <2>1, <2>2
<1>3. panic' = NULL => SInv'
  BY <1>2 DEF SInv
<1>4. TypeOK' /\ Finite(table)'
  BY TypePartsNext DEF Types
<1> QED BY <1>3, <1>4 DEF IInv

(* A step that changes each kind of place in one slot at most, and what it *)
(* adds to the pages that are held.                                        *)
Moved(f, m, u, n, k) ==
  /\ frame' \in [Slot -> BOOLEAN] /\ Finite(table)'
  /\ \A s \in Slot : s # f => frame'[s] = frame[s]
  /\ \A s \in Slot : s # m => (stage'[s] = "map" <=> stage[s] = "map")
  /\ \A s \in Slot : s # u => table'[s].user = table[s].user
  /\ \A s \in Slot : s # n => table'[s].new = table[s].new
  /\ \A s \in Slot : s # k => table'[s].kernel = table[s].kernel

Added(f, m, u, n, k) ==
  One(frame'[f]) - One(frame[f])
  - InHand(stage[m]) + InHand(stage'[m])
  - PageCount(table[u].user) + PageCount(table'[u].user)
  - PageCount(table[n].new) + PageCount(table'[n].new)
  - TableCount(table[k].kernel) + TableCount(table'[k].kernel)

(* The count after such a step.                                            *)
LEMMA CountMoved ==
  ASSUME IInv, NEW f \in Slot, NEW m \in Slot, NEW u \in Slot, NEW n \in Slot,
         NEW k \in Slot, Moved(f, m, u, n, k)
  PROVE  /\ Count(frame, stage, table) \in Nat /\ Count(frame', stage', table') \in Nat
         /\ One(frame[f]) \in Nat /\ One(frame'[f]) \in Nat
         /\ InHand(stage[m]) \in Nat /\ InHand(stage'[m]) \in Nat
         /\ PageCount(table[u].user) \in Nat /\ PageCount(table'[u].user) \in Nat
         /\ PageCount(table[n].new) \in Nat /\ PageCount(table'[n].new) \in Nat
         /\ TableCount(table[k].kernel) \in Nat /\ TableCount(table'[k].kernel) \in Nat
         /\ Added(f, m, u, n, k) \in Int
         /\ Count(frame', stage', table') = Count(frame, stage, table) + Added(f, m, u, n, k)
<1>1. frame \in [Slot -> BOOLEAN] /\ Finite(table)
  BY Typed DEF CallTypes
<1>2. PICK fr, st, tb, fq, sq, tq :
        /\ fr = frame /\ st = stage /\ tb = table
        /\ fq = frame' /\ sq = stage' /\ tq = table'
  OBVIOUS
<1>3. Near(fr, st, tb, fq, sq, tq, f, m, u, n, k)
  BY <1>1, <1>2 DEF Near, Moved
<1>4. Balanced(fr, st, tb, fq, sq, tq, f, m, u, n, k)
  BY <1>3, Balance
<1> QED BY <1>2, <1>4 DEF Balanced, Added

(* It counts what it takes and gives back there.                           *)
Counted(f, m, u, n, k) ==
  /\ Moved(f, m, u, n, k)
  /\ zeroed => zeroed'
  /\ taken' = taken + Added(f, m, u, n, k)

(* Such a step conserves the pages.                                        *)
LEMMA CountChanged ==
  ASSUME IInv, NEW f \in Slot, NEW m \in Slot, NEW u \in Slot, NEW n \in Slot,
         NEW k \in Slot, Counted(f, m, u, n, k)
  PROVE  CountInv' /\ taken' \in Nat
<1>1. taken \in Nat /\ CountInv
  BY Typed
<1>2. /\ Count(frame, stage, table) \in Nat /\ Count(frame', stage', table') \in Nat
      /\ Added(f, m, u, n, k) \in Int
      /\ Count(frame', stage', table') = Count(frame, stage, table) + Added(f, m, u, n, k)
  BY CountMoved DEF Counted
<1>3. taken' \in Int
      /\ Count(frame', stage', table') = Count(frame, stage, table) + taken' - taken
  BY <1>1, <1>2 DEF Counted
<1>4. zeroed => zeroed'
  BY DEF Counted
<1> QED BY <1>1, <1>2, <1>3, <1>4, CountKept

(* The counts of a slot's tables are numbers.                              *)
LEMMA CountsTyped ==
  ASSUME NEW tb, Finite(tb), NEW s \in Slot
  PROVE  /\ PageCount(tb[s].user) \in Nat /\ PageCount(tb[s].new) \in Nat
         /\ TableCount(tb[s].kernel) \in Nat
<1>1. /\ IsFiniteSet(tb[s].user \ User) /\ IsFiniteSet(tb[s].new \ User)
  BY FS_Difference DEF Finite
<1>2. IsFiniteSet(TablePages(tb[s].kernel))
  <2>1. TablePages(tb[s].kernel) \in SUBSET tb[s].kernel
    BY DEF TablePages
  <2> QED BY <2>1, FS_Subset DEF Finite
<1> QED BY <1>1, <1>2, FS_CardinalityType DEF PageCount, TableCount

(* The page tables stay as they are.                                       *)
LEMMA CountTablesSame ==
  ASSUME IInv, frame' \in [Slot -> BOOLEAN], table' = table,
         NEW f \in Slot, NEW m \in Slot,
         \A s \in Slot : s # f => frame'[s] = frame[s],
         \A s \in Slot : s # m => (stage'[s] = "map" <=> stage[s] = "map"),
         zeroed => zeroed',
         taken' = taken - One(frame[f]) + One(frame'[f])
                        - InHand(stage[m]) + InHand(stage'[m])
  PROVE  CountInv' /\ taken' \in Nat
<1>1. Finite(table) /\ Finite(table)' /\ taken \in Nat
  BY Typed
<1>2. /\ PageCount(table[m].user) \in Nat /\ PageCount(table[m].new) \in Nat
      /\ TableCount(table[m].kernel) \in Nat
  BY <1>1, CountsTyped
<1>3. /\ One(frame[f]) \in Int /\ One(frame'[f]) \in Int
      /\ InHand(stage[m]) \in Int /\ InHand(stage'[m]) \in Int
  BY DEF One, InHand
<1>4. taken' = taken + Added(f, m, m, m, m)
  BY <1>1, <1>2, <1>3 DEF Added
<1>5. Counted(f, m, m, m, m)
  BY <1>1, <1>4 DEF Counted, Moved
<1> QED BY <1>5, CountChanged

(* A step that neither takes nor gives back a page.                        *)
LEMMA CountSame ==
  ASSUME IInv, frame' = frame, table' = table,
         \A s \in Slot : stage'[s] = "map" <=> stage[s] = "map",
         taken' = taken, zeroed => zeroed'
  PROVE  CountInv' /\ taken' \in Nat
<1>1. 1 \in Slot /\ frame' \in [Slot -> BOOLEAN] /\ taken \in Nat
  BY NPROCAssumption, Typed DEF Slot, CallTypes
<1>2. taken' = taken - One(frame[1]) + One(frame'[1])
                     - InHand(stage[1]) + InHand(stage'[1])
  BY <1>1 DEF One, InHand
<1> QED BY <1>1, <1>2, CountTablesSame

(* The state of a slot that is not in a call, and of one that is.          *)
LEMMA IdleFacts ==
  ASSUME IInv, NEW p \in Slot, Idle(p)
  PROVE  /\ panic = NULL /\ used[p] /\ call[p] = "none" /\ stage[p] = "none"
         /\ np[p] = NULL /\ \A q \in Slot : np[q] # p
         /\ InUser(p) = sz[p] /\ InKernel(p) = sz[p]
         /\ table[p].new = {}
<1>1. panic = NULL /\ used[p] /\ call[p] = "none" /\ SInv
  BY DEF Idle, IInv
<1>2. stage[p] = "none" /\ np[p] = NULL
  BY <1>1 DEF SInv, CallOK, Stages
<1>3. \A q \in Slot : np[q] # p
  <2> TAKE q \in Slot
  <2>1. CallOK(q)
    BY <1>1 DEF SInv
  <2> QED BY <1>1, <2>1, NULLAssumption DEF CallOK, Slot
<1>4. table[p].new = {}
  BY <1>1 DEF SInv, NewOK
<1> QED BY <1>1, <1>2, <1>3, <1>4 DEF InUser, InKernel

(* A process in a call is used, is nobody's child to be, and has its own   *)
(* np.                                                                     *)
LEMMA CallFacts ==
  ASSUME IInv, panic = NULL, NEW p \in Slot, stage[p] # "none"
  PROVE  /\ used[p] /\ SInv /\ call[p] \in {"fork", "exec", "grow"}
         /\ stage[p] \in Stages(call[p])
         /\ \A q \in Slot : np[q] # p
         /\ call[p] # "fork" => np[p] = NULL
         /\ call[p] = "fork" => /\ np[p] \in Slot /\ np[p] # p /\ ~used[np[p]]
                                /\ \A q \in Slot : np[q] = np[p] => q = p
<1>1. SInv /\ CallOK(p) /\ call[p] \in {"none", "fork", "exec", "grow"}
  BY DEF IInv, SInv, TypeOK
<1>2. call[p] # "none" /\ used[p]
  BY <1>1 DEF CallOK, Stages
<1>3. \A q \in Slot : np[q] # p
  <2> TAKE q \in Slot
  <2>1. CallOK(q)
    BY <1>1 DEF SInv
  <2> QED BY <1>2, <2>1, NULLAssumption DEF CallOK, Slot
<1> QED BY <1>1, <1>2, <1>3 DEF CallOK

(* The slot that a call works on belongs to that call alone.               *)
LEMMA WorkedFacts ==
  ASSUME IInv, panic = NULL, NEW p \in Slot, stage[p] # "none"
  PROVE  /\ Worked(p) \in Slot
         /\ Worked(p) # p => ~used[Worked(p)]
         /\ \A q \in Slot : q # p => np[q] # Worked(p)
         /\ np[p] \in {Worked(p), NULL}
         /\ call[p] = "fork" => Worked(p) = np[p] /\ Worked(p) # p
         /\ call[p] # "fork" => Worked(p) = p
BY CallFacts DEF Worked

(* fork() begins: allocproc() has found c.                                 *)
LEMMA ForkEnterKeeps ==
  ASSUME IInv, NEW p \in Slot, NEW c \in Slot, ForkEnter(p, c)
  PROVE  IInv'
<1>1. /\ panic = NULL /\ used[p] /\ call[p] = "none" /\ stage[p] = "none"
      /\ np[p] = NULL /\ \A q \in Slot : np[q] # p
      /\ InUser(p) = sz[p] /\ InKernel(p) = sz[p] /\ table[p].new = {}
  BY IdleFacts DEF ForkEnter
<1>2. /\ CallTypes /\ TableTypes /\ taken \in Nat /\ zeroed \in BOOLEAN
      /\ CountInv /\ Finite(table) /\ SInv
  BY <1>1, Typed
<1>3. /\ call' = [call EXCEPT ![p] = "fork"] /\ stage' = [stage EXCEPT ![p] = "frame"]
      /\ i' = [i EXCEPT ![p] = 0] /\ tgt' = [tgt EXCEPT ![p] = sz[p]]
      /\ np' = [np EXCEPT ![p] = c]
      /\ used' = used /\ sz' = sz /\ frame' = frame /\ table' = table
      /\ taken' = taken /\ zeroed' = zeroed /\ panic' = panic
  BY DEF ForkEnter, Go
<1>4. ~used[c] /\ \A q \in Slot : np[q] # c
  BY DEF ForkEnter
<1>5. /\ call'[p] = "fork" /\ stage'[p] = "frame" /\ i'[p] = 0 /\ np'[p] = c
      /\ \A q \in Slot : q # p => /\ call'[q] = call[q] /\ stage'[q] = stage[q]
                                  /\ i'[q] = i[q] /\ tgt'[q] = tgt[q] /\ np'[q] = np[q]
  BY <1>2, <1>3 DEF CallTypes
<1>6. CallTypes' /\ TableTypes'
  BY <1>2, <1>3, MAXPAGESAssumption DEF CallTypes, TableTypes
<1>7. CountInv' /\ taken' \in Nat
  <2>1. \A s \in Slot : stage'[s] = "map" <=> stage[s] = "map"
    BY <1>1, <1>5
  <2> QED BY <1>3, <2>1, CountSame
<1>8. Reaches(p, c)
  BY <1>1, <1>3, <1>4, <1>5 DEF Reaches
<1>9. /\ UsedOK(p) /\ EmptyOK(c)
  BY <1>2 DEF SInv
<1>10. ~frame[c] /\ table[c].user = {} /\ table[c].kernel = {}
  BY <1>4, <1>9 DEF EmptyOK
<1>11. CallOK(p)'
  BY <1>1, <1>3, <1>4, <1>5 DEF CallOK, Stages
<1>12. UsedOK(p)' /\ UsedOK(c)'
  <2>1. InUser(p)' = sz[p] /\ InKernel(p)' = sz[p]
    BY <1>3, <1>5 DEF InUser, InKernel
  <2> QED BY <1>1, <1>3, <1>4, <1>9, <2>1 DEF UsedOK
<1>13. NewOK(p)'
  BY <1>1, <1>3, <1>5 DEF NewOK
<1>14. ForkOK(p)'
  <2>1. FilledOK(p, c)'
    BY <1>3, <1>5, <1>10, NoTableCounts DEF FilledOK, Built, BuiltKernel
  <2> QED BY <1>5, <2>1 DEF ForkOK
<1>15. EmptyOK(p)' /\ EmptyOK(c)'
  BY <1>1, <1>3, <1>5 DEF EmptyOK
<1>16. OnlyMemoryPanics' /\ zeroed' \in BOOLEAN
  BY <1>1, <1>2, <1>3 DEF OnlyMemoryPanics
<1> QED
  BY <1>1, <1>6, <1>7, <1>8, <1>11, <1>12, <1>13, <1>14, <1>15, <1>16, StepKept

(* exec() begins.                                                          *)
LEMMA ExecEnterKeeps ==
  ASSUME IInv, NEW p \in Slot, NEW n \in Images, ExecEnter(p, n)
  PROVE  IInv'
<1>1. /\ panic = NULL /\ used[p] /\ call[p] = "none" /\ stage[p] = "none"
      /\ np[p] = NULL /\ \A q \in Slot : np[q] # p
      /\ InUser(p) = sz[p] /\ InKernel(p) = sz[p] /\ table[p].new = {}
  BY IdleFacts DEF ExecEnter
<1>2. /\ CallTypes /\ TableTypes /\ taken \in Nat /\ zeroed \in BOOLEAN
      /\ CountInv /\ Finite(table) /\ SInv
  BY <1>1, Typed
<1>3. /\ call' = [call EXCEPT ![p] = "exec"] /\ stage' = [stage EXCEPT ![p] = "root"]
      /\ i' = [i EXCEPT ![p] = 0] /\ tgt' = [tgt EXCEPT ![p] = n]
      /\ used' = used /\ sz' = sz /\ frame' = frame /\ table' = table /\ np' = np
      /\ taken' = taken /\ zeroed' = zeroed /\ panic' = panic
  BY DEF ExecEnter, Go
<1>4. n \in 0 .. MAXPAGES
  BY ImagesAssumption, MAXPAGESAssumption
<1>5. /\ call'[p] = "exec" /\ stage'[p] = "root" /\ i'[p] = 0 /\ np'[p] = NULL
      /\ \A q \in Slot : q # p => /\ call'[q] = call[q] /\ stage'[q] = stage[q]
                                  /\ i'[q] = i[q] /\ tgt'[q] = tgt[q] /\ np'[q] = np[q]
  BY <1>1, <1>2, <1>3 DEF CallTypes
<1>6. CallTypes' /\ TableTypes'
  BY <1>2, <1>3, <1>4, MAXPAGESAssumption DEF CallTypes, TableTypes
<1>7. CountInv' /\ taken' \in Nat
  <2>1. \A s \in Slot : stage'[s] = "map" <=> stage[s] = "map"
    BY <1>1, <1>5
  <2> QED BY <1>3, <2>1, CountSame
<1>8. Reaches(p, p)
  BY <1>1, <1>3, <1>5 DEF Reaches
<1>9. UsedOK(p)
  BY <1>2 DEF SInv
<1>10. CallOK(p)'
  BY <1>1, <1>3, <1>5 DEF CallOK, Stages
<1>11. UsedOK(p)'
  <2>1. InUser(p)' = sz[p] /\ InKernel(p)' = sz[p]
    BY <1>3, <1>5 DEF InUser, InKernel
  <2> QED BY <1>1, <1>3, <1>9, <2>1 DEF UsedOK
<1>12. NewOK(p)'
  BY <1>1, <1>3, <1>5, NoTableCounts DEF NewOK, Built
<1>13. ForkOK(p)' /\ EmptyOK(p)'
  BY <1>1, <1>3, <1>5 DEF ForkOK, EmptyOK
<1>14. OnlyMemoryPanics' /\ zeroed' \in BOOLEAN
  BY <1>1, <1>2, <1>3 DEF OnlyMemoryPanics
<1> QED
  BY <1>1, <1>6, <1>7, <1>8, <1>10, <1>11, <1>12, <1>13, <1>14, StepKept

(* growproc() begins to add pages.                                         *)
LEMMA GrowEnterKeeps ==
  ASSUME IInv, NEW p \in Slot, NEW n \in 0 .. MAXPAGES, GrowEnter(p, n)
  PROVE  IInv'
<1>1. /\ panic = NULL /\ used[p] /\ call[p] = "none" /\ stage[p] = "none"
      /\ np[p] = NULL /\ \A q \in Slot : np[q] # p
      /\ InUser(p) = sz[p] /\ InKernel(p) = sz[p] /\ table[p].new = {}
  BY IdleFacts DEF GrowEnter
<1>2. /\ CallTypes /\ TableTypes /\ taken \in Nat /\ zeroed \in BOOLEAN
      /\ CountInv /\ Finite(table) /\ SInv
  BY <1>1, Typed
<1>3. /\ call' = [call EXCEPT ![p] = "grow"] /\ stage' = [stage EXCEPT ![p] = "mem"]
      /\ i' = [i EXCEPT ![p] = sz[p]] /\ tgt' = [tgt EXCEPT ![p] = n]
      /\ used' = used /\ sz' = sz /\ frame' = frame /\ table' = table /\ np' = np
      /\ taken' = taken /\ zeroed' = zeroed /\ panic' = panic
  BY DEF GrowEnter, Go
<1>4. sz[p] \in 0 .. MAXPAGES /\ sz[p] < n
  BY <1>2 DEF GrowEnter, CallTypes
<1>5. /\ call'[p] = "grow" /\ stage'[p] = "mem" /\ i'[p] = sz[p] /\ np'[p] = NULL
      /\ tgt'[p] = n
      /\ \A q \in Slot : q # p => /\ call'[q] = call[q] /\ stage'[q] = stage[q]
                                  /\ i'[q] = i[q] /\ tgt'[q] = tgt[q] /\ np'[q] = np[q]
  BY <1>1, <1>2, <1>3 DEF CallTypes
<1>6. CallTypes' /\ TableTypes'
  <2>1. sz[p] \in 0 .. MAXPAGES + 6
    BY <1>4, MAXPAGESAssumption
  <2> QED BY <1>2, <1>3, <2>1 DEF CallTypes, TableTypes
<1>7. CountInv' /\ taken' \in Nat
  <2>1. \A s \in Slot : stage'[s] = "map" <=> stage[s] = "map"
    BY <1>1, <1>5
  <2> QED BY <1>3, <2>1, CountSame
<1>8. Reaches(p, p)
  BY <1>1, <1>3, <1>5 DEF Reaches
<1>9. UsedOK(p)
  BY <1>2 DEF SInv
<1>10. CallOK(p)'
  BY <1>1, <1>3, <1>4, <1>5, MAXPAGESAssumption DEF CallOK, Stages
<1>11. UsedOK(p)'
  <2>1. InUser(p)' = sz[p] /\ InKernel(p)' = sz[p]
    BY <1>3, <1>5 DEF InUser, InKernel
  <2> QED BY <1>1, <1>3, <1>9, <2>1 DEF UsedOK
<1>12. NewOK(p)'
  BY <1>1, <1>3, <1>5 DEF NewOK
<1>13. ForkOK(p)' /\ EmptyOK(p)'
  BY <1>1, <1>3, <1>5 DEF ForkOK, EmptyOK
<1>14. OnlyMemoryPanics' /\ zeroed' \in BOOLEAN
  BY <1>1, <1>2, <1>3 DEF OnlyMemoryPanics
<1> QED
  BY <1>1, <1>6, <1>7, <1>8, <1>10, <1>11, <1>12, <1>13, <1>14, StepKept

(* kalloc() gives mem.                                                     *)
LEMMA TakePageKeeps ==
  ASSUME IInv, NEW p \in Slot, TakePage(p)
  PROVE  IInv'
<1>1. panic = NULL /\ stage[p] = "mem" /\ i[p] < tgt[p]
  BY DEF TakePage, In
<1>2. /\ CallTypes /\ TableTypes /\ taken \in Nat /\ zeroed \in BOOLEAN
      /\ CountInv /\ Finite(table) /\ SInv
  BY <1>1, Typed
<1>c. PICK c \in Slot : c = Worked(p)
  BY <1>1, WorkedFacts
<1>w. /\ c # p => ~used[c]
      /\ \A q \in Slot : q # p => np[q] # c
      /\ np[p] \in {c, NULL}
      /\ call[p] = "fork" => c = np[p] /\ c # p
      /\ call[p] # "fork" => c = p
  BY <1>1, <1>c, WorkedFacts
<1>f. /\ used[p] /\ call[p] \in {"fork", "exec", "grow"} /\ stage[p] \in Stages(call[p])
      /\ \A q \in Slot : np[q] # p
      /\ call[p] # "fork" => np[p] = NULL
      /\ call[p] = "fork" => \A q \in Slot : np[q] = np[p] => q = p
  BY <1>1, CallFacts
<1>k. CallOK(p) /\ UsedOK(p) /\ NewOK(p) /\ ForkOK(p) /\ UsedOK(c) /\ EmptyOK(c) /\ CallOK(c)
  BY <1>2 DEF SInv
<1>3. /\ stage' = [stage EXCEPT ![p] = "map"] /\ i' = [i EXCEPT ![p] = i[p]]
      /\ used' = used /\ sz' = sz /\ frame' = frame /\ table' = table /\ call' = call
      /\ tgt' = tgt /\ np' = np /\ taken' = taken + 1 /\ zeroed' = zeroed
      /\ panic' = panic
  BY DEF TakePage, Go
<1>4. /\ stage'[p] = "map" /\ i' = i
      /\ \A q \in Slot : q # p => stage'[q] = stage[q]
  BY <1>2, <1>3 DEF CallTypes
<1>5. CallTypes' /\ TableTypes'
  BY <1>2, <1>3 DEF CallTypes, TableTypes
<1>6. CountInv' /\ taken' \in Nat
  <2>1. /\ frame' \in [Slot -> BOOLEAN]
        /\ \A s \in Slot : s # p => (stage'[s] = "map" <=> stage[s] = "map")
    BY <1>2, <1>3, <1>4 DEF CallTypes
  <2>2. taken' = taken - One(frame[p]) + One(frame'[p])
                       - InHand(stage[p]) + InHand(stage'[p])
    BY <1>1, <1>2, <1>3, <1>4 DEF One, InHand
  <2> QED BY <1>3, <2>1, <2>2, CountTablesSame
<1>7. Reaches(p, c)
  BY <1>3, <1>4, <1>w DEF Reaches
<1>8. CallOK(p)'
  BY <1>1, <1>2, <1>3, <1>4, <1>f, <1>k DEF CallOK, Stages, CallTypes
<1>9. UsedOK(p)' /\ UsedOK(c)'
  <2>1. InUser(p)' = InUser(p) /\ InKernel(p)' = InKernel(p)
    BY <1>1, <1>3, <1>4 DEF InUser, InKernel
  <2> QED BY <1>3, <1>k, <1>w, <2>1 DEF UsedOK
<1>10. NewOK(p)'
  BY <1>1, <1>3, <1>4, <1>k DEF NewOK, Built
<1>11. ForkOK(p)'
  BY <1>1, <1>3, <1>4, <1>k DEF ForkOK, FilledOK, Built, BuiltKernel
<1>12. EmptyOK(p)' /\ EmptyOK(c)'
  BY <1>3, <1>f, <1>w DEF EmptyOK
<1>13. OnlyMemoryPanics' /\ zeroed' \in BOOLEAN
  BY <1>1, <1>2, <1>3 DEF OnlyMemoryPanics
<1> QED
  BY <1>1, <1>5, <1>6, <1>7, <1>8, <1>9, <1>10, <1>11, <1>12, <1>13, <1>f, <1>w, StepKept

(* vmcopypage() begins.                                                    *)
LEMMA CopyBeginKeeps ==
  ASSUME IInv, NEW p \in Slot, CopyBegin(p)
  PROVE  IInv'
<1>1. panic = NULL /\ stage[p] = "mem" /\ i[p] = tgt[p] /\ call[p] \in {"fork", "grow"}
  BY DEF CopyBegin, Filled, In
<1>2. /\ CallTypes /\ TableTypes /\ taken \in Nat /\ zeroed \in BOOLEAN
      /\ CountInv /\ Finite(table) /\ SInv
  BY <1>1, Typed
<1>c. PICK c \in Slot : c = Worked(p)
  BY <1>1, WorkedFacts
<1>w. /\ c # p => ~used[c]
      /\ \A q \in Slot : q # p => np[q] # c
      /\ np[p] \in {c, NULL}
      /\ call[p] = "fork" => c = np[p] /\ c # p
      /\ call[p] # "fork" => c = p
  BY <1>1, <1>c, WorkedFacts
<1>f. /\ used[p] /\ call[p] \in {"fork", "exec", "grow"} /\ stage[p] \in Stages(call[p])
      /\ \A q \in Slot : np[q] # p
      /\ call[p] # "fork" => np[p] = NULL
      /\ call[p] = "fork" => \A q \in Slot : np[q] = np[p] => q = p
  BY <1>1, CallFacts
<1>k. CallOK(p) /\ UsedOK(p) /\ NewOK(p) /\ ForkOK(p) /\ UsedOK(c) /\ EmptyOK(c) /\ CallOK(c)
  BY <1>2 DEF SInv
<1> DEFINE j == IF call[p] = "fork" THEN 0 ELSE sz[p]
<1>3. /\ stage' = [stage EXCEPT ![p] = "copy"] /\ i' = [i EXCEPT ![p] = j]
      /\ used' = used /\ sz' = sz /\ frame' = frame /\ table' = table /\ call' = call
      /\ tgt' = tgt /\ np' = np /\ taken' = taken /\ zeroed' = zeroed /\ panic' = panic
  BY DEF CopyBegin, Go
<1>4. /\ stage'[p] = "copy" /\ i'[p] = j
      /\ \A q \in Slot : q # p => stage'[q] = stage[q] /\ i'[q] = i[q]
  BY <1>2, <1>3 DEF CallTypes
<1>5. tgt[p] \in 0 .. MAXPAGES /\ sz[p] \in 0 .. MAXPAGES /\ j \in 0 .. MAXPAGES + 6
  BY <1>2, MAXPAGESAssumption DEF CallTypes
<1>6. CallTypes' /\ TableTypes'
  <2> HIDE DEF j
  <2> QED BY <1>2, <1>3, <1>5 DEF CallTypes, TableTypes
<1>7. CountInv' /\ taken' \in Nat
  <2>1. \A s \in Slot : stage'[s] = "map" <=> stage[s] = "map"
    BY <1>1, <1>4
  <2> QED BY <1>3, <2>1, CountSame
<1>8. Reaches(p, c)
  BY <1>3, <1>4, <1>w DEF Reaches
<1>9. CallOK(p)'
  BY <1>1, <1>3, <1>4, <1>5, <1>f, <1>k, MAXPAGESAssumption DEF CallOK, Stages
<1>10. UsedOK(p)' /\ UsedOK(c)'
  <2>1. InUser(p)' = InUser(p) /\ InKernel(p)' = InKernel(p)
    BY <1>1, <1>3, <1>4 DEF InUser, InKernel
  <2> QED BY <1>3, <1>k, <1>w, <2>1 DEF UsedOK
<1>11. NewOK(p)'
  BY <1>1, <1>3, <1>k DEF NewOK
<1>12. ForkOK(p)'
  <2> SUFFICES ASSUME call[p] = "fork" PROVE FilledOK(p, np[p])'
    BY <1>3 DEF ForkOK
  <2>1. FilledOK(p, np[p]) /\ j = 0 /\ np' = np
    BY <1>3, <1>k DEF ForkOK
  <2> HIDE DEF j
  <2> QED BY <1>1, <1>3, <1>4, <2>1, NoUserPages DEF FilledOK, Built, BuiltKernel
<1>13. EmptyOK(p)' /\ EmptyOK(c)'
  BY <1>3, <1>f, <1>w DEF EmptyOK
<1>14. OnlyMemoryPanics' /\ zeroed' \in BOOLEAN
  BY <1>1, <1>2, <1>3 DEF OnlyMemoryPanics
<1> QED
  BY <1>1, <1>6, <1>7, <1>8, <1>9, <1>10, <1>11, <1>12, <1>13, <1>14, <1>f, <1>w, StepKept

(* Return(p), variable by variable.                                        *)
LEMMA Returned ==
  ASSUME CallTypes, NEW p \in Slot, Return(p)
  PROVE  /\ call'[p] = "none" /\ stage'[p] = "none" /\ i'[p] = 0 /\ tgt'[p] = 0
         /\ np'[p] = NULL
         /\ \A q \in Slot : q # p => /\ call'[q] = call[q] /\ stage'[q] = stage[q]
                                     /\ i'[q] = i[q] /\ tgt'[q] = tgt[q] /\ np'[q] = np[q]
         /\ call' \in [Slot -> {"none", "fork", "exec", "grow"}]
         /\ stage' \in [Slot -> {"none", "frame", "root", "tramp", "tframe", "kroot",
                                 "kmap", "kstack", "mem", "map", "copy"}]
         /\ i' \in [Slot -> 0 .. MAXPAGES + 6] /\ tgt' \in [Slot -> 0 .. MAXPAGES]
         /\ np' \in [Slot -> Slot \cup {NULL}]
         /\ CallOK(p)' /\ ForkOK(p)'
<1>1. /\ call' = [call EXCEPT ![p] = "none"] /\ stage' = [stage EXCEPT ![p] = "none"]
      /\ i' = [i EXCEPT ![p] = 0] /\ tgt' = [tgt EXCEPT ![p] = 0]
      /\ np' = [np EXCEPT ![p] = NULL]
  BY DEF Return, Go
<1>2. /\ call'[p] = "none" /\ stage'[p] = "none" /\ i'[p] = 0 /\ tgt'[p] = 0
      /\ np'[p] = NULL
      /\ \A q \in Slot : q # p => /\ call'[q] = call[q] /\ stage'[q] = stage[q]
                                  /\ i'[q] = i[q] /\ tgt'[q] = tgt[q] /\ np'[q] = np[q]
  BY <1>1 DEF CallTypes
<1>3. /\ call' \in [Slot -> {"none", "fork", "exec", "grow"}]
      /\ stage' \in [Slot -> {"none", "frame", "root", "tramp", "tframe", "kroot",
                              "kmap", "kstack", "mem", "map", "copy"}]
      /\ i' \in [Slot -> 0 .. MAXPAGES + 6] /\ tgt' \in [Slot -> 0 .. MAXPAGES]
      /\ np' \in [Slot -> Slot \cup {NULL}]
  BY <1>1, MAXPAGESAssumption DEF CallTypes
<1>4. CallOK(p)' /\ ForkOK(p)'
  BY <1>2 DEF CallOK, ForkOK, Stages
<1> QED BY <1>2, <1>3, <1>4

(* The new size or the child is there.                                     *)
LEMMA CallDoneKeeps ==
  ASSUME IInv, NEW p \in Slot, CallDone(p)
  PROVE  IInv'
<1>1. panic = NULL /\ stage[p] = "copy" /\ i[p] = tgt[p]
  BY DEF CallDone, In
<1>2. /\ CallTypes /\ TableTypes /\ taken \in Nat /\ zeroed \in BOOLEAN
      /\ CountInv /\ Finite(table) /\ SInv
  BY <1>1, Typed
<1>c. PICK c \in Slot : c = Worked(p)
  BY <1>1, WorkedFacts
<1>w. /\ c # p => ~used[c]
      /\ \A q \in Slot : q # p => np[q] # c
      /\ np[p] \in {c, NULL}
      /\ call[p] = "fork" => c = np[p] /\ c # p
      /\ call[p] # "fork" => c = p
  BY <1>1, <1>c, WorkedFacts
<1>f. /\ used[p] /\ call[p] \in {"fork", "exec", "grow"} /\ stage[p] \in Stages(call[p])
      /\ \A q \in Slot : np[q] # p
      /\ call[p] # "fork" => np[p] = NULL
      /\ call[p] = "fork" => \A q \in Slot : np[q] = np[p] => q = p
  BY <1>1, CallFacts
<1>k. CallOK(p) /\ UsedOK(p) /\ NewOK(p) /\ ForkOK(p) /\ UsedOK(c) /\ EmptyOK(c) /\ CallOK(c)
  BY <1>2 DEF SInv
<1>3. /\ used' = [used EXCEPT ![c] = TRUE] /\ sz' = [sz EXCEPT ![c] = tgt[p]]
      /\ frame' = frame /\ table' = table
      /\ taken' = taken /\ zeroed' = zeroed /\ panic' = panic /\ Return(p)
  BY <1>c DEF CallDone, Worked
<1>4. /\ call'[p] = "none" /\ stage'[p] = "none" /\ np'[p] = NULL
      /\ \A q \in Slot : q # p => /\ call'[q] = call[q] /\ stage'[q] = stage[q]
                                  /\ i'[q] = i[q] /\ tgt'[q] = tgt[q] /\ np'[q] = np[q]
      /\ CallOK(p)' /\ ForkOK(p)'
  BY <1>2, <1>3, Returned
<1>5. /\ used'[c] /\ sz'[c] = tgt[p]
      /\ \A q \in Slot : q # c => used'[q] = used[q] /\ sz'[q] = sz[q]
      /\ tgt[p] \in 0 .. MAXPAGES
  BY <1>2, <1>3 DEF CallTypes
<1>6. CallTypes' /\ TableTypes'
  <2>1. used' \in [Slot -> BOOLEAN] /\ sz' \in [Slot -> 0 .. MAXPAGES]
    BY <1>2, <1>3, <1>5 DEF CallTypes
  <2> QED BY <1>2, <1>3, <2>1, Returned DEF CallTypes, TableTypes
<1>7. CountInv' /\ taken' \in Nat
  <2>1. \A s \in Slot : stage'[s] = "map" <=> stage[s] = "map"
    BY <1>1, <1>4
  <2> QED BY <1>3, <2>1, CountSame
<1>8. Reaches(p, c)
  BY <1>3, <1>4, <1>5, <1>w DEF Reaches
<1>9. call'[c] = "none"
  <2>1. CASE c = p
    BY <1>4, <2>1
  <2>2. CASE c # p
    BY <1>4, <1>k, <1>w, <2>2 DEF CallOK
  <2> QED BY <2>1, <2>2
<1>10. InUser(c)' = tgt[p] /\ InKernel(c)' = tgt[p]
  BY <1>5, <1>9 DEF InUser, InKernel
<1>11. UsedOK(c)'
  <2>1. CASE call[p] = "fork"
    <3>1. FilledOK(p, c)
      BY <1>k, <1>w, <2>1 DEF ForkOK
    <3>2. /\ frame[c] /\ Leaves(table[c].user) = User \cup UserPages(tgt[p])
          /\ Leaves(table[c].kernel) = Kernel(c) \cup UserPages(tgt[p])
          /\ <<>> \in table[c].kernel
      BY <1>1, <3>1 DEF FilledOK, Built, BuiltKernel
    <3> QED BY <1>3, <1>10, <3>2 DEF UsedOK
  <2>2. CASE call[p] # "fork"
    <3>1. c = p /\ InUser(p) = tgt[p] /\ InKernel(p) = tgt[p]
      BY <1>1, <1>f, <1>k, <1>w, <2>2 DEF InUser, InKernel, CallOK
    <3> QED BY <1>3, <1>10, <1>f, <1>k, <3>1 DEF UsedOK
  <2> QED BY <2>1, <2>2
<1>12. UsedOK(p)'
  <2>1. CASE c = p
    BY <1>11, <2>1
  <2>2. CASE c # p
    <3>1. /\ InUser(p) = sz[p] /\ InKernel(p) = sz[p]
          /\ InUser(p)' = sz[p] /\ InKernel(p)' = sz[p]
      BY <1>4, <1>5, <1>w, <2>2 DEF InUser, InKernel
    <3> QED BY <1>3, <1>5, <1>k, <2>2, <3>1 DEF UsedOK
  <2> QED BY <2>1, <2>2
<1>13. NewOK(p)'
  BY <1>1, <1>3, <1>4, <1>k DEF NewOK
<1>14. EmptyOK(p)' /\ EmptyOK(c)'
  BY <1>5, <1>f DEF EmptyOK
<1>15. OnlyMemoryPanics' /\ zeroed' \in BOOLEAN
  BY <1>1, <1>2, <1>3 DEF OnlyMemoryPanics
<1> QED
  BY <1>1, <1>4, <1>6, <1>7, <1>8, <1>11, <1>12, <1>13, <1>14, <1>15, <1>f, <1>w, StepKept

(* allocproc() has no page for the trapframe.                              *)
LEMMA NoFrameKeeps ==
  ASSUME IInv, NEW p \in Slot, NoFrame(p)
  PROVE  IInv'
<1>1. panic = NULL /\ stage[p] = "frame"
  BY DEF NoFrame, In
<1>2. /\ CallTypes /\ TableTypes /\ taken \in Nat /\ zeroed \in BOOLEAN
      /\ CountInv /\ Finite(table) /\ SInv
  BY <1>1, Typed
<1>c. PICK c \in Slot : c = Worked(p)
  BY <1>1, WorkedFacts
<1>w. /\ c # p => ~used[c]
      /\ \A q \in Slot : q # p => np[q] # c
      /\ np[p] \in {c, NULL}
      /\ call[p] = "fork" => c = np[p] /\ c # p
      /\ call[p] # "fork" => c = p
  BY <1>1, <1>c, WorkedFacts
<1>f. /\ used[p] /\ call[p] \in {"fork", "exec", "grow"} /\ stage[p] \in Stages(call[p])
      /\ \A q \in Slot : np[q] # p
      /\ call[p] # "fork" => np[p] = NULL
      /\ call[p] = "fork" => \A q \in Slot : np[q] = np[p] => q = p
  BY <1>1, CallFacts
<1>k. CallOK(p) /\ UsedOK(p) /\ NewOK(p) /\ ForkOK(p) /\ UsedOK(c) /\ EmptyOK(c) /\ CallOK(c)
  BY <1>2 DEF SInv
<1>3. /\ used' = used /\ sz' = sz /\ frame' = frame /\ table' = table
      /\ taken' = taken /\ zeroed' = zeroed /\ panic' = panic /\ Return(p)
  BY DEF NoFrame
<1>4. /\ call'[p] = "none" /\ stage'[p] = "none" /\ np'[p] = NULL
      /\ \A q \in Slot : q # p => /\ call'[q] = call[q] /\ stage'[q] = stage[q]
                                  /\ i'[q] = i[q] /\ tgt'[q] = tgt[q] /\ np'[q] = np[q]
      /\ CallOK(p)' /\ ForkOK(p)'
  BY <1>2, <1>3, Returned
<1>5. CallTypes' /\ TableTypes'
  BY <1>2, <1>3, Returned DEF CallTypes, TableTypes
<1>6. CountInv' /\ taken' \in Nat
  <2>1. \A s \in Slot : stage'[s] = "map" <=> stage[s] = "map"
    BY <1>1, <1>4
  <2> QED BY <1>3, <2>1, CountSame
<1>7. Reaches(p, c)
  BY <1>3, <1>4, <1>w DEF Reaches
<1>8. call[p] = "fork" /\ c = np[p] /\ c # p
  BY <1>1, <1>f, <1>w DEF Stages
<1>9. UsedOK(p)' /\ UsedOK(c)'
  <2>1. InUser(p)' = InUser(p) /\ InKernel(p)' = InKernel(p)
    BY <1>3, <1>4, <1>8 DEF InUser, InKernel
  <2> QED BY <1>3, <1>k, <1>w, <1>8, <2>1 DEF UsedOK
<1>10. NewOK(p)'
  BY <1>3, <1>4, <1>8, <1>k DEF NewOK
<1>11. EmptyOK(p)' /\ EmptyOK(c)'
  BY <1>1, <1>3, <1>8, <1>f, <1>k DEF EmptyOK, ForkOK, FilledOK
<1>12. OnlyMemoryPanics' /\ zeroed' \in BOOLEAN
  BY <1>1, <1>2, <1>3 DEF OnlyMemoryPanics
<1> QED
  BY <1>1, <1>4, <1>5, <1>6, <1>7, <1>9, <1>10, <1>11, <1>12, <1>f, <1>w, StepKept

(* There is no page for a table, and no error to return.                   *)
LEMMA NoTablePanicsKeeps ==
  ASSUME IInv, NEW p \in Slot, NoTablePanics(p)
  PROVE  IInv'
<1>1. panic' = "proc_kvmmap" \/ panic' = "vmcopypage"
  BY DEF NoTablePanics
<1>2. /\ used' = used /\ sz' = sz /\ frame' = frame /\ table' = table
      /\ call' = call /\ stage' = stage /\ i' = i /\ tgt' = tgt /\ np' = np
      /\ taken' = taken /\ zeroed' = zeroed
  BY DEF NoTablePanics
<1>3. /\ CallTypes /\ TableTypes /\ taken \in Nat /\ zeroed \in BOOLEAN
      /\ CountInv /\ Finite(table)
  BY Typed
<1>4. CallTypes' /\ TableTypes'
  BY <1>2, <1>3 DEF CallTypes, TableTypes
<1>5. CountInv' /\ taken' \in Nat
  BY <1>2, CountSame
<1>6. OnlyMemoryPanics' /\ zeroed' \in BOOLEAN
  BY <1>1, <1>2, <1>3 DEF OnlyMemoryPanics
<1>7. TypeOK' /\ Finite(table)'
  BY <1>4, <1>5, <1>6, TypePartsNext DEF Types
<1>8. panic' # NULL
  BY <1>1, NULLAssumption DEF Panics
<1> QED BY <1>5, <1>6, <1>7, <1>8 DEF IInv

(* proc_kvminit() uses a root that is somebody's page 0, or faults.        *)
LEMMA NoKernelRootKeeps ==
  ASSUME IInv, NEW p \in Slot, NoKernelRoot(p)
  PROVE  IInv'
<1>1. panic = NULL /\ stage[p] = "kroot" /\ ~zeroed
  BY DEF NoKernelRoot, In
<1>2. /\ CallTypes /\ TableTypes /\ taken \in Nat /\ zeroed \in BOOLEAN
      /\ CountInv /\ Finite(table) /\ SInv
  BY <1>1, Typed
<1>c. PICK c \in Slot : c = Worked(p)
  BY <1>1, WorkedFacts
<1>w. /\ c # p => ~used[c]
      /\ \A q \in Slot : q # p => np[q] # c
      /\ np[p] \in {c, NULL}
      /\ call[p] = "fork" => c = np[p] /\ c # p
      /\ call[p] # "fork" => c = p
  BY <1>1, <1>c, WorkedFacts
<1>f. /\ used[p] /\ call[p] \in {"fork", "exec", "grow"} /\ stage[p] \in Stages(call[p])
      /\ \A q \in Slot : np[q] # p
      /\ call[p] # "fork" => np[p] = NULL
      /\ call[p] = "fork" => \A q \in Slot : np[q] = np[p] => q = p
  BY <1>1, CallFacts
<1>k. CallOK(p) /\ UsedOK(p) /\ NewOK(p) /\ ForkOK(p) /\ UsedOK(c) /\ EmptyOK(c) /\ CallOK(c)
  BY <1>2 DEF SInv
<1>3. /\ stage' = [stage EXCEPT ![p] = "kmap"] /\ i' = [i EXCEPT ![p] = 1]
      /\ used' = used /\ sz' = sz /\ frame' = frame /\ table' = table
      /\ call' = call /\ tgt' = tgt /\ np' = np /\ taken' = taken
  BY DEF NoKernelRoot, Go
<1>4. \/ zeroed' = TRUE /\ panic' = NULL
      \/ zeroed' = zeroed /\ panic' = "kerneltrap"
  BY <1>1 DEF NoKernelRoot
<1>5. /\ stage'[p] = "kmap" /\ i'[p] = 1
      /\ \A q \in Slot : q # p => stage'[q] = stage[q] /\ i'[q] = i[q]
  BY <1>2, <1>3 DEF CallTypes
<1>6. CallTypes' /\ TableTypes'
  BY <1>2, <1>3, MAXPAGESAssumption DEF CallTypes, TableTypes
<1>7. CountInv' /\ taken' \in Nat
  <2>1. \A s \in Slot : stage'[s] = "map" <=> stage[s] = "map"
    BY <1>1, <1>5
  <2> QED BY <1>1, <1>3, <2>1, CountSame
<1>8. Reaches(p, c)
  BY <1>1, <1>3, <1>5, <1>w DEF Reaches
<1>9. call[p] = "fork" /\ c = np[p] /\ c # p
  BY <1>1, <1>f, <1>w DEF Stages
<1>10. CallOK(p)'
  BY <1>3, <1>5, <1>9, <1>f, <1>k DEF CallOK, Stages
<1>11. UsedOK(p)' /\ UsedOK(c)'
  <2>1. InUser(p)' = InUser(p) /\ InKernel(p)' = InKernel(p)
    BY <1>3, <1>9 DEF InUser, InKernel
  <2> QED BY <1>3, <1>9, <1>k, <1>w, <2>1 DEF UsedOK
<1>12. NewOK(p)'
  BY <1>3, <1>9, <1>k DEF NewOK
<1>13. panic' = NULL => ForkOK(p)'
  <2> SUFFICES ASSUME panic' = NULL PROVE FilledOK(p, c)'
    BY <1>3, <1>9 DEF ForkOK
  <2>1. zeroed'
    BY <1>4, NULLAssumption DEF Panics
  <2>2. FilledOK(p, c)
    BY <1>9, <1>k DEF ForkOK
  <2>3. {KernelMap[j] : j \in 1 .. 1 - 1} = {}
    OBVIOUS
  <2>4. BuiltKernel(c, "kroot", i[p]) = {} /\ BuiltKernel(c, "kmap", 1) = {}
    BY <2>3 DEF BuiltKernel
  <2>5. Built("kroot", i[p]) = User /\ Built("kmap", 1) = User
    BY DEF Built
  <2>6. /\ frame[c] /\ Leaves(table[c].user) = User /\ Leaves(table[c].kernel) = {}
    BY <1>1, <2>2, <2>4, <2>5 DEF FilledOK
  <2>7. Built(stage'[p], IF stage'[p] = "copy" THEN tgt'[p] ELSE i'[p]) = User
    BY <1>5, <2>5
  <2>8. BuiltKernel(c, stage'[p], i'[p]) = {}
    BY <1>5, <2>4
  <2> QED BY <1>3, <1>5, <2>1, <2>6, <2>7, <2>8 DEF FilledOK
<1>14. EmptyOK(p)' /\ EmptyOK(c)'
  BY <1>3, <1>f, <1>9 DEF EmptyOK
<1>15. OnlyMemoryPanics' /\ zeroed' \in BOOLEAN
  BY <1>2, <1>4 DEF OnlyMemoryPanics
<1> QED
  BY <1>1, <1>6, <1>7, <1>8, <1>10, <1>11, <1>12, <1>13, <1>14, <1>15, <1>f, <1>w, StepKept

(* kalloc() gives the trapframe.                                           *)
LEMMA TakeFrameKeeps ==
  ASSUME IInv, NEW p \in Slot, TakeFrame(p)
  PROVE  IInv'
<1>1. panic = NULL /\ stage[p] = "frame"
  BY DEF TakeFrame, In
<1>2. /\ CallTypes /\ TableTypes /\ taken \in Nat /\ zeroed \in BOOLEAN
      /\ CountInv /\ Finite(table) /\ SInv
  BY <1>1, Typed
<1>c. PICK c \in Slot : c = Worked(p)
  BY <1>1, WorkedFacts
<1>w. /\ c # p => ~used[c]
      /\ \A q \in Slot : q # p => np[q] # c
      /\ np[p] \in {c, NULL}
      /\ call[p] = "fork" => c = np[p] /\ c # p
      /\ call[p] # "fork" => c = p
  BY <1>1, <1>c, WorkedFacts
<1>f. /\ used[p] /\ call[p] \in {"fork", "exec", "grow"} /\ stage[p] \in Stages(call[p])
      /\ \A q \in Slot : np[q] # p
      /\ call[p] # "fork" => np[p] = NULL
      /\ call[p] = "fork" => \A q \in Slot : np[q] = np[p] => q = p
  BY <1>1, CallFacts
<1>k. CallOK(p) /\ UsedOK(p) /\ NewOK(p) /\ ForkOK(p) /\ UsedOK(c) /\ EmptyOK(c) /\ CallOK(c)
  BY <1>2 DEF SInv
<1>3. /\ stage' = [stage EXCEPT ![p] = "root"] /\ i' = [i EXCEPT ![p] = 0]
      /\ frame' = [frame EXCEPT ![np[p]] = TRUE]
      /\ used' = used /\ sz' = sz /\ table' = table /\ call' = call
      /\ tgt' = tgt /\ np' = np /\ taken' = taken + 1 /\ zeroed' = zeroed
      /\ panic' = panic
  BY DEF TakeFrame, Go
<1>4. call[p] = "fork" /\ c = np[p] /\ c # p
  BY <1>1, <1>f, <1>w DEF Stages
<1>5. FilledOK(p, c)
  BY <1>4, <1>k DEF ForkOK
<1>6. /\ stage'[p] = "root" /\ i'[p] = 0
      /\ \A q \in Slot : q # p => stage'[q] = stage[q] /\ i'[q] = i[q]
      /\ frame'[c] = TRUE /\ ~frame[c]
      /\ \A q \in Slot : q # c => frame'[q] = frame[q]
  BY <1>1, <1>2, <1>3, <1>4, <1>5 DEF CallTypes, FilledOK
<1>7. CallTypes' /\ TableTypes'
  <2>1. frame' \in [Slot -> BOOLEAN]
    BY <1>2, <1>3 DEF CallTypes
  <2>2. /\ used' \in [Slot -> BOOLEAN] /\ sz' \in [Slot -> 0 .. MAXPAGES]
        /\ tgt' \in [Slot -> 0 .. MAXPAGES] /\ np' \in [Slot -> Slot \cup {NULL}]
        /\ call' \in [Slot -> {"none", "fork", "exec", "grow"}]
    BY <1>2, <1>3 DEF CallTypes
  <2>3. i' \in [Slot -> 0 .. MAXPAGES + 6]
    BY <1>2, <1>3, MAXPAGESAssumption DEF CallTypes
  <2>4. stage' \in [Slot -> {"none", "frame", "root", "tramp", "tframe", "kroot",
                             "kmap", "kstack", "mem", "map", "copy"}]
    BY <1>2, <1>3 DEF CallTypes
  <2> QED BY <1>2, <1>3, <2>1, <2>2, <2>3, <2>4 DEF CallTypes, TableTypes
<1>8. CountInv' /\ taken' \in Nat
  <2>1. /\ frame' \in [Slot -> BOOLEAN]
        /\ \A s \in Slot : s # p => (stage'[s] = "map" <=> stage[s] = "map")
    BY <1>6, <1>7 DEF CallTypes
  <2>2. taken' = taken - One(frame[c]) + One(frame'[c])
                       - InHand(stage[p]) + InHand(stage'[p])
    BY <1>1, <1>2, <1>3, <1>6 DEF One, InHand
  <2>3. table' = table /\ (zeroed => zeroed')
    BY <1>3
  <2>4. \A s \in Slot : s # c => frame'[s] = frame[s]
    BY <1>6
  <2> QED BY <2>1, <2>2, <2>3, <2>4, CountTablesSame
<1>9. Reaches(p, c)
  BY <1>3, <1>6, <1>w DEF Reaches
<1>10. CallOK(p)'
  BY <1>3, <1>4, <1>6, <1>f, <1>k DEF CallOK, Stages
<1>11. UsedOK(p)' /\ UsedOK(c)'
  <2>1. InUser(p)' = InUser(p) /\ InKernel(p)' = InKernel(p)
    BY <1>3, <1>4 DEF InUser, InKernel
  <2> QED BY <1>3, <1>4, <1>6, <1>k, <1>w, <2>1 DEF UsedOK
<1>12. NewOK(p)'
  BY <1>3, <1>4, <1>k DEF NewOK
<1>13. ForkOK(p)'
  <2>1. FilledOK(p, c)'
    BY <1>1, <1>3, <1>5, <1>6 DEF FilledOK, Built, BuiltKernel
  <2> QED BY <1>3, <1>4, <2>1 DEF ForkOK
<1>14. EmptyOK(p)' /\ EmptyOK(c)'
  BY <1>3, <1>f, <1>4 DEF EmptyOK
<1>15. OnlyMemoryPanics' /\ zeroed' \in BOOLEAN
  BY <1>1, <1>2, <1>3 DEF OnlyMemoryPanics
<1> QED
  BY <1>1, <1>7, <1>8, <1>9, <1>10, <1>11, <1>12, <1>13, <1>14, <1>15, <1>f, <1>w, StepKept

(* Only exec() works on a new table, until its commit.                     *)
LEMMA WorkedKinds ==
  ASSUME NEW p \in Slot
  PROVE  /\ WorkedKind(p) \in Kind
         /\ WorkedKind(p) = "new" => call[p] = "exec" /\ stage[p] # "copy"
BY DEF WorkedKind, Kind

(* The tables after a step that sets one of them to t.                     *)
TableSet(c, k, t) ==
  /\ table'[c][k] = t
  /\ \A h \in Kind : h # k => table'[c][h] = table[c][h]
  /\ \A s \in Slot : s # c => table'[s] = table[s]

(* Setting one table to a tree of positions keeps the types of all.        *)
LEMMA TargetSet ==
  ASSUME IInv, NEW c \in Slot, NEW k \in Kind, NEW t \in SUBSET Position,
         Grown(t), IsFiniteSet(t), table' = [table EXCEPT ![c][k] = t]
  PROVE  TableSet(c, k, t) /\ TableTypes'
<1>1. /\ table \in [Slot -> [Kind -> SUBSET Position]]
      /\ \A s \in Slot : \A h \in Kind : Grown(table[s][h]) /\ IsFiniteSet(table[s][h])
  BY Typed DEF TableTypes
<1>2. TableSet(c, k, t)
  BY <1>1 DEF TableSet
<1>3. table' \in [Slot -> [Kind -> SUBSET Position]]
  BY <1>1
<1>4. \A s \in Slot : \A h \in Kind : Grown(table'[s][h]) /\ IsFiniteSet(table'[s][h])
  <2> TAKE s \in Slot
  <2> TAKE h \in Kind
  <2>1. CASE s = c /\ h = k
    BY <1>2, <2>1 DEF TableSet
  <2>2. CASE ~(s = c /\ h = k)
    <3>1. table'[s][h] = table[s][h]
      BY <1>2, <2>2 DEF TableSet
    <3> QED BY <1>1, <3>1
  <2> QED BY <2>1, <2>2
<1> QED BY <1>2, <1>3, <1>4 DEF TableTypes

(* The pages that a table of kind k holds for a process.                   *)
Weight(k, t) == IF k = "kernel" THEN TableCount(t) ELSE PageCount(t)

(* A step that sets one table and counts its pages conserves them.         *)
LEMMA CountSet ==
  ASSUME IInv, NEW p \in Slot, NEW c \in Slot, NEW k \in Kind, NEW t,
         TableSet(c, k, t), TableTypes', frame' = frame, zeroed => zeroed',
         \A s \in Slot : s # p => (stage'[s] = "map" <=> stage[s] = "map"),
         taken' = taken - InHand(stage[p]) + InHand(stage'[p])
                        - Weight(k, table[c][k]) + Weight(k, t)
  PROVE  CountInv' /\ taken' \in Nat
<1>1. frame \in [Slot -> BOOLEAN] /\ Finite(table) /\ taken \in Nat
  BY Typed DEF CallTypes
<1>2. Finite(table)'
  BY DEF TableTypes, Finite, Kind
<1>3. /\ \A s \in Slot : s # c => table'[s].user = table[s].user
      /\ \A s \in Slot : s # c => table'[s].new = table[s].new
      /\ \A s \in Slot : s # c => table'[s].kernel = table[s].kernel
  BY DEF TableSet
<1>4. Moved(c, p, c, c, c)
  BY <1>1, <1>2, <1>3 DEF Moved
<1>5. /\ One(frame[c]) \in Nat /\ One(frame'[c]) \in Nat
      /\ InHand(stage[p]) \in Nat /\ InHand(stage'[p]) \in Nat
      /\ PageCount(table[c].user) \in Nat /\ PageCount(table'[c].user) \in Nat
      /\ PageCount(table[c].new) \in Nat /\ PageCount(table'[c].new) \in Nat
      /\ TableCount(table[c].kernel) \in Nat /\ TableCount(table'[c].kernel) \in Nat
  BY <1>4, CountMoved
<1>6. One(frame'[c]) = One(frame[c])
  OBVIOUS
<1>7. taken' = taken + Added(c, p, c, c, c)
  <2>1. CASE k = "user"
    <3>1. /\ table[c][k] = table[c].user /\ t = table'[c].user
          /\ table'[c].new = table[c].new /\ table'[c].kernel = table[c].kernel
      BY <2>1 DEF TableSet, Kind
    <3>2. Weight(k, table[c][k]) = PageCount(table[c].user)
          /\ Weight(k, t) = PageCount(table'[c].user)
      BY <2>1, <3>1 DEF Weight
    <3> QED BY <1>1, <1>5, <1>6, <3>1, <3>2 DEF Added
  <2>2. CASE k = "new"
    <3>1. /\ table[c][k] = table[c].new /\ t = table'[c].new
          /\ table'[c].user = table[c].user /\ table'[c].kernel = table[c].kernel
      BY <2>2 DEF TableSet, Kind
    <3>2. Weight(k, table[c][k]) = PageCount(table[c].new)
          /\ Weight(k, t) = PageCount(table'[c].new)
      BY <2>2, <3>1 DEF Weight
    <3> QED BY <1>1, <1>5, <1>6, <3>1, <3>2 DEF Added
  <2>3. CASE k = "kernel"
    <3>1. /\ table[c][k] = table[c].kernel /\ t = table'[c].kernel
          /\ table'[c].user = table[c].user /\ table'[c].new = table[c].new
      BY <2>3 DEF TableSet, Kind
    <3>2. Weight(k, table[c][k]) = TableCount(table[c].kernel)
          /\ Weight(k, t) = TableCount(table'[c].kernel)
      BY <2>3, <3>1 DEF Weight
    <3> QED BY <1>1, <1>5, <1>6, <3>1, <3>2 DEF Added
  <2> QED BY <2>1, <2>2, <2>3 DEF Kind
<1>8. Counted(c, p, c, c, c)
  BY <1>4, <1>7 DEF Counted
<1> QED BY <1>8, CountChanged

(* A step of a call that writes the table it works on, and its own stage   *)
(* and index.                                                              *)
Steady(p) ==
  /\ used' = used /\ sz' = sz /\ frame' = frame /\ call' = call /\ tgt' = tgt
  /\ np' = np /\ zeroed' = zeroed
  /\ stage' \in [Slot -> {"none", "frame", "root", "tramp", "tframe", "kroot",
                          "kmap", "kstack", "mem", "map", "copy"}]
  /\ i' \in [Slot -> 0 .. MAXPAGES + 6]
  /\ \A q \in Slot : q # p => stage'[q] = stage[q] /\ i'[q] = i[q]

(* Such a step keeps the invariant when it counts the pages of the table   *)
(* and keeps what is known of p and of the slot it works on.               *)
LEMMA TargetStep ==
  ASSUME IInv, panic = NULL, NEW p \in Slot, stage[p] # "none",
         NEW c \in Slot, c = Worked(p),
         NEW t \in SUBSET Position, Grown(t), IsFiniteSet(t), SetTarget(p, t),
         Steady(p), OnlyMemoryPanics',
         taken' = taken - InHand(stage[p]) + InHand(stage'[p])
                        - Weight(WorkedKind(p), TargetTable(p)) + Weight(WorkedKind(p), t),
         TableSet(c, WorkedKind(p), t) /\ panic' = NULL =>
           /\ CallOK(p)' /\ NewOK(p)' /\ UsedOK(p)'
           /\ call[p] = "fork" => FilledOK(p, c)'
  PROVE  IInv'
<1>1. panic = NULL /\ stage[p] # "none"
  OBVIOUS
<1>2. /\ CallTypes /\ TableTypes /\ taken \in Nat /\ zeroed \in BOOLEAN
      /\ CountInv /\ Finite(table) /\ SInv
  BY <1>1, Typed
<1>w. /\ c # p => ~used[c]
      /\ \A q \in Slot : q # p => np[q] # c
      /\ np[p] \in {c, NULL}
      /\ call[p] = "fork" => c = np[p] /\ c # p
      /\ call[p] # "fork" => c = p
  BY <1>1, WorkedFacts
<1>f. /\ used[p] /\ call[p] \in {"fork", "exec", "grow"} /\ stage[p] \in Stages(call[p])
      /\ \A q \in Slot : np[q] # p
      /\ call[p] # "fork" => np[p] = NULL
      /\ call[p] = "fork" => \A q \in Slot : np[q] = np[p] => q = p
  BY <1>1, CallFacts
<1>k. CallOK(p) /\ UsedOK(p) /\ NewOK(p) /\ ForkOK(p) /\ UsedOK(c) /\ EmptyOK(c) /\ CallOK(c)
  BY <1>2 DEF SInv
<1> DEFINE k == WorkedKind(p)
<1>3. k \in Kind /\ TargetTable(p) = table[c][k] /\ (k = "new" => call[p] = "exec")
  BY WorkedKinds DEF TargetTable
<1> HIDE DEF k
<1>4. table' = [table EXCEPT ![c][k] = t]
  BY DEF SetTarget, k
<1>5. TableSet(c, k, t) /\ TableTypes'
  BY <1>3, <1>4, TargetSet
<1>6. CallTypes'
  BY <1>2 DEF CallTypes, Steady
<1>7. CountInv' /\ taken' \in Nat
  <2>1. taken' = taken - InHand(stage[p]) + InHand(stage'[p])
                       - Weight(k, table[c][k]) + Weight(k, t)
    BY <1>3 DEF k
  <2>2. \A s \in Slot : s # p => (stage'[s] = "map" <=> stage[s] = "map")
    BY DEF Steady
  <2>3. frame' = frame /\ (zeroed => zeroed')
    BY DEF Steady
  <2> QED BY <1>3, <1>5, <2>1, <2>2, <2>3, CountSet
<1>8. Reaches(p, c)
  <2>1. c # p => table'[c].new = table[c].new
    BY <1>3, <1>5, <1>w DEF TableSet, Kind
  <2> QED BY <1>5, <1>w, <2>1 DEF Reaches, Steady, TableSet
<1>9. panic' = NULL =>
        /\ CallOK(p)' /\ NewOK(p)' /\ UsedOK(p)' /\ ForkOK(p)' /\ EmptyOK(p)'
        /\ UsedOK(c)' /\ EmptyOK(c)'
  <2> SUFFICES ASSUME panic' = NULL
               PROVE  /\ CallOK(p)' /\ NewOK(p)' /\ UsedOK(p)' /\ ForkOK(p)' /\ EmptyOK(p)'
                      /\ UsedOK(c)' /\ EmptyOK(c)'
    OBVIOUS
  <2>1. /\ CallOK(p)' /\ NewOK(p)' /\ UsedOK(p)'
        /\ call[p] = "fork" => FilledOK(p, c)'
    BY <1>5 DEF k
  <2>2. used' = used /\ call' = call /\ np' = np
    BY DEF Steady
  <2>3. ForkOK(p)'
    BY <1>w, <2>1, <2>2 DEF ForkOK
  <2>4. UsedOK(c)'
    BY <1>w, <2>1, <2>2 DEF UsedOK
  <2>5. EmptyOK(p)' /\ EmptyOK(c)'
    BY <1>f, <1>w, <2>2 DEF EmptyOK
  <2> QED BY <2>1, <2>3, <2>4, <2>5
<1>10. zeroed' \in BOOLEAN
  BY <1>2 DEF Steady
<1> QED BY <1>1, <1>5, <1>6, <1>7, <1>8, <1>9, <1>10, <1>f, StepKept

(* What the page for walk() is wanted for is a page of some region.        *)
LEMMA WantedFacts ==
  ASSUME IInv, panic = NULL, NEW p \in Slot,
         stage[p] \in {"tramp", "tframe", "kmap", "kstack", "map", "copy"},
         stage[p] = "copy" => i[p] < tgt[p]
  PROVE  /\ Wanted(p) \in Mapping
         /\ stage[p] \in {"map", "copy"} =>
              /\ i[p] \in Nat /\ i[p] + 1 \in 0 .. tgt[p]
              /\ tgt[p] \in 0 .. MAXPAGES /\ i[p] \in 0 .. MAXPAGES
              /\ Wanted(p) = UserPage(i[p])
<1>1. /\ CallTypes /\ CallOK(p) /\ stage[p] \in Stages(call[p])
      /\ call[p] \in {"fork", "exec", "grow"} /\ (call[p] = "fork" => np[p] \in Slot)
  BY Typed, CallFacts DEF SInv
<1>2. tgt[p] \in 0 .. MAXPAGES /\ i[p] \in 0 .. MAXPAGES + 6
  BY <1>1 DEF CallTypes
<1>3. CASE stage[p] \in {"map", "copy"}
  <2>1. i[p] \in 0 .. tgt[p] - 1 /\ i[p] \in Nat /\ i[p] + 1 \in 0 .. tgt[p]
        /\ i[p] \in 0 .. MAXPAGES
    BY <1>1, <1>2, <1>3, MAXPAGESAssumption DEF CallOK
  <2>2. UserPage(i[p]) \in UserPages(tgt[p])
    BY <2>1 DEF UserPages
  <2>3. Wanted(p) = UserPage(i[p])
    BY <1>3 DEF Wanted
  <2> QED BY <1>2, <2>1, <2>2, <2>3, Regions
<1>4. CASE stage[p] \in {"tramp", "tframe"}
  BY <1>4, Regions DEF Wanted
<1>5. CASE stage[p] = "kmap"
  <2>1. i[p] \in 1 .. 6 /\ Wanted(p) = KernelMap[i[p]]
    BY <1>1, <1>5 DEF CallOK, Wanted
  <2> QED BY <1>5, <2>1, KernelMapEntries, Regions
<1>6. CASE stage[p] = "kstack"
  <2>1. np[p] \in Slot /\ Wanted(p) = KSTACK(np[p])
    BY <1>1, <1>6 DEF Stages, Wanted
  <2> QED BY <1>6, <2>1, Regions
<1> QED BY <1>3, <1>4, <1>5, <1>6

(* fork() and exec() leave alone the tables that the process runs on.      *)
LEMMA ForkSelf ==
  ASSUME IInv, panic = NULL, NEW p \in Slot, stage[p] # "none", call[p] = "fork",
         NEW k, NEW t, TableSet(Worked(p), k, t), Steady(p)
  PROVE  UsedOK(p)' /\ NewOK(p)'
<1>1. Worked(p) # p /\ UsedOK(p) /\ NewOK(p)
  BY WorkedFacts, CallFacts DEF SInv
<1>2. table'[p] = table[p] /\ call' = call /\ sz' = sz /\ used' = used /\ frame' = frame
  BY <1>1 DEF TableSet, Steady
<1>3. InUser(p)' = InUser(p) /\ InKernel(p)' = InKernel(p)
  BY <1>2 DEF InUser, InKernel
<1> QED BY <1>1, <1>2, <1>3 DEF UsedOK, NewOK

(* exec() builds its new table beside the one that the process runs on.    *)
LEMMA ExecSelf ==
  ASSUME IInv, panic = NULL, NEW p \in Slot, stage[p] # "none", call[p] = "exec",
         stage[p] # "copy", stage'[p] # "copy", NEW t, TableSet(p, "new", t), Steady(p)
  PROVE  UsedOK(p)'
<1>1. UsedOK(p)
  BY CallFacts DEF SInv
<1>2. /\ table'[p].user = table[p].user /\ table'[p].kernel = table[p].kernel
      /\ call' = call /\ sz' = sz /\ used' = used /\ frame' = frame
  BY DEF TableSet, Steady, Kind
<1>3. InUser(p)' = InUser(p) /\ InKernel(p)' = InKernel(p)
  BY <1>2 DEF InUser, InKernel
<1> QED BY <1>1, <1>2, <1>3 DEF UsedOK

(* A table that has just been allocated: one page.                         *)
LEMMA JustARoot ==
  /\ {<<>>} \in SUBSET Position /\ Grown({<<>>}) /\ IsFiniteSet({<<>>})
  /\ Leaves({<<>>}) = {} /\ PageCount({<<>>}) = 1 /\ TableCount({<<>>}) = 1
<1>1. <<>> \in Seq(Int) /\ Len(<<>>) = 0
  OBVIOUS
<1>2. <<>> \notin User
  BY <1>1, Regions, PositionLength DEF User
<1>3. {<<>>} \in SUBSET Position /\ Grown({<<>>}) /\ Leaves({<<>>}) = {}
  BY <1>1 DEF Position, Grown, Leaves
<1>4. {<<>>} \ User = {<<>>} /\ TablePages({<<>>}) = {<<>>}
  BY <1>1, <1>2 DEF TablePages
<1> QED BY <1>3, <1>4, FS_Singleton DEF PageCount, TableCount

(* kalloc() gives the root of a table.                                     *)
LEMMA TakeRootKeeps ==
  ASSUME IInv, NEW p \in Slot, TakeRoot(p)
  PROVE  IInv'
<1>1. panic = NULL /\ stage[p] \in {"root", "kroot"} /\ stage[p] # "none"
  BY DEF TakeRoot, In
<1>2. /\ CallTypes /\ TableTypes /\ taken \in Nat /\ zeroed \in BOOLEAN
      /\ CountInv /\ Finite(table) /\ SInv
  BY <1>1, Typed
<1>c. PICK c \in Slot : c = Worked(p)
  BY <1>1, WorkedFacts
<1>w. /\ c # p => ~used[c]
      /\ \A q \in Slot : q # p => np[q] # c
      /\ np[p] \in {c, NULL}
      /\ call[p] = "fork" => c = np[p] /\ c # p
      /\ call[p] # "fork" => c = p
  BY <1>1, <1>c, WorkedFacts
<1>f. /\ used[p] /\ call[p] \in {"fork", "exec", "grow"} /\ stage[p] \in Stages(call[p])
      /\ \A q \in Slot : np[q] # p
      /\ call[p] # "fork" => np[p] = NULL
      /\ call[p] = "fork" => \A q \in Slot : np[q] = np[p] => q = p
  BY <1>1, CallFacts
<1>k. CallOK(p) /\ UsedOK(p) /\ NewOK(p) /\ ForkOK(p) /\ UsedOK(c) /\ EmptyOK(c) /\ CallOK(c)
  BY <1>2 DEF SInv
<1> DEFINE st == IF stage[p] = "root" THEN "tramp" ELSE "kmap"
           j == IF stage[p] = "root" THEN 0 ELSE 1
<1>3. /\ stage' = [stage EXCEPT ![p] = st] /\ i' = [i EXCEPT ![p] = j]
      /\ used' = used /\ sz' = sz /\ frame' = frame /\ call' = call
      /\ tgt' = tgt /\ np' = np /\ taken' = taken + 1 /\ zeroed' = zeroed
      /\ panic' = panic /\ SetTarget(p, {<<>>})
  BY <1>1 DEF TakeRoot, Go, In
<1>4. j \in 0 .. MAXPAGES + 6
  BY MAXPAGESAssumption
<1>5. stage'[p] = st /\ i'[p] = j /\ Steady(p)
  <2>1. i' \in [Slot -> 0 .. MAXPAGES + 6] /\ i'[p] = j
        /\ \A q \in Slot : q # p => i'[q] = i[q]
    <3> HIDE DEF j
    <3> QED BY <1>2, <1>3, <1>4 DEF CallTypes
  <2>2. /\ stage' \in [Slot -> {"none", "frame", "root", "tramp", "tframe", "kroot",
                                "kmap", "kstack", "mem", "map", "copy"}]
        /\ stage'[p] = st /\ \A q \in Slot : q # p => stage'[q] = stage[q]
    BY <1>2, <1>3 DEF CallTypes
  <2> QED BY <1>3, <2>1, <2>2 DEF Steady
<1>6. OnlyMemoryPanics'
  BY <1>1, <1>3 DEF OnlyMemoryPanics
<1>7. InHand(stage[p]) = 0 /\ InHand(stage'[p]) = 0
  BY <1>1, <1>5 DEF InHand
<1>8. call[p] \in {"fork", "exec"} /\ (stage[p] = "kroot" => call[p] = "fork")
  BY <1>1, <1>f DEF Stages
<1>9. WorkedKind(p) = IF stage[p] = "kroot" THEN "kernel"
                      ELSE IF call[p] = "exec" THEN "new" ELSE "user"
  BY <1>1 DEF WorkedKind
<1>10. call[p] = "fork" => FilledOK(p, c)
  BY <1>w, <1>k DEF ForkOK
<1>11. TargetTable(p) = {}
  <2>1. CASE call[p] = "fork"
    BY <1>1, <1>c, <1>9, <1>10, <2>1 DEF TargetTable, FilledOK
  <2>2. CASE call[p] = "exec"
    BY <1>1, <1>c, <1>w, <1>8, <1>9, <1>k, <2>2 DEF TargetTable, NewOK
  <2> QED BY <1>8, <2>1, <2>2
<1>12. Weight(WorkedKind(p), TargetTable(p)) = 0 /\ Weight(WorkedKind(p), {<<>>}) = 1
  BY <1>11, NoTableCounts, JustARoot DEF Weight
<1>13. taken' = taken - InHand(stage[p]) + InHand(stage'[p])
         - Weight(WorkedKind(p), TargetTable(p)) + Weight(WorkedKind(p), {<<>>})
  BY <1>2, <1>3, <1>7, <1>12
<1>14. CallOK(p)'
  BY <1>1, <1>3, <1>5, <1>8, <1>f, <1>k DEF CallOK, Stages
<1>15. ASSUME TableSet(c, WorkedKind(p), {<<>>})
       PROVE  /\ CallOK(p)' /\ NewOK(p)' /\ UsedOK(p)'
              /\ call[p] = "fork" => FilledOK(p, c)'
  <2>1. CASE call[p] = "fork"
    <3>1. NewOK(p)' /\ UsedOK(p)'
      BY <1>1, <1>5, <1>15, <1>c, <2>1, ForkSelf
    <3>2. FilledOK(p, c)'
      <4>1. CASE stage[p] = "root"
        <5>1. table'[c].user = {<<>>} /\ table'[c].kernel = table[c].kernel
          BY <1>9, <1>15, <2>1, <4>1 DEF TableSet, Kind
        <5>2. frame[c] /\ table[c].kernel = {}
          BY <1>10, <2>1, <4>1 DEF FilledOK
        <5>3. stage'[p] = "tramp" /\ frame'[c]
          BY <1>3, <1>5, <4>1, <5>2
        <5> QED BY <5>1, <5>2, <5>3, JustARoot, NoTableCounts DEF FilledOK, Built, BuiltKernel
      <4>2. CASE stage[p] = "kroot"
        <5>1. table'[c].kernel = {<<>>} /\ table'[c].user = table[c].user
          BY <1>9, <1>15, <2>1, <4>2 DEF TableSet, Kind
        <5>2. frame[c] /\ Leaves(table[c].user) = User
          BY <1>10, <2>1, <4>2 DEF FilledOK, Built
        <5>3. stage'[p] = "kmap" /\ i'[p] = 1 /\ frame'[c]
          BY <1>3, <1>5, <4>2, <5>2
        <5>4. {KernelMap[h] : h \in 1 .. 1 - 1} = {}
          OBVIOUS
        <5>5. BuiltKernel(c, stage'[p], i'[p]) = {} /\ Built(stage'[p], i'[p]) = User
          BY <5>3, <5>4 DEF BuiltKernel, Built
        <5> QED BY <5>1, <5>2, <5>3, <5>5, JustARoot DEF FilledOK
      <4> QED BY <1>1, <4>1, <4>2
    <3> QED BY <1>14, <3>1, <3>2
  <2>2. CASE call[p] = "exec"
    <3>1. stage[p] = "root" /\ c = p /\ WorkedKind(p) = "new" /\ stage'[p] = "tramp"
      BY <1>1, <1>5, <1>8, <1>9, <1>w, <2>2
    <3>2. TableSet(p, "new", {<<>>})
      BY <1>15, <3>1
    <3>3. UsedOK(p)'
      BY <1>1, <1>5, <2>2, <3>1, <3>2, ExecSelf
    <3>4. table'[p].new = {<<>>}
      BY <3>2 DEF TableSet
    <3>5. NewOK(p)'
      BY <1>3, <2>2, <3>1, <3>4, JustARoot DEF NewOK, Built
    <3> QED BY <1>14, <2>2, <3>3, <3>5
  <2> QED BY <1>8, <2>1, <2>2
<1> QED
  BY <1>1, <1>3, <1>5, <1>6, <1>13, <1>15, <1>c, JustARoot, TargetStep

(* The page that walk() allocates: the first one missing on the way.       *)
LEMMA Walks ==
  ASSUME NEW t \in SUBSET Position, Grown(t), IsFiniteSet(t), NEW w \in Mapping,
         NEW x \in Missing(t, w), \A y \in Missing(t, w) : Len(x) <= Len(y)
  PROVE  /\ x \in Position /\ Len(x) < 3 /\ x \notin t
         /\ Grown(t \cup {x})
<1>1. w \in Seq(Int) /\ Len(w) = 3
  BY DEF Mapping, Position
<1>2. w[1] \in Int /\ w[2] \in Int
  <2>1. 1 \in 1 .. Len(w) /\ 2 \in 1 .. Len(w)
    BY <1>1
  <2> QED BY <1>1, <2>1, ElementOfSeq
<1>3. x \notin t /\ (x = <<w[1]>> \/ x = <<w[1], w[2]>>)
  BY DEF Missing
<1>4. CASE x = <<w[1]>>
  <2>1. x \in Seq(Int) /\ Len(x) = 1
    BY <1>2, <1>4
  <2> QED BY <1>3, <2>1 DEF Position, Grown
<1>5. CASE x = <<w[1], w[2]>>
  <2>1. x \in Seq(Int) /\ Len(x) = 2 /\ x[1] = w[1] /\ x[2] = w[2]
    BY <1>2, <1>5
  <2>2. Len(<<w[1]>>) = 1
    OBVIOUS
  <2>3. <<w[1]>> \in t
    <3>1. <<w[1]>> \notin Missing(t, w)
      <4> SUFFICES ASSUME <<w[1]>> \in Missing(t, w) PROVE FALSE
        OBVIOUS
      <4>1. Len(x) <= Len(<<w[1]>>)
        OBVIOUS
      <4> QED BY <2>1, <2>2, <4>1
    <3> QED BY <3>1 DEF Missing
  <2>4. x \in Position /\ Len(x) < 3 /\ <<x[1]>> \in t
    <3>1. x \in Position /\ Len(x) < 3
      <4>1. x \in Seq(Int) /\ Len(x) = 2
        BY <2>1
      <4>2. Len(x) <= 3 /\ Len(x) < 3
        BY <4>1
      <4> QED BY <4>1, <4>2 DEF Position
    <3>2. <<x[1]>> = <<w[1]>>
      BY <2>1
    <3> QED BY <2>3, <3>1, <3>2
  <2>5. Grown(t \cup {x})
    BY <2>1, <2>4 DEF Grown
  <2> QED BY <1>3, <2>4, <2>5
<1> QED BY <1>3, <1>4, <1>5

(* A mapping whose way is there.                                           *)
LEMMA WalkEnds ==
  ASSUME NEW t \in SUBSET Position, Grown(t), NEW w \in Mapping, Missing(t, w) = {}
  PROVE  Grown(t \cup {w})
<1>1. <<w[1]>> \in t /\ <<w[1], w[2]>> \in t
  BY DEF Missing
<1> QED BY <1>1 DEF Grown

(* The table that a call works on is a finite tree.                        *)
LEMMA TargetTyped ==
  ASSUME IInv, panic = NULL, NEW p \in Slot, stage[p] # "none"
  PROVE  /\ TargetTable(p) \in SUBSET Position /\ Grown(TargetTable(p))
         /\ IsFiniteSet(TargetTable(p))
BY Typed, WorkedFacts, WorkedKinds DEF TableTypes, TargetTable

(* walk() gets a page for the table: nothing is mapped by it.              *)
LEMMA TakeTableKeeps ==
  ASSUME IInv, NEW p \in Slot, TakeTable(p)
  PROVE  IInv'
<1>1. /\ panic = NULL
      /\ stage[p] \in {"tramp", "tframe", "kmap", "kstack", "map", "copy"}
      /\ (stage[p] = "copy" => i[p] < tgt[p])
      /\ stage[p] # "none"
  BY DEF TakeTable, Lacking, Walking
<1>2. /\ CallTypes /\ TableTypes /\ taken \in Nat /\ zeroed \in BOOLEAN
      /\ CountInv /\ Finite(table) /\ SInv
  BY <1>1, Typed
<1>c. PICK c \in Slot : c = Worked(p)
  BY <1>1, WorkedFacts
<1>w. /\ c # p => ~used[c]
      /\ \A q \in Slot : q # p => np[q] # c
      /\ np[p] \in {c, NULL}
      /\ call[p] = "fork" => c = np[p] /\ c # p
      /\ call[p] # "fork" => c = p
  BY <1>1, <1>c, WorkedFacts
<1>f. /\ used[p] /\ call[p] \in {"fork", "exec", "grow"} /\ stage[p] \in Stages(call[p])
      /\ \A q \in Slot : np[q] # p
      /\ call[p] # "fork" => np[p] = NULL
      /\ call[p] = "fork" => \A q \in Slot : np[q] = np[p] => q = p
  BY <1>1, CallFacts
<1>k. CallOK(p) /\ UsedOK(p) /\ NewOK(p) /\ ForkOK(p) /\ UsedOK(c) /\ EmptyOK(c) /\ CallOK(c)
  BY <1>2 DEF SInv
<1> DEFINE old == TargetTable(p)
<1>3. /\ stage' = stage /\ i' = i
      /\ used' = used /\ sz' = sz /\ frame' = frame /\ call' = call
      /\ tgt' = tgt /\ np' = np /\ taken' = taken + 1 /\ zeroed' = zeroed
      /\ panic' = panic
  BY DEF TakeTable
<1>4. PICK x \in Missing(old, Wanted(p)) :
        /\ \A y \in Missing(old, Wanted(p)) : Len(x) <= Len(y)
        /\ SetTarget(p, old \cup {x})
  BY DEF TakeTable
<1>5. Wanted(p) \in Mapping
  BY <1>1, WantedFacts
<1>6. old \in SUBSET Position /\ Grown(old) /\ IsFiniteSet(old)
  BY <1>1, TargetTyped
<1>t. PICK t : t = old \cup {x}
  OBVIOUS
<1>7. x \in Position /\ Len(x) < 3 /\ x \notin old /\ Grown(t)
  <2> HIDE DEF old
  <2> QED BY <1>4, <1>5, <1>6, <1>t, Walks
<1>8. /\ t \in SUBSET Position /\ IsFiniteSet(t) /\ Leaves(t) = Leaves(old)
      /\ TableCount(old) \in Nat /\ TableCount(t) = TableCount(old) + 1
      /\ PageCount(old) \in Nat /\ PageCount(t) = PageCount(old) + 1
  <2> HIDE DEF old
  <2> QED BY <1>6, <1>7, <1>t, AddTable
<1>9. Steady(p) /\ OnlyMemoryPanics'
  BY <1>1, <1>2, <1>3 DEF Steady, OnlyMemoryPanics, CallTypes
<1>10. taken' = taken - InHand(stage[p]) + InHand(stage'[p])
         - Weight(WorkedKind(p), TargetTable(p)) + Weight(WorkedKind(p), t)
  <2>1. Weight(WorkedKind(p), t) = Weight(WorkedKind(p), old) + 1
        /\ Weight(WorkedKind(p), old) \in Nat
    BY <1>8 DEF Weight
  <2>2. InHand(stage'[p]) = InHand(stage[p]) /\ InHand(stage[p]) \in Nat
    BY <1>3 DEF InHand
  <2> QED BY <1>2, <1>3, <2>1, <2>2
<1>11. ASSUME TableSet(c, WorkedKind(p), t)
       PROVE  /\ CallOK(p)' /\ NewOK(p)' /\ UsedOK(p)'
              /\ call[p] = "fork" => FilledOK(p, c)'
  <2>1. CallOK(p)'
    BY <1>3, <1>k DEF CallOK
  <2>2. \A k \in Kind : /\ Leaves(table'[c][k]) = Leaves(table[c][k])
                        /\ <<>> \in table[c][k] => <<>> \in table'[c][k]
                        /\ k # WorkedKind(p) => table'[c][k] = table[c][k]
    BY <1>8, <1>11, <1>c, <1>t DEF TableSet, TargetTable
  <2>3. /\ Leaves(table'[c].user) = Leaves(table[c].user)
        /\ Leaves(table'[c].kernel) = Leaves(table[c].kernel)
        /\ Leaves(table'[c].new) = Leaves(table[c].new)
        /\ <<>> \in table[c].kernel => <<>> \in table'[c].kernel
        /\ WorkedKind(p) # "user" => table'[c].user = table[c].user
        /\ WorkedKind(p) # "kernel" => table'[c].kernel = table[c].kernel
        /\ WorkedKind(p) # "new" => table'[c].new = table[c].new
    BY <2>2 DEF Kind
  <2>4. CASE call[p] = "fork"
    <3>1. NewOK(p)' /\ UsedOK(p)'
      BY <1>1, <1>9, <1>11, <1>c, <2>4, ForkSelf
    <3>2. FilledOK(p, c)
      BY <1>w, <1>k, <2>4 DEF ForkOK
    <3>3. stage[p] \in {"tramp", "tframe"} => table'[c].kernel = table[c].kernel
      BY <2>3, <2>4 DEF WorkedKind
    <3>4. FilledOK(p, c)'
      BY <1>1, <1>3, <2>3, <3>2, <3>3 DEF FilledOK
    <3> QED BY <2>1, <3>1, <3>4
  <2>5. CASE call[p] # "fork"
    <3>1. c = p
      BY <1>w, <2>5
    <3>2. InUser(p)' = InUser(p) /\ InKernel(p)' = InKernel(p)
      BY <1>3 DEF InUser, InKernel
    <3>3. UsedOK(p)'
      BY <1>3, <1>k, <2>3, <3>1, <3>2 DEF UsedOK
    <3>4. NewOK(p)'
      <4>1. call[p] # "exec" \/ stage[p] = "copy" => table'[p].new = table[p].new
        BY <2>3, <3>1, WorkedKinds
      <4> QED BY <1>1, <1>3, <1>k, <2>3, <3>1, <4>1 DEF NewOK
    <3> QED BY <2>1, <2>5, <3>3, <3>4
  <2> QED BY <2>4, <2>5
<1> QED
  BY <1>1, <1>4, <1>7, <1>8, <1>9, <1>10, <1>11, <1>c, <1>t, TargetStep

(* What is mapped next, and where.                                         *)
LEMMA BuiltNext ==
  /\ \A n : Built("tframe", n) = {TRAMPOLINE}
  /\ \A n : Built("tramp", n) = {}
  /\ \A n : Built("kroot", n) = User /\ Built("kmap", n) = User /\ Built("kstack", n) = User
  /\ Built("mem", 0) = User
  /\ \A n \in Nat : Built("mem", n + 1) = Built("map", n) \cup {UserPage(n)}
  /\ \A s : \A n \in 1 .. 6 :
       BuiltKernel(s, "kmap", n + 1) = BuiltKernel(s, "kmap", n) \cup {KernelMap[n]}
  /\ \A s : BuiltKernel(s, "kmap", 7) = ToSet(KernelMap)
  /\ \A s : \A n : BuiltKernel(s, "kstack", n) = ToSet(KernelMap)
  /\ \A s : \A n : BuiltKernel(s, "mem", n) = Kernel(s)
  /\ \A s : \A n \in Nat :
       BuiltKernel(s, "copy", n + 1) = BuiltKernel(s, "copy", n) \cup {UserPage(n)}
<1>1. \A n \in Nat : UserPages(n + 1) = UserPages(n) \cup {UserPage(n)}
  BY UserPagesNext
<1>2. \A n \in 1 .. 6 : {KernelMap[j] : j \in 1 .. (n + 1) - 1}
                          = {KernelMap[j] : j \in 1 .. n - 1} \cup {KernelMap[n]}
  <2> TAKE n \in 1 .. 6
  <2>1. 1 .. (n + 1) - 1 = (1 .. n - 1) \cup {n}
    OBVIOUS
  <2> QED BY <2>1
<1>3. {KernelMap[j] : j \in 1 .. 7 - 1} = ToSet(KernelMap)
  BY KernelMapEntries
<1>4. \A n : Built("tframe", n) = {TRAMPOLINE} /\ Built("tramp", n) = {}
  BY DEF Built
<1>5. \A n : Built("kroot", n) = User /\ Built("kmap", n) = User /\ Built("kstack", n) = User
  BY DEF Built
<1>6. \A n : Built("mem", n) = User \cup UserPages(n) /\ Built("map", n) = User \cup UserPages(n)
  BY DEF Built
<1>7. /\ \A s : \A n : BuiltKernel(s, "kmap", n) = {KernelMap[j] : j \in 1 .. n - 1}
      /\ \A s : \A n : BuiltKernel(s, "kstack", n) = ToSet(KernelMap)
      /\ \A s : \A n : BuiltKernel(s, "mem", n) = Kernel(s)
      /\ \A s : \A n : BuiltKernel(s, "copy", n) = Kernel(s) \cup UserPages(n)
  BY DEF BuiltKernel
<1>8. Built("mem", 0) = User
  BY <1>6, NoUserPages
<1>9. \A n \in Nat : Built("mem", n + 1) = Built("map", n) \cup {UserPage(n)}
  BY <1>1, <1>6
<1>10. \A s : \A n \in 1 .. 6 :
         BuiltKernel(s, "kmap", n + 1) = BuiltKernel(s, "kmap", n) \cup {KernelMap[n]}
  BY <1>2, <1>7
<1>11. \A s : \A n \in Nat :
         BuiltKernel(s, "copy", n + 1) = BuiltKernel(s, "copy", n) \cup {UserPage(n)}
  BY <1>1, <1>7
<1> QED BY <1>3, <1>4, <1>5, <1>7, <1>8, <1>9, <1>10, <1>11

(* The PTE is written.  The call goes on at stage st, index j.             *)
LEMMA MapStep ==
  ASSUME IInv, NEW p \in Slot, MapPage(p), NEW c \in Slot, c = Worked(p),
         NEW st \in {"tframe", "kroot", "kmap", "kstack", "mem", "copy"},
         NEW j \in 0 .. MAXPAGES + 6, Go(p, st, j),
         NEW t, t = TargetTable(p) \cup {Wanted(p)},
         stage[p] = "copy" \/ Wanted(p) \notin Leaves(TargetTable(p)),
         stage[p] = "map" => Wanted(p) \notin User,
         stage[p] # "map" /\ WorkedKind(p) # "kernel" => Wanted(p) \in User,
         /\ TableSet(c, WorkedKind(p), t) /\ Steady(p)
         /\ stage'[p] = st /\ i'[p] = j
         /\ Leaves(t) = Leaves(TargetTable(p)) \cup {Wanted(p)}
         => /\ CallOK(p)' /\ NewOK(p)' /\ UsedOK(p)'
            /\ call[p] = "fork" => FilledOK(p, c)'
  PROVE  IInv'
<1>1. /\ panic = NULL
      /\ stage[p] \in {"tramp", "tframe", "kmap", "kstack", "map", "copy"}
      /\ (stage[p] = "copy" => i[p] < tgt[p])
      /\ stage[p] # "none"
      /\ Missing(TargetTable(p), Wanted(p)) = {}
  BY DEF MapPage, Lacking, Walking
<1>2. CallTypes /\ taken \in Nat
  BY Typed
<1>3. PICK old : old = TargetTable(p)
  OBVIOUS
<1>4. Wanted(p) \in Mapping /\ old \in SUBSET Position /\ Grown(old) /\ IsFiniteSet(old)
  BY <1>1, <1>3, WantedFacts, TargetTyped
<1>5. Grown(t)
  BY <1>1, <1>3, <1>4, WalkEnds
<1>6. Wanted(p) \in old => Wanted(p) \in Leaves(old)
  BY <1>4, PositionLength DEF Leaves
<1>7. /\ t \in SUBSET Position /\ IsFiniteSet(t)
      /\ Leaves(t) = Leaves(old) \cup {Wanted(p)}
      /\ TableCount(old) \in Nat /\ TableCount(t) = TableCount(old)
      /\ PageCount(old) \in Nat
      /\ Wanted(p) \in User => PageCount(t) = PageCount(old)
      /\ Wanted(p) \notin User /\ Wanted(p) \notin old => PageCount(t) = PageCount(old) + 1
  BY <1>3, <1>4, AddMapping
<1>8. /\ stage' = [stage EXCEPT ![p] = st] /\ i' = [i EXCEPT ![p] = j]
      /\ used' = used /\ sz' = sz /\ frame' = frame /\ call' = call /\ tgt' = tgt
      /\ np' = np /\ taken' = taken /\ zeroed' = zeroed /\ SetTarget(p, t)
  BY DEF MapPage, Go
<1>9. stage'[p] = st /\ i'[p] = j /\ Steady(p)
  <2>1. i' \in [Slot -> 0 .. MAXPAGES + 6] /\ i'[p] = j
        /\ \A q \in Slot : q # p => i'[q] = i[q]
    BY <1>2, <1>8 DEF CallTypes
  <2>2. /\ stage' \in [Slot -> {"none", "frame", "root", "tramp", "tframe", "kroot",
                                "kmap", "kstack", "mem", "map", "copy"}]
        /\ stage'[p] = st /\ \A q \in Slot : q # p => stage'[q] = stage[q]
    BY <1>2, <1>8 DEF CallTypes
  <2> QED BY <1>8, <2>1, <2>2 DEF Steady
<1>10. OnlyMemoryPanics'
  <2>1. panic' = NULL
    BY <1>3, <1>6 DEF MapPage
  <2> QED BY <2>1 DEF OnlyMemoryPanics
<1>11. taken' = taken - InHand(stage[p]) + InHand(stage'[p])
         - Weight(WorkedKind(p), TargetTable(p)) + Weight(WorkedKind(p), t)
  <2>1. InHand(stage'[p]) = 0
    BY <1>9 DEF InHand
  <2>2. CASE stage[p] = "map"
    <3>1. InHand(stage[p]) = 1
      BY <2>2 DEF InHand
    <3>2. PageCount(t) = PageCount(old) + 1
      BY <1>3, <1>6, <1>7, <2>2
    <3>3. WorkedKind(p) # "kernel"
      BY <2>2 DEF WorkedKind
    <3>4. Weight(WorkedKind(p), old) = PageCount(old) /\ Weight(WorkedKind(p), t) = PageCount(t)
      BY <3>3 DEF Weight
    <3> QED BY <1>2, <1>3, <1>7, <1>8, <2>1, <3>1, <3>2, <3>4
  <2>3. CASE stage[p] # "map"
    <3>1. InHand(stage[p]) = 0
      BY <2>3 DEF InHand
    <3>2. Weight(WorkedKind(p), t) = Weight(WorkedKind(p), old)
          /\ Weight(WorkedKind(p), old) \in Nat
      BY <1>7, <2>3 DEF Weight
    <3> QED BY <1>2, <1>3, <1>8, <2>1, <3>1, <3>2
  <2> QED BY <2>2, <2>3
<1>12. TableSet(c, WorkedKind(p), t) =>
         /\ CallOK(p)' /\ NewOK(p)' /\ UsedOK(p)'
         /\ call[p] = "fork" => FilledOK(p, c)'
  BY <1>3, <1>7, <1>9
<1> QED BY <1>1, <1>5, <1>7, <1>8, <1>9, <1>10, <1>11, <1>12, TargetStep

(* proc_pagetable() maps the trampoline.                                   *)
LEMMA MapTramp ==
  ASSUME IInv, NEW p \in Slot, MapPage(p), stage[p] = "tramp"
  PROVE  IInv'
<1>1. panic = NULL /\ stage[p] = "tramp" /\ stage[p] # "none"
  BY DEF MapPage, Walking
<1>2. /\ CallTypes /\ TableTypes /\ taken \in Nat /\ zeroed \in BOOLEAN
      /\ CountInv /\ Finite(table) /\ SInv
  BY <1>1, Typed
<1>c. PICK c \in Slot : c = Worked(p)
  BY <1>1, WorkedFacts
<1>w. /\ c # p => ~used[c]
      /\ \A q \in Slot : q # p => np[q] # c
      /\ np[p] \in {c, NULL}
      /\ call[p] = "fork" => c = np[p] /\ c # p
      /\ call[p] # "fork" => c = p
  BY <1>1, <1>c, WorkedFacts
<1>f. /\ used[p] /\ call[p] \in {"fork", "exec", "grow"} /\ stage[p] \in Stages(call[p])
      /\ \A q \in Slot : np[q] # p
      /\ call[p] # "fork" => np[p] = NULL
      /\ call[p] = "fork" => \A q \in Slot : np[q] = np[p] => q = p
  BY <1>1, CallFacts
<1>k. CallOK(p) /\ UsedOK(p) /\ NewOK(p) /\ ForkOK(p) /\ UsedOK(c) /\ EmptyOK(c) /\ CallOK(c)
  BY <1>2 DEF SInv
<1>3. Go(p, "tframe", 0) /\ 0 \in 0 .. MAXPAGES + 6
  BY <1>1, MAXPAGESAssumption DEF MapPage
<1>4. Wanted(p) = TRAMPOLINE /\ TRAMPOLINE \in User
  BY <1>1 DEF Wanted, User
<1>5. /\ call[p] \in {"fork", "exec"}
      /\ WorkedKind(p) = IF call[p] = "exec" THEN "new" ELSE "user"
  BY <1>1, <1>f DEF Stages, WorkedKind
<1>6. call[p] = "fork" => FilledOK(p, c)
  BY <1>w, <1>k DEF ForkOK
<1>7. Leaves(TargetTable(p)) = {}
  <2>1. CASE call[p] = "fork"
    <3>1. TargetTable(p) = table[c].user
      BY <1>c, <1>5, <2>1 DEF TargetTable
    <3> QED BY <1>1, <1>6, <2>1, <3>1 DEF FilledOK, Built
  <2>2. CASE call[p] = "exec"
    <3>1. TargetTable(p) = table[p].new
      BY <1>c, <1>w, <1>5, <2>2 DEF TargetTable
    <3> QED BY <1>1, <1>k, <2>2, <3>1 DEF NewOK, Built
  <2> QED BY <1>5, <2>1, <2>2
<1>t. PICK t : t = TargetTable(p) \cup {Wanted(p)}
  OBVIOUS
<1>8. ASSUME TableSet(c, WorkedKind(p), t), Steady(p), stage'[p] = "tframe", i'[p] = 0,
             Leaves(t) = Leaves(TargetTable(p)) \cup {Wanted(p)}
      PROVE  /\ CallOK(p)' /\ NewOK(p)' /\ UsedOK(p)'
             /\ call[p] = "fork" => FilledOK(p, c)'
  <2>1. CallOK(p)'
    BY <1>5, <1>8, <1>f, <1>k DEF CallOK, Stages, Steady
  <2>2. Leaves(t) = Built("tframe", 0)
    BY <1>4, <1>7, <1>8, BuiltNext
  <2>3. CASE call[p] = "fork"
    <3>1. NewOK(p)' /\ UsedOK(p)'
      BY <1>1, <1>8, <1>c, <2>3, ForkSelf
    <3>2. table'[c].user = t /\ table'[c].kernel = table[c].kernel
      BY <1>5, <1>8, <2>3 DEF TableSet, Kind
    <3>3. frame'[c] /\ table[c].kernel = {}
      BY <1>1, <1>6, <1>8, <2>3 DEF FilledOK, Steady
    <3>4. BuiltKernel(c, "tframe", 0) = {}
      BY DEF BuiltKernel
    <3>5. FilledOK(p, c)'
      BY <1>8, <2>2, <3>2, <3>3, <3>4, NoTableCounts DEF FilledOK
    <3> QED BY <2>1, <3>1, <3>5
  <2>4. CASE call[p] = "exec"
    <3>1. c = p /\ WorkedKind(p) = "new"
      BY <1>5, <1>w, <2>4
    <3>2. TableSet(p, "new", t)
      BY <1>8, <3>1
    <3>3. UsedOK(p)'
      BY <1>1, <1>8, <2>4, <3>2, ExecSelf
    <3>4. table'[p].new = t /\ call' = call
      BY <1>8, <3>2 DEF TableSet, Steady
    <3>5. NewOK(p)'
      BY <1>8, <2>2, <2>4, <3>4 DEF NewOK
    <3> QED BY <2>1, <2>4, <3>3, <3>5
  <2> QED BY <1>5, <2>3, <2>4
<1> QED BY <1>1, <1>3, <1>4, <1>7, <1>8, <1>c, <1>t, MapStep

(* proc_pagetable() maps the trapframe.                                    *)
LEMMA MapTframe ==
  ASSUME IInv, NEW p \in Slot, MapPage(p), stage[p] = "tframe"
  PROVE  IInv'
<1>1. panic = NULL /\ stage[p] = "tframe" /\ stage[p] # "none"
  BY DEF MapPage, Walking
<1>2. /\ CallTypes /\ TableTypes /\ taken \in Nat /\ zeroed \in BOOLEAN
      /\ CountInv /\ Finite(table) /\ SInv
  BY <1>1, Typed
<1>c. PICK c \in Slot : c = Worked(p)
  BY <1>1, WorkedFacts
<1>w. /\ c # p => ~used[c]
      /\ \A q \in Slot : q # p => np[q] # c
      /\ np[p] \in {c, NULL}
      /\ call[p] = "fork" => c = np[p] /\ c # p
      /\ call[p] # "fork" => c = p
  BY <1>1, <1>c, WorkedFacts
<1>f. /\ used[p] /\ call[p] \in {"fork", "exec", "grow"} /\ stage[p] \in Stages(call[p])
      /\ \A q \in Slot : np[q] # p
      /\ call[p] # "fork" => np[p] = NULL
      /\ call[p] = "fork" => \A q \in Slot : np[q] = np[p] => q = p
  BY <1>1, CallFacts
<1>k. CallOK(p) /\ UsedOK(p) /\ NewOK(p) /\ ForkOK(p) /\ UsedOK(c) /\ EmptyOK(c) /\ CallOK(c)
  BY <1>2 DEF SInv
<1>s. PICK st \in {"kroot", "mem"} : st = IF call[p] = "fork" THEN "kroot" ELSE "mem"
  OBVIOUS
<1>3. Go(p, st, 0) /\ 0 \in 0 .. MAXPAGES + 6
  BY <1>1, <1>s, MAXPAGESAssumption DEF MapPage
<1>4. Wanted(p) = TRAPFRAME /\ TRAPFRAME \in User /\ User = {TRAMPOLINE, TRAPFRAME}
  BY <1>1 DEF Wanted, User
<1>5. /\ call[p] \in {"fork", "exec"}
      /\ WorkedKind(p) = IF call[p] = "exec" THEN "new" ELSE "user"
  BY <1>1, <1>f DEF Stages, WorkedKind
<1>6. call[p] = "fork" => FilledOK(p, c)
  BY <1>w, <1>k DEF ForkOK
<1>7. Leaves(TargetTable(p)) = {TRAMPOLINE}
  <2>1. CASE call[p] = "fork"
    <3>1. TargetTable(p) = table[c].user
      BY <1>c, <1>5, <2>1 DEF TargetTable
    <3> QED BY <1>1, <1>6, <2>1, <3>1 DEF FilledOK, Built
  <2>2. CASE call[p] = "exec"
    <3>1. TargetTable(p) = table[p].new
      BY <1>c, <1>w, <1>5, <2>2 DEF TargetTable
    <3> QED BY <1>1, <1>k, <2>2, <3>1 DEF NewOK, Built
  <2> QED BY <1>5, <2>1, <2>2
<1>8. Wanted(p) \notin Leaves(TargetTable(p))
  BY <1>4, <1>7, Regions
<1>t. PICK t : t = TargetTable(p) \cup {Wanted(p)}
  OBVIOUS
<1>9. ASSUME TableSet(c, WorkedKind(p), t), Steady(p), stage'[p] = st, i'[p] = 0,
             Leaves(t) = Leaves(TargetTable(p)) \cup {Wanted(p)}
      PROVE  /\ CallOK(p)' /\ NewOK(p)' /\ UsedOK(p)'
             /\ call[p] = "fork" => FilledOK(p, c)'
  <2>1. CallOK(p)'
    <3>1. tgt[p] \in 0 .. MAXPAGES
      BY <1>2 DEF CallTypes
    <3> QED BY <1>5, <1>9, <1>f, <1>k, <1>s, <3>1, MAXPAGESAssumption DEF CallOK, Stages, Steady
  <2>2. Leaves(t) = User
    BY <1>4, <1>7, <1>9
  <2>3. CASE call[p] = "fork"
    <3>1. NewOK(p)' /\ UsedOK(p)'
      BY <1>1, <1>9, <1>c, <2>3, ForkSelf
    <3>2. table'[c].user = t /\ table'[c].kernel = table[c].kernel /\ stage'[p] = "kroot"
      BY <1>5, <1>9, <1>s, <2>3 DEF TableSet, Kind
    <3>3. frame'[c] /\ table[c].kernel = {}
      BY <1>1, <1>6, <1>9, <2>3 DEF FilledOK, Steady
    <3>4. BuiltKernel(c, "kroot", 0) = {} /\ Built("kroot", 0) = User
      BY BuiltNext DEF BuiltKernel
    <3>5. FilledOK(p, c)'
      BY <1>9, <2>2, <3>2, <3>3, <3>4, NoTableCounts DEF FilledOK
    <3> QED BY <2>1, <3>1, <3>5
  <2>4. CASE call[p] = "exec"
    <3>1. c = p /\ WorkedKind(p) = "new" /\ stage'[p] = "mem"
      BY <1>5, <1>9, <1>s, <1>w, <2>4
    <3>2. TableSet(p, "new", t)
      BY <1>9, <3>1
    <3>3. UsedOK(p)'
      BY <1>1, <1>9, <2>4, <3>1, <3>2, ExecSelf
    <3>4. table'[p].new = t /\ call' = call /\ Built("mem", 0) = User
      BY <1>9, <3>2, BuiltNext DEF TableSet, Steady
    <3>5. NewOK(p)'
      BY <1>9, <2>2, <2>4, <3>1, <3>4 DEF NewOK
    <3> QED BY <2>1, <2>4, <3>3, <3>5
  <2> QED BY <1>5, <2>3, <2>4
<1> QED BY <1>1, <1>3, <1>4, <1>8, <1>9, <1>c, <1>t, MapStep

(* proc_kvminit() maps the kernel.                                         *)
LEMMA MapKmap ==
  ASSUME IInv, NEW p \in Slot, MapPage(p), stage[p] = "kmap"
  PROVE  IInv'
<1>1. panic = NULL /\ stage[p] = "kmap" /\ stage[p] # "none"
  BY DEF MapPage, Walking
<1>2. /\ CallTypes /\ TableTypes /\ taken \in Nat /\ zeroed \in BOOLEAN
      /\ CountInv /\ Finite(table) /\ SInv
  BY <1>1, Typed
<1>c. PICK c \in Slot : c = Worked(p)
  BY <1>1, WorkedFacts
<1>w. /\ c # p => ~used[c]
      /\ \A q \in Slot : q # p => np[q] # c
      /\ np[p] \in {c, NULL}
      /\ call[p] = "fork" => c = np[p] /\ c # p
      /\ call[p] # "fork" => c = p
  BY <1>1, <1>c, WorkedFacts
<1>f. /\ used[p] /\ call[p] \in {"fork", "exec", "grow"} /\ stage[p] \in Stages(call[p])
      /\ \A q \in Slot : np[q] # p
      /\ call[p] # "fork" => np[p] = NULL
      /\ call[p] = "fork" => \A q \in Slot : np[q] = np[p] => q = p
  BY <1>1, CallFacts
<1>k. CallOK(p) /\ UsedOK(p) /\ NewOK(p) /\ ForkOK(p) /\ UsedOK(c) /\ EmptyOK(c) /\ CallOK(c)
  BY <1>2 DEF SInv
<1>3. call[p] = "fork" /\ WorkedKind(p) = "kernel" /\ FilledOK(p, c) /\ i[p] \in 1 .. 6
  BY <1>1, <1>f, <1>w, <1>k DEF Stages, WorkedKind, ForkOK, CallOK
<1>s. PICK st \in {"kmap", "kstack"} : st = IF i[p] < 6 THEN "kmap" ELSE "kstack"
  OBVIOUS
<1>j. PICK j : j = IF i[p] < 6 THEN i[p] + 1 ELSE 0
  OBVIOUS
<1>4. Go(p, st, j)
  BY <1>1, <1>j, <1>s, KernelMapEntries DEF MapPage
<1>5. j \in 0 .. MAXPAGES + 6 /\ (st = "kmap" => j \in 1 .. 6 /\ j = i[p] + 1)
      /\ (st = "kstack" => i[p] + 1 = 7)
  BY <1>3, <1>j, <1>s, MAXPAGESAssumption
<1>6. Wanted(p) = KernelMap[i[p]]
  BY <1>1 DEF Wanted
<1>7. TargetTable(p) = table[c].kernel /\ Leaves(table[c].kernel) = BuiltKernel(c, "kmap", i[p])
  BY <1>1, <1>3, <1>c DEF TargetTable, FilledOK
<1>8. Wanted(p) \notin Leaves(TargetTable(p))
  <2>1. Leaves(TargetTable(p)) = {KernelMap[h] : h \in 1 .. i[p] - 1}
    BY <1>7 DEF BuiltKernel
  <2>2. \A h \in 1 .. i[p] - 1 : h \in 1 .. 6 /\ h # i[p]
    BY <1>3
  <2> QED BY <1>3, <1>6, <2>1, <2>2, KernelMapInjective
<1>t. PICK t : t = TargetTable(p) \cup {Wanted(p)}
  OBVIOUS
<1>9. ASSUME TableSet(c, WorkedKind(p), t), Steady(p), stage'[p] = st, i'[p] = j,
             Leaves(t) = Leaves(TargetTable(p)) \cup {Wanted(p)}
      PROVE  /\ CallOK(p)' /\ NewOK(p)' /\ UsedOK(p)'
             /\ call[p] = "fork" => FilledOK(p, c)'
  <2>1. CallOK(p)'
    BY <1>3, <1>5, <1>9, <1>f, <1>k DEF CallOK, Stages, Steady
  <2>2. NewOK(p)' /\ UsedOK(p)'
    BY <1>1, <1>3, <1>9, <1>c, ForkSelf
  <2>3. table'[c].kernel = t /\ table'[c].user = table[c].user
    BY <1>3, <1>9 DEF TableSet, Kind
  <2>4. frame'[c] /\ Leaves(table[c].user) = User
    BY <1>1, <1>3, <1>9, BuiltNext DEF FilledOK, Steady
  <2>5. Built(st, j) = User
    BY BuiltNext
  <2>6. Leaves(t) = BuiltKernel(c, "kmap", i[p] + 1)
    BY <1>3, <1>6, <1>7, <1>9, BuiltNext
  <2>7. Leaves(t) = BuiltKernel(c, st, j)
    <3>1. CASE st = "kmap"
      BY <1>5, <2>6, <3>1
    <3>2. CASE st = "kstack"
      BY <1>5, <2>6, <3>2, BuiltNext
    <3> QED BY <3>1, <3>2
  <2>8. zeroed' \/ <<>> \in t
    BY <1>1, <1>3, <1>7, <1>9, <1>t DEF FilledOK, Steady
  <2>9. FilledOK(p, c)'
    BY <1>9, <2>3, <2>4, <2>5, <2>7, <2>8 DEF FilledOK
  <2> QED BY <2>1, <2>2, <2>9
<1> QED BY <1>1, <1>3, <1>4, <1>5, <1>8, <1>9, <1>c, <1>t, MapStep

(* allocproc() maps the kernel stack.                                      *)
LEMMA MapKstack ==
  ASSUME IInv, NEW p \in Slot, MapPage(p), stage[p] = "kstack"
  PROVE  IInv'
<1>1. panic = NULL /\ stage[p] = "kstack" /\ stage[p] # "none" /\ <<>> \in TargetTable(p)
  BY DEF MapPage, Walking
<1>2. /\ CallTypes /\ TableTypes /\ taken \in Nat /\ zeroed \in BOOLEAN
      /\ CountInv /\ Finite(table) /\ SInv
  BY <1>1, Typed
<1>c. PICK c \in Slot : c = Worked(p)
  BY <1>1, WorkedFacts
<1>w. /\ c # p => ~used[c]
      /\ \A q \in Slot : q # p => np[q] # c
      /\ np[p] \in {c, NULL}
      /\ call[p] = "fork" => c = np[p] /\ c # p
      /\ call[p] # "fork" => c = p
  BY <1>1, <1>c, WorkedFacts
<1>f. /\ used[p] /\ call[p] \in {"fork", "exec", "grow"} /\ stage[p] \in Stages(call[p])
      /\ \A q \in Slot : np[q] # p
      /\ call[p] # "fork" => np[p] = NULL
      /\ call[p] = "fork" => \A q \in Slot : np[q] = np[p] => q = p
  BY <1>1, CallFacts
<1>k. CallOK(p) /\ UsedOK(p) /\ NewOK(p) /\ ForkOK(p) /\ UsedOK(c) /\ EmptyOK(c) /\ CallOK(c)
  BY <1>2 DEF SInv
<1>3. call[p] = "fork" /\ WorkedKind(p) = "kernel" /\ FilledOK(p, c) /\ c = np[p]
  BY <1>1, <1>f, <1>w, <1>k DEF Stages, WorkedKind, ForkOK
<1>4. Go(p, "mem", 0) /\ 0 \in 0 .. MAXPAGES + 6
  BY <1>1, MAXPAGESAssumption DEF MapPage
<1>6. Wanted(p) = KSTACK(c)
  BY <1>1, <1>3 DEF Wanted
<1>7. TargetTable(p) = table[c].kernel /\ Leaves(table[c].kernel) = ToSet(KernelMap)
  BY <1>1, <1>3, <1>c, BuiltNext DEF TargetTable, FilledOK
<1>8. Wanted(p) \notin Leaves(TargetTable(p))
  BY <1>6, <1>7, Regions
<1>t. PICK t : t = TargetTable(p) \cup {Wanted(p)}
  OBVIOUS
<1>9. ASSUME TableSet(c, WorkedKind(p), t), Steady(p), stage'[p] = "mem", i'[p] = 0,
             Leaves(t) = Leaves(TargetTable(p)) \cup {Wanted(p)}
      PROVE  /\ CallOK(p)' /\ NewOK(p)' /\ UsedOK(p)'
             /\ call[p] = "fork" => FilledOK(p, c)'
  <2>1. CallOK(p)'
    <3>1. tgt[p] \in 0 .. MAXPAGES
      BY <1>2 DEF CallTypes
    <3> QED BY <1>3, <1>9, <1>f, <1>k, <3>1, MAXPAGESAssumption DEF CallOK, Stages, Steady
  <2>2. NewOK(p)' /\ UsedOK(p)'
    BY <1>1, <1>3, <1>9, <1>c, ForkSelf
  <2>3. table'[c].kernel = t /\ table'[c].user = table[c].user
    BY <1>3, <1>9 DEF TableSet, Kind
  <2>4. frame'[c] /\ Leaves(table[c].user) = User
    BY <1>1, <1>3, <1>9, BuiltNext DEF FilledOK, Steady
  <2>5. Built("mem", 0) = User /\ BuiltKernel(c, "mem", 0) = Kernel(c)
    BY BuiltNext
  <2>6. Leaves(t) = Kernel(c) /\ <<>> \in t
    BY <1>1, <1>6, <1>7, <1>9, <1>t DEF Kernel
  <2>9. FilledOK(p, c)'
    BY <1>9, <2>3, <2>4, <2>5, <2>6 DEF FilledOK
  <2> QED BY <2>1, <2>2, <2>9
<1> QED BY <1>1, <1>3, <1>4, <1>8, <1>9, <1>c, <1>t, MapStep

(* uvmcopy() or uvmalloc() maps mem.                                       *)
LEMMA MapMem ==
  ASSUME IInv, NEW p \in Slot, MapPage(p), stage[p] = "map"
  PROVE  IInv'
<1>1. panic = NULL /\ stage[p] = "map" /\ stage[p] # "none"
  BY DEF MapPage, Walking
<1>2. /\ CallTypes /\ TableTypes /\ taken \in Nat /\ zeroed \in BOOLEAN
      /\ CountInv /\ Finite(table) /\ SInv
  BY <1>1, Typed
<1>c. PICK c \in Slot : c = Worked(p)
  BY <1>1, WorkedFacts
<1>w. /\ c # p => ~used[c]
      /\ \A q \in Slot : q # p => np[q] # c
      /\ np[p] \in {c, NULL}
      /\ call[p] = "fork" => c = np[p] /\ c # p
      /\ call[p] # "fork" => c = p
  BY <1>1, <1>c, WorkedFacts
<1>f. /\ used[p] /\ call[p] \in {"fork", "exec", "grow"} /\ stage[p] \in Stages(call[p])
      /\ \A q \in Slot : np[q] # p
      /\ call[p] # "fork" => np[p] = NULL
      /\ call[p] = "fork" => \A q \in Slot : np[q] = np[p] => q = p
  BY <1>1, CallFacts
<1>k. CallOK(p) /\ UsedOK(p) /\ NewOK(p) /\ ForkOK(p) /\ UsedOK(c) /\ EmptyOK(c) /\ CallOK(c)
  BY <1>2 DEF SInv
<1>3. WorkedKind(p) = IF call[p] = "exec" THEN "new" ELSE "user"
  BY <1>1 DEF WorkedKind
<1>4. /\ i[p] \in Nat /\ i[p] + 1 \in 0 .. tgt[p] /\ i[p] \in 0 .. MAXPAGES
      /\ tgt[p] \in 0 .. MAXPAGES /\ Wanted(p) = UserPage(i[p])
  BY <1>1, WantedFacts
<1>j. PICK j : j = i[p] + 1
  OBVIOUS
<1>5. Go(p, "mem", j) /\ j \in 0 .. MAXPAGES + 6
  BY <1>1, <1>4, <1>j, MAXPAGESAssumption DEF MapPage
<1>6. call[p] = "fork" => FilledOK(p, c)
  BY <1>w, <1>k DEF ForkOK
<1>7. Leaves(TargetTable(p)) = User \cup UserPages(i[p])
  <2>1. CASE call[p] = "fork"
    <3>1. TargetTable(p) = table[c].user
      BY <1>c, <1>3, <2>1 DEF TargetTable
    <3> QED BY <1>1, <1>6, <2>1, <3>1 DEF FilledOK, Built
  <2>2. CASE call[p] = "exec"
    <3>1. TargetTable(p) = table[p].new
      BY <1>c, <1>w, <1>3, <2>2 DEF TargetTable
    <3> QED BY <1>1, <1>k, <2>2, <3>1 DEF NewOK, Built
  <2>3. CASE call[p] = "grow"
    <3>1. TargetTable(p) = table[p].user /\ InUser(p) = i[p]
      BY <1>1, <1>c, <1>w, <1>3, <2>3 DEF TargetTable, InUser
    <3> QED BY <1>f, <1>k, <3>1 DEF UsedOK
  <2> QED BY <1>f, <2>1, <2>2, <2>3
<1>8. Wanted(p) \notin User /\ Wanted(p) \notin UserPages(i[p])
  <2>1. i[p] + 1 \in 0 .. MAXPAGES
    BY <1>4, MAXPAGESAssumption
  <2>2. UserPage(i[p]) \in UserPages(i[p] + 1) /\ UserPage(i[p]) \notin UserPages(i[p])
    BY <1>4, UserPagesNext
  <2> QED BY <1>4, <2>1, <2>2, Regions
<1>t. PICK t : t = TargetTable(p) \cup {Wanted(p)}
  OBVIOUS
<1>9. ASSUME TableSet(c, WorkedKind(p), t), Steady(p), stage'[p] = "mem", i'[p] = j,
             Leaves(t) = Leaves(TargetTable(p)) \cup {Wanted(p)}
      PROVE  /\ CallOK(p)' /\ NewOK(p)' /\ UsedOK(p)'
             /\ call[p] = "fork" => FilledOK(p, c)'
  <2>0. call' = call /\ tgt' = tgt /\ sz' = sz /\ used' = used /\ frame' = frame /\ np' = np
    BY <1>9 DEF Steady
  <2>1. CallOK(p)'
    <3>1. sz[p] \in 0 .. MAXPAGES
      BY <1>2 DEF CallTypes
    <3> QED BY <1>1, <1>4, <1>9, <1>f, <1>j, <1>k, <2>0, <3>1 DEF CallOK, Stages
  <2>2. Leaves(t) = User \cup UserPages(j)
    BY <1>4, <1>7, <1>9, <1>j, UserPagesNext
  <2>3. Built("mem", j) = User \cup UserPages(j)
    BY DEF Built
  <2>4. CASE call[p] = "fork"
    <3>1. NewOK(p)' /\ UsedOK(p)'
      BY <1>1, <1>9, <1>c, <2>4, ForkSelf
    <3>2. table'[c].user = t /\ table'[c].kernel = table[c].kernel
      BY <1>3, <1>9, <2>4 DEF TableSet, Kind
    <3>3. frame'[c] /\ Leaves(table[c].kernel) = Kernel(c) /\ <<>> \in table[c].kernel
      BY <1>1, <1>6, <2>0, <2>4 DEF FilledOK, BuiltKernel
    <3>4. BuiltKernel(c, "mem", j) = Kernel(c)
      BY DEF BuiltKernel
    <3>5. FilledOK(p, c)'
      BY <1>9, <2>2, <2>3, <3>2, <3>3, <3>4 DEF FilledOK
    <3> QED BY <2>1, <3>1, <3>5
  <2>5. CASE call[p] = "exec"
    <3>1. c = p /\ WorkedKind(p) = "new"
      BY <1>3, <1>w, <2>5
    <3>2. TableSet(p, "new", t)
      BY <1>9, <3>1
    <3>3. UsedOK(p)'
      BY <1>1, <1>9, <2>5, <3>2, ExecSelf
    <3>4. table'[p].new = t
      BY <3>2 DEF TableSet
    <3>5. NewOK(p)'
      BY <1>9, <2>0, <2>2, <2>3, <2>5, <3>4 DEF NewOK
    <3> QED BY <2>1, <2>5, <3>3, <3>5
  <2>6. CASE call[p] = "grow"
    <3>1. c = p /\ WorkedKind(p) = "user"
      BY <1>3, <1>w, <2>6
    <3>2. table'[p].user = t /\ table'[p].kernel = table[p].kernel /\ table'[p].new = table[p].new
      BY <1>9, <3>1 DEF TableSet, Kind
    <3>3. InUser(p)' = j /\ InKernel(p)' = sz[p] /\ InKernel(p) = sz[p]
      BY <1>1, <1>9, <2>0, <2>6 DEF InUser, InKernel
    <3>4. UsedOK(p)'
      BY <1>f, <1>k, <2>0, <2>2, <3>2, <3>3 DEF UsedOK
    <3>5. NewOK(p)'
      BY <1>k, <2>0, <2>6, <3>2 DEF NewOK
    <3> QED BY <2>1, <2>6, <3>4, <3>5
  <2> QED BY <1>f, <2>4, <2>5, <2>6
<1> QED BY <1>1, <1>5, <1>7, <1>8, <1>9, <1>c, <1>t, MapStep

(* vmcopypage() writes a PTE of the kernel page table.                     *)
LEMMA MapCopy ==
  ASSUME IInv, NEW p \in Slot, MapPage(p), stage[p] = "copy"
  PROVE  IInv'
<1>1. panic = NULL /\ stage[p] = "copy" /\ stage[p] # "none" /\ i[p] < tgt[p]
  BY DEF MapPage, Walking
<1>2. /\ CallTypes /\ TableTypes /\ taken \in Nat /\ zeroed \in BOOLEAN
      /\ CountInv /\ Finite(table) /\ SInv
  BY <1>1, Typed
<1>c. PICK c \in Slot : c = Worked(p)
  BY <1>1, WorkedFacts
<1>w. /\ c # p => ~used[c]
      /\ \A q \in Slot : q # p => np[q] # c
      /\ np[p] \in {c, NULL}
      /\ call[p] = "fork" => c = np[p] /\ c # p
      /\ call[p] # "fork" => c = p
  BY <1>1, <1>c, WorkedFacts
<1>f. /\ used[p] /\ call[p] \in {"fork", "exec", "grow"} /\ stage[p] \in Stages(call[p])
      /\ \A q \in Slot : np[q] # p
      /\ call[p] # "fork" => np[p] = NULL
      /\ call[p] = "fork" => \A q \in Slot : np[q] = np[p] => q = p
  BY <1>1, CallFacts
<1>k. CallOK(p) /\ UsedOK(p) /\ NewOK(p) /\ ForkOK(p) /\ UsedOK(c) /\ EmptyOK(c) /\ CallOK(c)
  BY <1>2 DEF SInv
<1>3. WorkedKind(p) = "kernel"
  BY <1>1 DEF WorkedKind
<1>4. /\ i[p] \in Nat /\ i[p] + 1 \in 0 .. tgt[p] /\ i[p] \in 0 .. MAXPAGES
      /\ tgt[p] \in 0 .. MAXPAGES /\ Wanted(p) = UserPage(i[p])
  BY <1>1, WantedFacts
<1>j. PICK j : j = i[p] + 1
  OBVIOUS
<1>5. Go(p, "copy", j) /\ j \in 0 .. MAXPAGES + 6
  BY <1>1, <1>4, <1>j, MAXPAGESAssumption DEF MapPage
<1>6. call[p] = "fork" => FilledOK(p, c)
  BY <1>w, <1>k DEF ForkOK
<1>7. /\ TargetTable(p) = table[c].kernel
      /\ Leaves(table[c].kernel) = Kernel(c) \cup UserPages(i[p])
      /\ <<>> \in table[c].kernel
  <2>1. TargetTable(p) = table[c].kernel
    BY <1>c, <1>3 DEF TargetTable
  <2>2. CASE call[p] = "fork"
    BY <1>1, <1>6, <2>1, <2>2 DEF FilledOK, BuiltKernel
  <2>3. CASE call[p] # "fork"
    <3>1. c = p /\ InKernel(p) = i[p]
      BY <1>1, <1>f, <1>w, <2>3 DEF InKernel
    <3> QED BY <1>f, <1>k, <2>1, <3>1 DEF UsedOK
  <2> QED BY <2>2, <2>3
<1>t. PICK t : t = TargetTable(p) \cup {Wanted(p)}
  OBVIOUS
<1>9. ASSUME TableSet(c, WorkedKind(p), t), Steady(p), stage'[p] = "copy", i'[p] = j,
             Leaves(t) = Leaves(TargetTable(p)) \cup {Wanted(p)}
      PROVE  /\ CallOK(p)' /\ NewOK(p)' /\ UsedOK(p)'
             /\ call[p] = "fork" => FilledOK(p, c)'
  <2>0. call' = call /\ tgt' = tgt /\ sz' = sz /\ used' = used /\ frame' = frame /\ np' = np
    BY <1>9 DEF Steady
  <2>1. CallOK(p)'
    <3>1. sz[p] \in 0 .. MAXPAGES
      BY <1>2 DEF CallTypes
    <3> QED BY <1>1, <1>4, <1>9, <1>f, <1>j, <1>k, <2>0, <3>1 DEF CallOK, Stages
  <2>2. Leaves(t) = Kernel(c) \cup UserPages(j) /\ <<>> \in t
    BY <1>4, <1>7, <1>9, <1>j, <1>t, UserPagesNext
  <2>3. /\ table'[c].kernel = t /\ table'[c].user = table[c].user
        /\ table'[c].new = table[c].new
    BY <1>3, <1>9 DEF TableSet, Kind
  <2>4. CASE call[p] = "fork"
    <3>1. NewOK(p)' /\ UsedOK(p)'
      BY <1>1, <1>9, <1>c, <2>4, ForkSelf
    <3>2. frame'[c] /\ Leaves(table[c].user) = User \cup UserPages(tgt[p])
      BY <1>1, <1>6, <2>0, <2>4 DEF FilledOK, Built
    <3>3. BuiltKernel(c, "copy", j) = Kernel(c) \cup UserPages(j)
          /\ Built("copy", tgt[p]) = User \cup UserPages(tgt[p])
      BY DEF BuiltKernel, Built
    <3>4. FilledOK(p, c)'
      BY <1>9, <2>0, <2>2, <2>3, <3>2, <3>3 DEF FilledOK
    <3> QED BY <2>1, <3>1, <3>4
  <2>5. CASE call[p] # "fork"
    <3>1. c = p
      BY <1>w, <2>5
    <3>2. InUser(p)' = InUser(p) /\ InKernel(p)' = j
      BY <1>1, <1>9, <1>f, <2>0, <2>5 DEF InUser, InKernel
    <3>3. UsedOK(p)'
      BY <1>f, <1>k, <2>0, <2>2, <2>3, <3>1, <3>2 DEF UsedOK
    <3>4. NewOK(p)'
      BY <1>1, <1>9, <1>k, <2>0, <2>3, <3>1 DEF NewOK
    <3> QED BY <2>1, <2>5, <3>3, <3>4
  <2> QED BY <2>4, <2>5
<1> QED BY <1>1, <1>3, <1>5, <1>9, <1>c, <1>t, MapStep

(* mappages() or vmcopypage() writes a PTE, at any stage.                  *)
LEMMA MapPageKeeps ==
  ASSUME IInv, NEW p \in Slot, MapPage(p)
  PROVE  IInv'
<1>1. stage[p] \in {"tramp", "tframe", "kmap", "kstack", "map", "copy"}
  BY DEF MapPage, Walking
<1> QED BY <1>1, MapTramp, MapTframe, MapKmap, MapKstack, MapMem, MapCopy

(* A table stays grown without some of its mappings.                       *)
LEMMA GrownWithout ==
  ASSUME NEW t \in SUBSET Position, Grown(t), NEW g, \A x \in g : x \in Mapping
  PROVE  Grown(t \ g)
<1>1. \A x \in g : Len(x) = 3
  BY PositionLength
<1>2. \A a : <<a>> \notin g
  <2> TAKE a
  <2>1. Len(<<a>>) = 1
    OBVIOUS
  <2> QED BY <1>1, <2>1
<1>3. \A a, b : <<a, b>> \notin g
  <2> TAKE a, b
  <2>1. Len(<<a, b>>) = 2
    OBVIOUS
  <2> QED BY <1>1, <2>1
<1> QED BY <1>2, <1>3 DEF Grown

(* No table is a finite tree.                                              *)
LEMMA NoTable0 == {} \in SUBSET Position /\ Grown({}) /\ IsFiniteSet({})
BY FS_EmptySet DEF Grown

(* The pages of a table are a number.                                      *)
LEMMA WeightTyped ==
  ASSUME NEW k, NEW t, IsFiniteSet(t)
  PROVE  Weight(k, t) \in Nat
<1>1. TablePages(t) \in SUBSET t /\ t \ User \in SUBSET t
  BY DEF TablePages
<1>2. IsFiniteSet(TablePages(t)) /\ IsFiniteSet(t \ User)
  BY <1>1, FS_Subset
<1> QED BY <1>2, FS_CardinalityType DEF Weight, PageCount, TableCount

(* exec() or growproc() returns -1, and has put back the table it worked   *)
(* on.                                                                     *)
LEMMA CallFails ==
  ASSUME IInv, panic = NULL, NEW p \in Slot, stage[p] \notin {"none", "copy"},
         Return(p), used' = used, sz' = sz, frame' = frame, zeroed' = zeroed,
         panic' = NULL,
         NEW k \in Kind, NEW t \in SUBSET Position, Grown(t), IsFiniteSet(t),
         table' = [table EXCEPT ![p][k] = t],
         taken' = taken - InHand(stage[p]) - Weight(k, table[p][k]) + Weight(k, t),
         \/ call[p] = "exec" /\ k = "new" /\ t = {}
         \/ call[p] = "grow" /\ k = "user" /\ Leaves(t) = User \cup UserPages(sz[p])
  PROVE  IInv'
<1>1. panic = NULL /\ stage[p] # "none"
  OBVIOUS
<1>2. /\ CallTypes /\ TableTypes /\ taken \in Nat /\ zeroed \in BOOLEAN
      /\ CountInv /\ Finite(table) /\ SInv
  BY <1>1, Typed
<1>c. PICK c \in Slot : c = Worked(p)
  BY <1>1, WorkedFacts
<1>w. /\ c # p => ~used[c]
      /\ \A q \in Slot : q # p => np[q] # c
      /\ np[p] \in {c, NULL}
      /\ call[p] = "fork" => c = np[p] /\ c # p
      /\ call[p] # "fork" => c = p
  BY <1>1, <1>c, WorkedFacts
<1>f. /\ used[p] /\ call[p] \in {"fork", "exec", "grow"} /\ stage[p] \in Stages(call[p])
      /\ \A q \in Slot : np[q] # p
      /\ call[p] # "fork" => np[p] = NULL
      /\ call[p] = "fork" => \A q \in Slot : np[q] = np[p] => q = p
  BY <1>1, CallFacts
<1>k. CallOK(p) /\ UsedOK(p) /\ NewOK(p) /\ ForkOK(p) /\ UsedOK(c) /\ EmptyOK(c) /\ CallOK(c)
  BY <1>2 DEF SInv
<1>3. c = p
  BY <1>w
<1>4. /\ call'[p] = "none" /\ stage'[p] = "none" /\ np'[p] = NULL
      /\ \A q \in Slot : q # p => /\ call'[q] = call[q] /\ stage'[q] = stage[q]
                                  /\ i'[q] = i[q] /\ tgt'[q] = tgt[q] /\ np'[q] = np[q]
      /\ CallOK(p)' /\ ForkOK(p)'
  BY <1>2, Returned
<1>5. CallTypes'
  BY <1>2, Returned DEF CallTypes
<1>6. TableSet(p, k, t) /\ TableTypes'
  BY TargetSet
<1>7. CountInv' /\ taken' \in Nat
  <2>1. InHand(stage'[p]) = 0 /\ InHand(stage[p]) \in Nat
    BY <1>4 DEF InHand
  <2>2. taken' = taken - InHand(stage[p]) + InHand(stage'[p])
                       - Weight(k, table[p][k]) + Weight(k, t)
    <3>1. IsFiniteSet(table[p][k])
      BY <1>2 DEF TableTypes
    <3>2. Weight(k, table[p][k]) \in Nat /\ Weight(k, t) \in Nat
      BY <3>1, WeightTyped
    <3> QED BY <1>2, <2>1, <3>2
  <2>3. \A s \in Slot : s # p => (stage'[s] = "map" <=> stage[s] = "map")
    BY <1>4
  <2> QED BY <1>6, <2>2, <2>3, CountSet
<1>8. Reaches(p, p)
  BY <1>3, <1>4, <1>6, <1>w DEF Reaches, TableSet
<1>9. /\ table'[p].kernel = table[p].kernel
      /\ call[p] = "exec" => table'[p].new = {} /\ table'[p].user = table[p].user
      /\ call[p] = "grow" => /\ table'[p].new = table[p].new
                             /\ Leaves(table'[p].user) = User \cup UserPages(sz[p])
  BY <1>6 DEF TableSet, Kind
<1>10. UsedOK(p)'
  <2>1. /\ InUser(p)' = sz[p] /\ InKernel(p)' = sz[p] /\ InKernel(p) = sz[p]
        /\ call[p] = "exec" => InUser(p) = sz[p]
    BY <1>4 DEF InUser, InKernel
  <2>2. /\ frame[p] /\ Leaves(table[p].kernel) = Kernel(p) \cup UserPages(sz[p])
        /\ <<>> \in table[p].kernel
        /\ call[p] = "exec" => Leaves(table[p].user) = User \cup UserPages(sz[p])
    BY <1>f, <1>k, <2>1 DEF UsedOK
  <2> QED BY <1>9, <2>1, <2>2 DEF UsedOK
<1>11. NewOK(p)'
  BY <1>4, <1>9, <1>k DEF NewOK
<1>12. EmptyOK(p)'
  BY <1>f DEF EmptyOK
<1>13. OnlyMemoryPanics' /\ zeroed' \in BOOLEAN
  BY <1>2 DEF OnlyMemoryPanics
<1> QED
  BY <1>1, <1>4, <1>5, <1>6, <1>7, <1>8, <1>10, <1>11, <1>12, <1>13, <1>f, StepKept

(* uvmdealloc() after growproc() found no page.                            *)
LEMMA GrowNoPageKeeps ==
  ASSUME IInv, NEW p \in Slot, GrowNoPage(p)
  PROVE  IInv'
<1>1. /\ panic = NULL /\ stage[p] \in {"mem", "map"} /\ call[p] = "grow"
      /\ stage[p] # "none" /\ stage[p] # "copy"
  BY DEF GrowNoPage, NoUserPage, In, Lacking, Walking
<1>2. /\ CallTypes /\ TableTypes /\ taken \in Nat /\ zeroed \in BOOLEAN
      /\ CountInv /\ Finite(table) /\ SInv
  BY <1>1, Typed
<1>c. PICK c \in Slot : c = Worked(p)
  BY <1>1, WorkedFacts
<1>w. /\ c # p => ~used[c]
      /\ \A q \in Slot : q # p => np[q] # c
      /\ np[p] \in {c, NULL}
      /\ call[p] = "fork" => c = np[p] /\ c # p
      /\ call[p] # "fork" => c = p
  BY <1>1, <1>c, WorkedFacts
<1>f. /\ used[p] /\ call[p] \in {"fork", "exec", "grow"} /\ stage[p] \in Stages(call[p])
      /\ \A q \in Slot : np[q] # p
      /\ call[p] # "fork" => np[p] = NULL
      /\ call[p] = "fork" => \A q \in Slot : np[q] = np[p] => q = p
  BY <1>1, CallFacts
<1>k. CallOK(p) /\ UsedOK(p) /\ NewOK(p) /\ ForkOK(p) /\ UsedOK(c) /\ EmptyOK(c) /\ CallOK(c)
  BY <1>2 DEF SInv
<1>g. PICK g : g = UserPages(i[p]) \ UserPages(sz[p])
  OBVIOUS
<1>3. /\ table' = [table EXCEPT ![p].user = table[p].user \ g]
      /\ taken' = taken - Cardinality(g) - Mem(p) /\ Return(p)
      /\ used' = used /\ sz' = sz /\ frame' = frame /\ zeroed' = zeroed /\ panic' = panic
  BY <1>g DEF GrowNoPage
<1>4. /\ sz[p] \in 0 .. MAXPAGES /\ i[p] \in 0 .. MAXPAGES /\ sz[p] <= i[p]
  BY <1>1, <1>2, <1>k, MAXPAGESAssumption DEF CallTypes, CallOK
<1>5. Leaves(table[p].user) = User \cup UserPages(i[p])
  <2>1. InUser(p) = i[p]
    BY <1>1 DEF InUser
  <2> QED BY <1>f, <1>k, <2>1 DEF UsedOK
<1>6. /\ table[p].user \in SUBSET Position /\ Grown(table[p].user)
      /\ IsFiniteSet(table[p].user)
  BY <1>2 DEF TableTypes, Kind
<1>7. \A x \in g : x \in table[p].user /\ x \in Mapping /\ x \notin User
  <2>1. \A x \in g : x \in UserPages(i[p])
    BY <1>g
  <2> QED BY <1>4, <1>5, <2>1, Regions DEF Leaves
<1>t. PICK t : t = table[p].user \ g
  OBVIOUS
<1>8. /\ t \in SUBSET Position /\ IsFiniteSet(t) /\ Leaves(t) = Leaves(table[p].user) \ g
      /\ PageCount(table[p].user) \in Nat /\ Cardinality(g) \in Nat
      /\ PageCount(t) = PageCount(table[p].user) - Cardinality(g)
  BY <1>6, <1>7, <1>t, RemovePages
<1>9. Grown(t)
  BY <1>6, <1>7, <1>t, GrownWithout
<1>10. Leaves(t) = User \cup UserPages(sz[p])
  <2>1. UserPages(sz[p]) \subseteq UserPages(i[p])
    BY <1>4, MAXPAGESAssumption, UserPagesGrow
  <2>2. \A x \in g : x \notin User
    BY <1>7
  <2> QED BY <1>5, <1>8, <1>g, <2>1, <2>2
<1>11. table' = [table EXCEPT ![p]["user"] = t]
  BY <1>3, <1>t
<1>12. Mem(p) = InHand(stage[p]) /\ Mem(p) \in Nat
  BY DEF Mem, InHand
<1>13. taken' = taken - InHand(stage[p]) - Weight("user", table[p]["user"]) + Weight("user", t)
  BY <1>2, <1>3, <1>8, <1>12 DEF Weight
<1>14. "user" \in Kind /\ panic' = NULL
  BY <1>1, <1>3 DEF Kind
<1>15. stage[p] \notin {"none", "copy"}
  BY <1>1
<1> QED BY <1>1, <1>3, <1>8, <1>9, <1>10, <1>11, <1>13, <1>14, <1>15, CallFails

(* exec()'s bad: the new table is given back.                              *)
LEMMA ExecBadKeeps ==
  ASSUME IInv, NEW p \in Slot, ExecBad(p)
  PROVE  IInv'
<1>1. /\ panic = NULL /\ stage[p] \in {"mem", "map"} /\ call[p] = "exec"
      /\ stage[p] # "none" /\ stage[p] # "copy"
  BY DEF ExecBad, NoUserPage, In, Lacking, Walking
<1>2. /\ CallTypes /\ TableTypes /\ taken \in Nat /\ zeroed \in BOOLEAN
      /\ CountInv /\ Finite(table) /\ SInv
  BY <1>1, Typed
<1>c. PICK c \in Slot : c = Worked(p)
  BY <1>1, WorkedFacts
<1>w. /\ c # p => ~used[c]
      /\ \A q \in Slot : q # p => np[q] # c
      /\ np[p] \in {c, NULL}
      /\ call[p] = "fork" => c = np[p] /\ c # p
      /\ call[p] # "fork" => c = p
  BY <1>1, <1>c, WorkedFacts
<1>f. /\ used[p] /\ call[p] \in {"fork", "exec", "grow"} /\ stage[p] \in Stages(call[p])
      /\ \A q \in Slot : np[q] # p
      /\ call[p] # "fork" => np[p] = NULL
      /\ call[p] = "fork" => \A q \in Slot : np[q] = np[p] => q = p
  BY <1>1, CallFacts
<1>k. CallOK(p) /\ UsedOK(p) /\ NewOK(p) /\ ForkOK(p) /\ UsedOK(c) /\ EmptyOK(c) /\ CallOK(c)
  BY <1>2 DEF SInv
<1>3. /\ table' = [table EXCEPT ![p].new = {}]
      /\ taken' = taken - FreeTable(table[p].new, i[p]) - Mem(p) /\ Return(p)
      /\ used' = used /\ sz' = sz /\ frame' = frame /\ zeroed' = zeroed
      /\ panic' = FreeTablePanic(table[p].new, i[p])
  BY DEF ExecBad
<1>4. i[p] \in 0 .. MAXPAGES
  <2>1. tgt[p] \in 0 .. MAXPAGES
    BY <1>2 DEF CallTypes
  <2> QED BY <1>1, <1>k, <2>1, MAXPAGESAssumption DEF CallOK
<1>5. Leaves(table[p].new) = User \cup UserPages(i[p])
  BY <1>1, <1>k DEF NewOK, Built
<1>6. table[p].new \in SUBSET Position /\ IsFiniteSet(table[p].new)
  BY <1>2 DEF TableTypes, Kind
<1>7. /\ TableCount(table[p].new) \in Nat
      /\ PageCount(table[p].new) = i[p] + TableCount(table[p].new)
  BY <1>4, <1>5, <1>6, PageCountIs
<1>8. panic' = NULL
  BY <1>3, <1>5, FreeTableFine
<1>9. table' = [table EXCEPT ![p]["new"] = {}]
  BY <1>3
<1>10. Mem(p) = InHand(stage[p]) /\ Mem(p) \in Nat
  BY DEF Mem, InHand
<1>11. taken' = taken - InHand(stage[p]) - Weight("new", table[p]["new"]) + Weight("new", {})
  <2>1. FreeTable(table[p].new, i[p]) = PageCount(table[p].new)
    BY <1>7 DEF FreeTable, TableCount
  <2>2. Weight("new", table[p]["new"]) = PageCount(table[p].new) /\ Weight("new", {}) = 0
    BY NoTableCounts DEF Weight
  <2>3. PageCount(table[p].new) \in Nat
    BY <1>4, <1>7
  <2> QED BY <1>2, <1>3, <1>10, <2>1, <2>2, <2>3
<1>12. "new" \in Kind
  BY DEF Kind
<1>13. stage[p] \notin {"none", "copy"}
  BY <1>1
<1> QED BY <1>1, <1>3, <1>8, <1>9, <1>11, <1>12, <1>13, NoTable0, CallFails

(* proc_pagetable() of exec() has no page for a table.                     *)
LEMMA NoTableExec ==
  ASSUME IInv, NEW p \in Slot, NoTable(p), call[p] # "fork"
  PROVE  IInv'
<1>1. /\ panic = NULL /\ stage[p] \in {"root", "tramp", "tframe"}
      /\ call[p] = "exec" /\ stage[p] # "none"
  BY DEF NoTable, In, Lacking, Walking
<1>2. /\ CallTypes /\ TableTypes /\ taken \in Nat /\ zeroed \in BOOLEAN
      /\ CountInv /\ Finite(table) /\ SInv
  BY <1>1, Typed
<1>c. PICK c \in Slot : c = Worked(p)
  BY <1>1, WorkedFacts
<1>w. /\ c # p => ~used[c]
      /\ \A q \in Slot : q # p => np[q] # c
      /\ np[p] \in {c, NULL}
      /\ call[p] = "fork" => c = np[p] /\ c # p
      /\ call[p] # "fork" => c = p
  BY <1>1, <1>c, WorkedFacts
<1>f. /\ used[p] /\ call[p] \in {"fork", "exec", "grow"} /\ stage[p] \in Stages(call[p])
      /\ \A q \in Slot : np[q] # p
      /\ call[p] # "fork" => np[p] = NULL
      /\ call[p] = "fork" => \A q \in Slot : np[q] = np[p] => q = p
  BY <1>1, CallFacts
<1>k. CallOK(p) /\ UsedOK(p) /\ NewOK(p) /\ ForkOK(p) /\ UsedOK(c) /\ EmptyOK(c) /\ CallOK(c)
  BY <1>2 DEF SInv
<1>3. WorkedKind(p) = "new" /\ c = p
  BY <1>1, <1>w DEF WorkedKind
<1>4. TargetTable(p) = table[p].new
  BY <1>3, <1>c DEF TargetTable
<1>5. /\ table' = [table EXCEPT ![p]["new"] = {}]
      /\ taken' = taken - Cardinality(TablePages(table[p].new)) /\ Return(p)
      /\ used' = used /\ sz' = sz /\ frame' = frame /\ zeroed' = zeroed
      /\ panic' = NULL
  BY <1>1, <1>3, <1>4, <1>c DEF NoTable, SetTarget
<1>6. table[p].new \in SUBSET Position /\ IsFiniteSet(table[p].new)
  BY <1>2 DEF TableTypes, Kind
<1>7. TableCount(table[p].new) \in Nat /\ PageCount(table[p].new) = TableCount(table[p].new)
  <2>1. CASE stage[p] = "root"
    BY <1>1, <1>k, <2>1, NoTableCounts DEF NewOK
  <2>2. CASE stage[p] # "root"
    <3>1. PICK S \in SUBSET User : Leaves(table[p].new) = S
      BY <1>1, <1>k, <2>2, BuiltNext DEF NewOK, User
    <3>2. Leaves(table[p].new) = S \cup UserPages(0) /\ 0 \in 0 .. MAXPAGES
      BY <3>1, NoUserPages, MAXPAGESAssumption
    <3>3. /\ TableCount(table[p].new) \in Nat
          /\ PageCount(table[p].new) = 0 + TableCount(table[p].new)
      BY <1>6, <3>2, PageCountIs
    <3> QED BY <3>3
  <2> QED BY <2>1, <2>2
<1>8. taken' = taken - InHand(stage[p]) - Weight("new", table[p]["new"]) + Weight("new", {})
  <2>1. Weight("new", table[p]["new"]) = TableCount(table[p].new) /\ Weight("new", {}) = 0
    BY <1>7, NoTableCounts DEF Weight
  <2>2. InHand(stage[p]) = 0
    BY <1>1 DEF InHand
  <2> QED BY <1>2, <1>5, <1>7, <2>1, <2>2 DEF TableCount
<1>9. "new" \in Kind
  BY DEF Kind
<1>10. stage[p] \notin {"none", "copy"}
  BY <1>1
<1> QED BY <1>1, <1>5, <1>8, <1>9, <1>10, NoTable0, CallFails

(* freeproc(c), and what the caller has given back before: nothing of the  *)
(* slot is left, and all of it is counted.                                 *)
Frees(p, c, t, n, given, g) ==
  /\ FreeProcOf(c, t, n, given)
  /\ zeroed' = zeroed /\ stage'[p] # "map"
  /\ \A s \in Slot : s # p => (stage'[s] = "map" <=> stage[s] = "map")
  /\ t = {} \/ FreeTablePanic(t, n) = NULL
  /\ given \in Nat /\ g \in Nat /\ g = (IF t = {} THEN 0 ELSE FreeTable(t, n))
  /\ given + g = InHand(stage[p]) + PageCount(table[c].user)
  /\ table[c].kernel = {} \/ <<>> \in table[c].kernel \/ zeroed

(* After freeproc(c) the slot is empty, the others are as they were, and   *)
(* the pages are conserved.                                                *)
LEMMA Freed ==
  ASSUME IInv, NEW p \in Slot, NEW c \in Slot, NEW t, NEW n, NEW given, NEW g,
         Frees(p, c, t, n, given, g)
  PROVE  /\ panic' = NULL /\ TableTypes' /\ frame' \in [Slot -> BOOLEAN]
         /\ ~frame'[c] /\ table'[c].user = {} /\ table'[c].kernel = {}
         /\ table'[c].new = table[c].new
         /\ \A s \in Slot : s # c => frame'[s] = frame[s] /\ table'[s] = table[s]
         /\ CountInv' /\ taken' \in Nat
<1>1. CallTypes /\ TableTypes /\ CountInv /\ taken \in Nat /\ zeroed \in BOOLEAN /\ Finite(table)
  BY Typed
<1>2. /\ frame' = [frame EXCEPT ![c] = FALSE]
      /\ table' = [table EXCEPT ![c].user = {}, ![c].kernel = {}]
      /\ panic' = NULL
  BY DEF FreeProcOf, Frees
<1>3. /\ frame' \in [Slot -> BOOLEAN] /\ frame'[c] = FALSE
      /\ \A s \in Slot : s # c => frame'[s] = frame[s]
  BY <1>1, <1>2 DEF CallTypes
<1>4. PICK tb : tb = [table EXCEPT ![c]["user"] = {}]
  OBVIOUS
<1>5. /\ tb \in [Slot -> [Kind -> SUBSET Position]]
      /\ tb[c]["user"] = {} /\ \A h \in Kind : h # "user" => tb[c][h] = table[c][h]
      /\ \A s \in Slot : s # c => tb[s] = table[s]
  <2>1. table \in [Slot -> [Kind -> SUBSET Position]]
    BY <1>1 DEF TableTypes
  <2> QED BY <1>4, <2>1 DEF Kind
<1>6. table' = [tb EXCEPT ![c]["kernel"] = {}]
  BY <1>2, <1>4
<1>7. /\ table' \in [Slot -> [Kind -> SUBSET Position]]
      /\ table'[c]["user"] = {} /\ table'[c]["kernel"] = {}
      /\ table'[c]["new"] = table[c]["new"]
      /\ \A s \in Slot : s # c => table'[s] = table[s]
  BY <1>5, <1>6 DEF Kind
<1>8. TableTypes'
  <2>1. \A s \in Slot : \A h \in Kind : Grown(table'[s][h]) /\ IsFiniteSet(table'[s][h])
    <3> TAKE s \in Slot
    <3> TAKE h \in Kind
    <3>1. Grown(table[s][h]) /\ IsFiniteSet(table[s][h])
      BY <1>1 DEF TableTypes
    <3>2. table'[s][h] = table[s][h] \/ table'[s][h] = {}
      BY <1>7 DEF Kind
    <3> QED BY <3>1, <3>2, NoTable0
  <2> QED BY <1>7, <2>1 DEF TableTypes
<1>9. Moved(c, p, c, c, c)
  <2>1. Finite(table)'
    BY <1>8 DEF TableTypes, Finite, Kind
  <2> QED BY <1>3, <1>7, <2>1 DEF Moved, Frees
<1>10. /\ Count(frame, stage, table) \in Nat /\ Count(frame', stage', table') \in Nat
       /\ One(frame[c]) \in Nat /\ One(frame'[c]) \in Nat
       /\ InHand(stage[p]) \in Nat /\ InHand(stage'[p]) \in Nat
       /\ PageCount(table[c].user) \in Nat /\ PageCount(table'[c].user) \in Nat
       /\ PageCount(table[c].new) \in Nat /\ PageCount(table'[c].new) \in Nat
       /\ TableCount(table[c].kernel) \in Nat /\ TableCount(table'[c].kernel) \in Nat
       /\ Count(frame', stage', table') = Count(frame, stage, table) + Added(c, p, c, c, c)
  BY <1>9, CountMoved
<1>11. /\ One(frame'[c]) = 0 /\ InHand(stage'[p]) = 0 /\ PageCount(table'[c].user) = 0
       /\ TableCount(table'[c].kernel) = 0 /\ table'[c].new = table[c].new
  BY <1>3, <1>7, NoTableCounts DEF One, InHand, Frees
<1>12. Count(frame', stage', table')
         = Count(frame, stage, table) - One(frame[c]) - given - g - TableCount(table[c].kernel)
  <2>1. PageCount(table'[c].new) = PageCount(table[c].new)
    BY <1>11
  <2>2. Added(c, p, c, c, c)
          = 0 - One(frame[c]) - InHand(stage[p]) - PageCount(table[c].user)
            - TableCount(table[c].kernel)
    BY <1>10, <1>11, <2>1 DEF Added
  <2>3. given \in Nat /\ g \in Nat
        /\ given + g = InHand(stage[p]) + PageCount(table[c].user)
    BY DEF Frees
  <2> QED BY <1>10, <2>2, <2>3
<1>k. PICK k : k = IF <<>> \in table[c].kernel
                   THEN Cardinality(TablePages(table[c].kernel)) ELSE 0
  OBVIOUS
<1>13. /\ k \in Nat /\ k <= TableCount(table[c].kernel)
       /\ ~zeroed => k = TableCount(table[c].kernel)
  <2>1. CASE <<>> \in table[c].kernel
    BY <1>10, <1>k, <2>1 DEF TableCount
  <2>2. CASE <<>> \notin table[c].kernel
    <3>1. k = 0
      BY <1>k, <2>2
    <3>2. ~zeroed => TableCount(table[c].kernel) = 0
      <4>1. ~zeroed => table[c].kernel = {}
        BY <2>2 DEF Frees
      <4> QED BY <4>1, NoTableCounts
    <3> QED BY <1>10, <3>1, <3>2
  <2> QED BY <2>1, <2>2
<1>14. taken' = taken - given - One(frame[c]) - g - k
  BY <1>k DEF FreeProcOf, One, Frees
<1>15. /\ Cardinality(Held) <= taken /\ (~zeroed => taken = Cardinality(Held))
       /\ Cardinality(Held) = Count(frame, stage, table)
       /\ Cardinality(Held)' = Count(frame', stage', table')
  BY <1>1, HeldCount, HeldCountNext DEF CountInv
<1>16. /\ taken' \in Nat /\ Cardinality(Held)' <= taken'
       /\ ~zeroed => taken' = Cardinality(Held)'
  <2>1. /\ Cardinality(Held) \in Nat /\ Cardinality(Held)' \in Nat
        /\ Cardinality(Held)'
             = Cardinality(Held) - One(frame[c]) - given - g - TableCount(table[c].kernel)
    BY <1>10, <1>12, <1>15
  <2>0. given \in Nat /\ g \in Nat
    BY DEF Frees
  <2>2. taken' >= Cardinality(Held)' /\ taken' \in Int
    BY <1>1, <1>10, <1>13, <1>14, <1>15, <2>0, <2>1
  <2>3. ~zeroed => taken' = Cardinality(Held)'
    BY <1>1, <1>10, <1>13, <1>14, <1>15, <2>0, <2>1
  <2> QED BY <2>1, <2>2, <2>3
<1>17. CountInv'
  <2>1. zeroed' = zeroed
    BY DEF Frees
  <2> QED BY <1>16, <2>1 DEF CountInv
<1> QED BY <1>2, <1>3, <1>7, <1>8, <1>16, <1>17

(* fork() returns -1: whatever np had is given back.                       *)
LEMMA ForkFails ==
  ASSUME IInv, panic = NULL, NEW p \in Slot, stage[p] # "none", call[p] = "fork",
         NEW t, NEW n, NEW given \in Nat, FreeProcOf(np[p], t, n, given),
         Return(p), used' = used, sz' = sz, zeroed' = zeroed,
         t = {} \/ FreeTablePanic(t, n) = NULL,
         NEW g \in Nat, g = (IF t = {} THEN 0 ELSE FreeTable(t, n)),
         given + g = InHand(stage[p]) + PageCount(table[np[p]].user)
  PROVE  IInv'
<1>1. panic = NULL /\ stage[p] # "none"
  OBVIOUS
<1>2. /\ CallTypes /\ TableTypes /\ taken \in Nat /\ zeroed \in BOOLEAN
      /\ CountInv /\ Finite(table) /\ SInv
  BY <1>1, Typed
<1>c. PICK c \in Slot : c = Worked(p)
  BY <1>1, WorkedFacts
<1>w. /\ c # p => ~used[c]
      /\ \A q \in Slot : q # p => np[q] # c
      /\ np[p] \in {c, NULL}
      /\ call[p] = "fork" => c = np[p] /\ c # p
      /\ call[p] # "fork" => c = p
  BY <1>1, <1>c, WorkedFacts
<1>f. /\ used[p] /\ call[p] \in {"fork", "exec", "grow"} /\ stage[p] \in Stages(call[p])
      /\ \A q \in Slot : np[q] # p
      /\ call[p] # "fork" => np[p] = NULL
      /\ call[p] = "fork" => \A q \in Slot : np[q] = np[p] => q = p
  BY <1>1, CallFacts
<1>k. CallOK(p) /\ UsedOK(p) /\ NewOK(p) /\ ForkOK(p) /\ UsedOK(c) /\ EmptyOK(c) /\ CallOK(c)
  BY <1>2 DEF SInv
<1>3. c = np[p] /\ c # p /\ FilledOK(p, c)
  BY <1>w, <1>k DEF ForkOK
<1>4. /\ call'[p] = "none" /\ stage'[p] = "none" /\ np'[p] = NULL
      /\ \A q \in Slot : q # p => /\ call'[q] = call[q] /\ stage'[q] = stage[q]
                                  /\ i'[q] = i[q] /\ tgt'[q] = tgt[q] /\ np'[q] = np[q]
      /\ CallOK(p)' /\ ForkOK(p)'
  BY <1>2, Returned
<1>5. table[c].kernel = {} \/ <<>> \in table[c].kernel \/ zeroed
  BY <1>3, <1>f DEF FilledOK, Stages
<1>6. /\ panic' = NULL /\ TableTypes' /\ frame' \in [Slot -> BOOLEAN]
      /\ ~frame'[c] /\ table'[c].user = {} /\ table'[c].kernel = {}
      /\ table'[c].new = table[c].new
      /\ \A s \in Slot : s # c => frame'[s] = frame[s] /\ table'[s] = table[s]
      /\ CountInv' /\ taken' \in Nat
  <2>1. /\ stage'[p] # "map"
        /\ \A s \in Slot : s # p => (stage'[s] = "map" <=> stage[s] = "map")
    BY <1>4
  <2>2. Frees(p, c, t, n, given, g)
    BY <1>3, <1>5, <2>1 DEF Frees
  <2> QED BY <2>2, Freed
<1>7. CallTypes'
  BY <1>2, <1>6, Returned DEF CallTypes
<1>8. Reaches(p, c)
  BY <1>4, <1>6, <1>w DEF Reaches
<1>9. UsedOK(p)' /\ UsedOK(c)' /\ NewOK(p)'
  <2>1. InUser(p)' = InUser(p) /\ InKernel(p)' = InKernel(p)
    BY <1>4 DEF InUser, InKernel
  <2>2. table'[p] = table[p] /\ frame'[p] = frame[p] /\ ~used'[c] /\ used'[p] = used[p]
    BY <1>3, <1>6, <1>w
  <2> QED BY <1>4, <1>k, <2>1, <2>2 DEF UsedOK, NewOK
<1>10. EmptyOK(p)' /\ EmptyOK(c)'
  BY <1>6, <1>f DEF EmptyOK
<1>11. OnlyMemoryPanics' /\ zeroed' \in BOOLEAN
  BY <1>2, <1>6 DEF OnlyMemoryPanics
<1> QED
  BY <1>1, <1>4, <1>6, <1>7, <1>8, <1>9, <1>10, <1>11, <1>f, <1>w, StepKept

(* proc_pagetable() of fork() has no page for a table.                     *)
LEMMA NoTableFork ==
  ASSUME IInv, NEW p \in Slot, NoTable(p), call[p] = "fork"
  PROVE  IInv'
<1>1. /\ panic = NULL /\ stage[p] \in {"root", "tramp", "tframe"}
      /\ stage[p] # "none"
  BY DEF NoTable, In, Lacking, Walking
<1>2. /\ CallTypes /\ TableTypes /\ taken \in Nat /\ zeroed \in BOOLEAN
      /\ CountInv /\ Finite(table) /\ SInv
  BY <1>1, Typed
<1>c. PICK c \in Slot : c = Worked(p)
  BY <1>1, WorkedFacts
<1>w. /\ c # p => ~used[c]
      /\ \A q \in Slot : q # p => np[q] # c
      /\ np[p] \in {c, NULL}
      /\ call[p] = "fork" => c = np[p] /\ c # p
      /\ call[p] # "fork" => c = p
  BY <1>1, <1>c, WorkedFacts
<1>f. /\ used[p] /\ call[p] \in {"fork", "exec", "grow"} /\ stage[p] \in Stages(call[p])
      /\ \A q \in Slot : np[q] # p
      /\ call[p] # "fork" => np[p] = NULL
      /\ call[p] = "fork" => \A q \in Slot : np[q] = np[p] => q = p
  BY <1>1, CallFacts
<1>k. CallOK(p) /\ UsedOK(p) /\ NewOK(p) /\ ForkOK(p) /\ UsedOK(c) /\ EmptyOK(c) /\ CallOK(c)
  BY <1>2 DEF SInv
<1>3. c = np[p] /\ FilledOK(p, c) /\ WorkedKind(p) = "user"
  BY <1>1, <1>w, <1>k DEF ForkOK, WorkedKind
<1>4. TargetTable(p) = table[c].user
  BY <1>3, <1>c DEF TargetTable
<1>5. table[c].user \in SUBSET Position /\ IsFiniteSet(table[c].user)
  BY <1>2 DEF TableTypes, Kind
<1>6. TableCount(table[c].user) \in Nat /\ PageCount(table[c].user) = TableCount(table[c].user)
  <2>1. PICK S \in SUBSET User : Leaves(table[c].user) = S
    BY <1>1, <1>3, BuiltNext, NoTableCounts DEF FilledOK, User
  <2>2. Leaves(table[c].user) = S \cup UserPages(0) /\ 0 \in 0 .. MAXPAGES
    BY <2>1, NoUserPages, MAXPAGESAssumption
  <2> QED BY <1>5, <2>2, PageCountIs
<1>7. /\ FreeProcOf(c, {}, 0, TableCount(table[c].user)) /\ Return(p)
      /\ used' = used /\ sz' = sz /\ zeroed' = zeroed
  BY <1>3, <1>4 DEF NoTable, TableCount
<1>8. InHand(stage[p]) = 0
  BY <1>1 DEF InHand
<1>9. 0 = (IF {} = {} THEN 0 ELSE FreeTable({}, 0)) /\ 0 \in Nat
  OBVIOUS
<1>10. TableCount(table[c].user) + 0 = InHand(stage[p]) + PageCount(table[c].user)
  BY <1>6, <1>8
<1> QED BY <1>1, <1>3, <1>6, <1>7, <1>9, <1>10, ForkFails

(* proc_pagetable() has no page for a table.                               *)
LEMMA NoTableKeeps ==
  ASSUME IInv, NEW p \in Slot, NoTable(p)
  PROVE  IInv'
BY NoTableExec, NoTableFork

(* What freeproc() gives back of a table that maps n pages.                *)
LEMMA GivenBack ==
  ASSUME NEW t \in SUBSET Position, IsFiniteSet(t), NEW n \in 0 .. MAXPAGES,
         Leaves(t) = User \cup UserPages(n)
  PROVE  /\ FreeTablePanic(t, n) = NULL
         /\ PageCount(t) \in Nat /\ TableCount(t) \in Nat
         /\ PageCount(t) = n + TableCount(t)
         /\ PageCount(t) = (IF t = {} THEN 0 ELSE FreeTable(t, n))
<1>1. TableCount(t) \in Nat /\ PageCount(t) = n + TableCount(t)
  BY PageCountIs
<1>2. FreeTablePanic(t, n) = NULL
  BY FreeTableFine
<1>3. t # {}
  <2>1. TRAMPOLINE \in Leaves(t)
    BY DEF User
  <2> QED BY <2>1 DEF Leaves
<1>4. FreeTable(t, n) = PageCount(t)
  BY <1>1 DEF FreeTable, TableCount
<1>5. n \in Nat
  BY MAXPAGESAssumption
<1> QED BY <1>1, <1>2, <1>3, <1>4, <1>5

(* allocproc() finds that there is no kernel page table.                   *)
LEMMA RootWasNullKeeps ==
  ASSUME IInv, NEW p \in Slot, RootWasNull(p)
  PROVE  IInv'
<1>1. panic = NULL /\ stage[p] = "kstack" /\ stage[p] # "none"
  BY DEF RootWasNull, In
<1>2. /\ CallTypes /\ TableTypes /\ taken \in Nat /\ zeroed \in BOOLEAN
      /\ CountInv /\ Finite(table) /\ SInv
  BY <1>1, Typed
<1>c. PICK c \in Slot : c = Worked(p)
  BY <1>1, WorkedFacts
<1>w. /\ c # p => ~used[c]
      /\ \A q \in Slot : q # p => np[q] # c
      /\ np[p] \in {c, NULL}
      /\ call[p] = "fork" => c = np[p] /\ c # p
      /\ call[p] # "fork" => c = p
  BY <1>1, <1>c, WorkedFacts
<1>f. /\ used[p] /\ call[p] \in {"fork", "exec", "grow"} /\ stage[p] \in Stages(call[p])
      /\ \A q \in Slot : np[q] # p
      /\ call[p] # "fork" => np[p] = NULL
      /\ call[p] = "fork" => \A q \in Slot : np[q] = np[p] => q = p
  BY <1>1, CallFacts
<1>k. CallOK(p) /\ UsedOK(p) /\ NewOK(p) /\ ForkOK(p) /\ UsedOK(c) /\ EmptyOK(c) /\ CallOK(c)
  BY <1>2 DEF SInv
<1>3. call[p] = "fork" /\ c = np[p] /\ FilledOK(p, c)
  BY <1>1, <1>f, <1>w, <1>k DEF Stages, ForkOK
<1>4. table[c].user \in SUBSET Position /\ IsFiniteSet(table[c].user)
  BY <1>2 DEF TableTypes, Kind
<1>5. 0 \in 0 .. MAXPAGES /\ Leaves(table[c].user) = User \cup UserPages(0)
  BY <1>1, <1>3, BuiltNext, NoUserPages, MAXPAGESAssumption DEF FilledOK
<1>g. PICK g : g = PageCount(table[c].user)
  OBVIOUS
<1>t. PICK t : t = table[c].user
  OBVIOUS
<1>6. /\ FreeTablePanic(t, 0) = NULL /\ g \in Nat
      /\ g = (IF t = {} THEN 0 ELSE FreeTable(t, 0))
  BY <1>4, <1>5, <1>g, <1>t, GivenBack
<1>7. /\ FreeProcOf(np[p], t, 0, 0) /\ Return(p)
      /\ used' = used /\ sz' = sz /\ zeroed' = zeroed
  BY <1>3, <1>t DEF RootWasNull
<1>8. 0 + g = InHand(stage[p]) + PageCount(table[np[p]].user) /\ 0 \in Nat
  BY <1>1, <1>3, <1>6, <1>g DEF InHand
<1> QED BY <1>1, <1>3, <1>6, <1>7, <1>8, ForkFails

(* uvmcopy() fails.                                                        *)
LEMMA ForkNoPageKeeps ==
  ASSUME IInv, NEW p \in Slot, ForkNoPage(p)
  PROVE  IInv'
<1>1. /\ panic = NULL /\ stage[p] \in {"mem", "map"} /\ call[p] = "fork"
      /\ stage[p] # "none"
  BY DEF ForkNoPage, NoUserPage, In, Lacking, Walking
<1>2. /\ CallTypes /\ TableTypes /\ taken \in Nat /\ zeroed \in BOOLEAN
      /\ CountInv /\ Finite(table) /\ SInv
  BY <1>1, Typed
<1>c. PICK c \in Slot : c = Worked(p)
  BY <1>1, WorkedFacts
<1>w. /\ c # p => ~used[c]
      /\ \A q \in Slot : q # p => np[q] # c
      /\ np[p] \in {c, NULL}
      /\ call[p] = "fork" => c = np[p] /\ c # p
      /\ call[p] # "fork" => c = p
  BY <1>1, <1>c, WorkedFacts
<1>f. /\ used[p] /\ call[p] \in {"fork", "exec", "grow"} /\ stage[p] \in Stages(call[p])
      /\ \A q \in Slot : np[q] # p
      /\ call[p] # "fork" => np[p] = NULL
      /\ call[p] = "fork" => \A q \in Slot : np[q] = np[p] => q = p
  BY <1>1, CallFacts
<1>k. CallOK(p) /\ UsedOK(p) /\ NewOK(p) /\ ForkOK(p) /\ UsedOK(c) /\ EmptyOK(c) /\ CallOK(c)
  BY <1>2 DEF SInv
<1>3. c = np[p] /\ FilledOK(p, c)
  BY <1>1, <1>w, <1>k DEF ForkOK
<1>4. table[c].user \in SUBSET Position /\ IsFiniteSet(table[c].user)
  BY <1>2 DEF TableTypes, Kind
<1>5. i[p] \in 0 .. MAXPAGES /\ i[p] \in Nat
  <2>1. tgt[p] \in 0 .. MAXPAGES
    BY <1>2 DEF CallTypes
  <2> QED BY <1>1, <1>k, <2>1, MAXPAGESAssumption DEF CallOK
<1>6. Leaves(table[c].user) = User \cup UserPages(i[p])
  BY <1>1, <1>3 DEF FilledOK, Built
<1>g. PICK gone : gone = UserPages(i[p])
  OBVIOUS
<1>7. \A x \in gone : x \in table[c].user /\ x \in Mapping /\ x \notin User
  BY <1>5, <1>6, <1>g, Regions DEF Leaves
<1>t. PICK t : t = table[c].user \ gone
  OBVIOUS
<1>8. /\ t \in SUBSET Position /\ IsFiniteSet(t) /\ Leaves(t) = Leaves(table[c].user) \ gone
      /\ PageCount(table[c].user) \in Nat
      /\ PageCount(t) = PageCount(table[c].user) - Cardinality(gone)
  BY <1>4, <1>7, <1>t, RemovePages
<1>9. Cardinality(gone) = i[p]
  BY <1>5, <1>g, UserPagesCount
<1>10. Leaves(t) = User \cup UserPages(0) /\ 0 \in 0 .. MAXPAGES
  BY <1>6, <1>7, <1>8, <1>g, NoUserPages, MAXPAGESAssumption
<1>h. PICK h : h = PageCount(t)
  OBVIOUS
<1>11. /\ FreeTablePanic(t, 0) = NULL /\ h \in Nat
       /\ h = (IF t = {} THEN 0 ELSE FreeTable(t, 0))
  BY <1>8, <1>10, <1>h, GivenBack
<1>12. Mem(p) = InHand(stage[p]) /\ Mem(p) \in Nat
  BY DEF Mem, InHand
<1>v. PICK given : given = i[p] + Mem(p)
  OBVIOUS
<1>13. /\ FreeProcOf(np[p], t, 0, given) /\ Return(p)
       /\ used' = used /\ sz' = sz /\ zeroed' = zeroed
  BY <1>3, <1>g, <1>t, <1>v DEF ForkNoPage
<1>14. given \in Nat /\ given + h = InHand(stage[p]) + PageCount(table[np[p]].user)
  BY <1>3, <1>5, <1>8, <1>9, <1>12, <1>h, <1>v
<1> QED BY <1>1, <1>3, <1>11, <1>13, <1>14, ForkFails

(* exit() and wait(): freeproc().                                          *)
LEMMA FreeProcKeeps ==
  ASSUME IInv, NEW p \in Slot, FreeProc(p)
  PROVE  IInv'
<1>1. /\ panic = NULL /\ used[p] /\ call[p] = "none" /\ stage[p] = "none"
      /\ np[p] = NULL /\ \A q \in Slot : np[q] # p
      /\ InUser(p) = sz[p] /\ InKernel(p) = sz[p] /\ table[p].new = {}
  BY IdleFacts DEF FreeProc
<1>2. /\ CallTypes /\ TableTypes /\ taken \in Nat /\ zeroed \in BOOLEAN
      /\ CountInv /\ Finite(table) /\ SInv
  BY <1>1, Typed
<1>3. /\ used' = [used EXCEPT ![p] = FALSE] /\ sz' = [sz EXCEPT ![p] = 0]
      /\ call' = call /\ stage' = stage /\ i' = i /\ tgt' = tgt /\ np' = np
      /\ zeroed' = zeroed /\ FreeProcOf(p, table[p].user, sz[p], 0)
  BY DEF FreeProc
<1>4. /\ ~used'[p]
      /\ \A q \in Slot : q # p => used'[q] = used[q] /\ sz'[q] = sz[q]
  BY <1>2, <1>3 DEF CallTypes
<1>5. UsedOK(p) /\ CallOK(p) /\ NewOK(p)
  BY <1>2 DEF SInv
<1>6. /\ table[p].user \in SUBSET Position /\ IsFiniteSet(table[p].user)
      /\ sz[p] \in 0 .. MAXPAGES
  BY <1>2 DEF TableTypes, CallTypes, Kind
<1>7. Leaves(table[p].user) = User \cup UserPages(sz[p]) /\ <<>> \in table[p].kernel
  BY <1>1, <1>5 DEF UsedOK
<1>g. PICK g : g = PageCount(table[p].user)
  OBVIOUS
<1>t. PICK t : t = table[p].user
  OBVIOUS
<1>n. PICK n : n = sz[p]
  OBVIOUS
<1>8. /\ FreeTablePanic(t, n) = NULL /\ g \in Nat
      /\ g = (IF t = {} THEN 0 ELSE FreeTable(t, n))
  BY <1>6, <1>7, <1>g, <1>t, <1>n, GivenBack
<1>9. 0 + g = InHand(stage[p]) + PageCount(table[p].user)
  BY <1>1, <1>8, <1>g DEF InHand
<1>10. Frees(p, p, t, n, 0, g)
  BY <1>1, <1>3, <1>7, <1>8, <1>9, <1>t, <1>n DEF Frees
<1>11. /\ panic' = NULL /\ TableTypes' /\ frame' \in [Slot -> BOOLEAN]
       /\ ~frame'[p] /\ table'[p].user = {} /\ table'[p].kernel = {}
       /\ table'[p].new = table[p].new
       /\ \A s \in Slot : s # p => frame'[s] = frame[s] /\ table'[s] = table[s]
       /\ CountInv' /\ taken' \in Nat
  BY <1>10, Freed
<1>12. CallTypes'
  <2>1. used' \in [Slot -> BOOLEAN]
    BY <1>2, <1>3 DEF CallTypes
  <2>2. sz' \in [Slot -> 0 .. MAXPAGES]
    BY <1>2, <1>3, MAXPAGESAssumption DEF CallTypes
  <2> QED BY <1>2, <1>3, <1>11, <2>1, <2>2 DEF CallTypes
<1>13. Reaches(p, p)
  BY <1>1, <1>3, <1>4, <1>11 DEF Reaches
<1>14. CallOK(p)' /\ UsedOK(p)' /\ NewOK(p)' /\ ForkOK(p)' /\ EmptyOK(p)'
  <2>1. CallOK(p)'
    BY <1>1, <1>3 DEF CallOK, Stages
  <2>2. UsedOK(p)' /\ EmptyOK(p)'
    BY <1>4, <1>11 DEF UsedOK, EmptyOK
  <2>3. NewOK(p)' /\ ForkOK(p)'
    BY <1>1, <1>3, <1>11 DEF NewOK, ForkOK
  <2> QED BY <2>1, <2>2, <2>3
<1>15. OnlyMemoryPanics' /\ zeroed' \in BOOLEAN
  BY <1>2, <1>3, <1>11 DEF OnlyMemoryPanics
<1> QED BY <1>1, <1>11, <1>12, <1>13, <1>14, <1>15, StepKept

(* growproc() gives pages back.                                            *)
LEMMA ShrinkKeeps ==
  ASSUME IInv, NEW p \in Slot, NEW n \in 0 .. MAXPAGES, Shrink(p, n)
  PROVE  IInv'
<1>1. /\ panic = NULL /\ used[p] /\ call[p] = "none" /\ stage[p] = "none"
      /\ np[p] = NULL /\ \A q \in Slot : np[q] # p
      /\ InUser(p) = sz[p] /\ InKernel(p) = sz[p] /\ table[p].new = {}
  BY IdleFacts DEF Shrink
<1>2. /\ CallTypes /\ TableTypes /\ taken \in Nat /\ zeroed \in BOOLEAN
      /\ CountInv /\ Finite(table) /\ SInv
  BY <1>1, Typed
<1>g. PICK g : g = UserPages(sz[p]) \ UserPages(n)
  OBVIOUS
<1>3. /\ sz' = [sz EXCEPT ![p] = n]
      /\ table' = [table EXCEPT ![p].user = table[p].user \ g,
                                ![p].kernel = table[p].kernel \ g]
      /\ taken' = taken - Cardinality(g)
      /\ panic' = IF g \subseteq table[p].user \cap table[p].kernel
                  THEN NULL ELSE "uvmunmap: not mapped"
      /\ used' = used /\ frame' = frame /\ call' = call /\ stage' = stage /\ i' = i
      /\ tgt' = tgt /\ np' = np /\ zeroed' = zeroed
  BY <1>g DEF Shrink
<1>4. /\ n \in Nat /\ n < sz[p] /\ sz[p] \in Nat
      /\ sz[p] \in 0 .. MAXPAGES
  <2>1. sz[p] \in 0 .. MAXPAGES
    BY <1>2 DEF CallTypes
  <2>2. n < sz[p]
    BY DEF Shrink
  <2> QED BY <2>1, <2>2, MAXPAGESAssumption
<1>5. UsedOK(p) /\ CallOK(p) /\ NewOK(p)
  BY <1>2 DEF SInv
<1>6. /\ table[p].user \in SUBSET Position /\ IsFiniteSet(table[p].user)
      /\ Grown(table[p].user)
      /\ table[p].kernel \in SUBSET Position /\ IsFiniteSet(table[p].kernel)
      /\ Grown(table[p].kernel)
  BY <1>2 DEF TableTypes, Kind
<1>7. /\ frame[p] /\ Leaves(table[p].user) = User \cup UserPages(sz[p])
      /\ Leaves(table[p].kernel) = Kernel(p) \cup UserPages(sz[p])
      /\ <<>> \in table[p].kernel
  BY <1>1, <1>5 DEF UsedOK
<1>8. \A x \in g : /\ x \in table[p].user /\ x \in table[p].kernel
                   /\ x \in Mapping /\ x \notin User /\ x \notin Kernel(p)
  <2>1. \A x \in g : x \in UserPages(sz[p])
    BY <1>g
  <2> QED BY <1>4, <1>7, <2>1, Regions DEF Leaves, Kernel
<1>u. PICK u : u = table[p].user \ g
  OBVIOUS
<1>k. PICK k : k = table[p].kernel \ g
  OBVIOUS
<1>9. /\ u \in SUBSET Position /\ IsFiniteSet(u) /\ Leaves(u) = Leaves(table[p].user) \ g
      /\ PageCount(table[p].user) \in Nat /\ Cardinality(g) \in Nat
      /\ PageCount(u) = PageCount(table[p].user) - Cardinality(g)
  BY <1>6, <1>8, <1>u, RemovePages
<1>10. /\ k \in SUBSET Position /\ IsFiniteSet(k) /\ Leaves(k) = Leaves(table[p].kernel) \ g
       /\ TableCount(table[p].kernel) \in Nat /\ TableCount(k) = TableCount(table[p].kernel)
  BY <1>6, <1>8, <1>k, RemovePages
<1>11. Grown(u) /\ Grown(k)
  BY <1>6, <1>8, <1>u, <1>k, GrownWithout
<1>12. /\ TableTypes' /\ table'[p].user = u /\ table'[p].kernel = k
       /\ table'[p].new = table[p].new
       /\ \A s \in Slot : s # p => table'[s] = table[s]
  <2>1. table \in [Slot -> [Kind -> SUBSET Position]]
    BY <1>2 DEF TableTypes
  <2>2. /\ table'[p]["user"] = u /\ table'[p]["kernel"] = k
        /\ table'[p]["new"] = table[p]["new"]
        /\ \A s \in Slot : s # p => table'[s] = table[s]
        /\ table' \in [Slot -> [Kind -> SUBSET Position]]
    BY <1>3, <1>9, <1>10, <1>u, <1>k, <2>1 DEF Kind
  <2>3. \A s \in Slot : \A h \in Kind : Grown(table'[s][h]) /\ IsFiniteSet(table'[s][h])
    <3> TAKE s \in Slot
    <3> TAKE h \in Kind
    <3>1. Grown(table[s][h]) /\ IsFiniteSet(table[s][h])
      BY <1>2 DEF TableTypes
    <3>2. table'[s][h] \in {table[s][h], u, k}
      BY <2>2 DEF Kind
    <3> QED BY <1>9, <1>10, <1>11, <3>1, <3>2
  <2> QED BY <2>2, <2>3 DEF TableTypes
<1>13. CountInv' /\ taken' \in Nat
  <2>1. Moved(p, p, p, p, p)
    <3>1. Finite(table)'
      BY <1>12 DEF TableTypes, Finite, Kind
    <3>2. frame' \in [Slot -> BOOLEAN]
      BY <1>2, <1>3 DEF CallTypes
    <3> QED BY <1>3, <1>12, <3>1, <3>2 DEF Moved
  <2>2. /\ One(frame[p]) \in Nat /\ InHand(stage[p]) \in Nat /\ PageCount(table[p].new) \in Nat
    BY <2>1, CountMoved
  <2>3. Added(p, p, p, p, p) = 0 - Cardinality(g)
    <3>1. One(frame'[p]) = One(frame[p]) /\ InHand(stage'[p]) = InHand(stage[p])
      BY <1>3
    <3>2. /\ PageCount(table'[p].user) = PageCount(u)
          /\ PageCount(table'[p].new) = PageCount(table[p].new)
          /\ TableCount(table'[p].kernel) = TableCount(k)
      BY <1>12
    <3> QED BY <1>9, <1>10, <2>2, <3>1, <3>2 DEF Added
  <2>4. taken' = taken + Added(p, p, p, p, p)
    <3>1. taken \in Nat /\ taken' = taken - Cardinality(g) /\ Cardinality(g) \in Nat
      BY <1>2, <1>3, <1>9
    <3> QED BY <2>3, <3>1
  <2>5. Counted(p, p, p, p, p)
    BY <1>3, <2>1, <2>4 DEF Counted
  <2> QED BY <2>5, CountChanged
<1>14. CallTypes'
  <2>1. sz' \in [Slot -> 0 .. MAXPAGES]
    BY <1>2, <1>3 DEF CallTypes
  <2> QED BY <1>2, <1>3, <2>1 DEF CallTypes
<1>15. sz'[p] = n /\ \A q \in Slot : q # p => sz'[q] = sz[q]
  BY <1>2, <1>3 DEF CallTypes
<1>16. Reaches(p, p)
  BY <1>1, <1>3, <1>12, <1>15 DEF Reaches
<1>17. CallOK(p)' /\ NewOK(p)' /\ ForkOK(p)' /\ EmptyOK(p)'
  <2>1. CallOK(p)'
    BY <1>1, <1>3 DEF CallOK, Stages
  <2> QED BY <1>1, <1>3, <1>12, <2>1 DEF NewOK, ForkOK, EmptyOK
<1>18. UsedOK(p)'
  <2>1. UserPages(n) \subseteq UserPages(sz[p])
    BY <1>4, UserPagesGrow
  <2>2. Leaves(u) = User \cup UserPages(n)
    BY <1>7, <1>8, <1>9, <1>g, <2>1
  <2>3. Leaves(k) = Kernel(p) \cup UserPages(n)
    BY <1>7, <1>8, <1>10, <1>g, <2>1
  <2>4. <<>> \in k
    <3>1. <<>> \notin g
      <4>1. \A x \in g : Len(x) = 3
        BY <1>8, PositionLength
      <4>2. Len(<<>>) = 0
        OBVIOUS
      <4> QED BY <4>1, <4>2
    <3> QED BY <1>7, <1>k, <3>1
  <2>5. InUser(p)' = n /\ InKernel(p)' = n
    BY <1>1, <1>3, <1>15 DEF InUser, InKernel
  <2> QED BY <1>3, <1>7, <1>12, <2>2, <2>3, <2>4, <2>5 DEF UsedOK
<1>19. OnlyMemoryPanics' /\ zeroed' \in BOOLEAN
  <2>1. panic' = NULL
    BY <1>3, <1>8
  <2> QED BY <1>2, <1>3, <2>1 DEF OnlyMemoryPanics
<1> QED BY <1>1, <1>12, <1>13, <1>14, <1>16, <1>17, <1>18, <1>19, StepKept

(* exec() takes over the new table.                                        *)
LEMMA ExecCommitKeeps ==
  ASSUME IInv, NEW p \in Slot, ExecCommit(p)
  PROVE  IInv'
<1>1. /\ panic = NULL /\ stage[p] = "mem" /\ i[p] = tgt[p] /\ call[p] = "exec"
      /\ stage[p] # "none"
  BY DEF ExecCommit, Filled, In
<1>2. /\ CallTypes /\ TableTypes /\ taken \in Nat /\ zeroed \in BOOLEAN
      /\ CountInv /\ Finite(table) /\ SInv
  BY <1>1, Typed
<1>c. PICK c \in Slot : c = Worked(p)
  BY <1>1, WorkedFacts
<1>w. /\ c # p => ~used[c]
      /\ \A q \in Slot : q # p => np[q] # c
      /\ np[p] \in {c, NULL}
      /\ call[p] = "fork" => c = np[p] /\ c # p
      /\ call[p] # "fork" => c = p
  BY <1>1, <1>c, WorkedFacts
<1>f. /\ used[p] /\ call[p] \in {"fork", "exec", "grow"} /\ stage[p] \in Stages(call[p])
      /\ \A q \in Slot : np[q] # p
      /\ call[p] # "fork" => np[p] = NULL
      /\ call[p] = "fork" => \A q \in Slot : np[q] = np[p] => q = p
  BY <1>1, CallFacts
<1>k. CallOK(p) /\ UsedOK(p) /\ NewOK(p) /\ ForkOK(p) /\ UsedOK(c) /\ EmptyOK(c) /\ CallOK(c)
  BY <1>2 DEF SInv
<1>g. PICK g : g = UserPages(sz[p])
  OBVIOUS
<1>3. /\ sz' = [sz EXCEPT ![p] = tgt[p]]
      /\ table' = [table EXCEPT ![p].user = table[p].new, ![p].new = {},
                                ![p].kernel = table[p].kernel \ g]
      /\ taken' = taken - FreeTable(table[p].user, sz[p])
      /\ panic' = IF g \subseteq table[p].kernel
                  THEN FreeTablePanic(table[p].user, sz[p]) ELSE "uvmunmap: not mapped"
      /\ stage' = [stage EXCEPT ![p] = "copy"] /\ i' = [i EXCEPT ![p] = 0]
      /\ used' = used /\ frame' = frame /\ call' = call
      /\ tgt' = tgt /\ np' = np /\ zeroed' = zeroed
  BY <1>g DEF ExecCommit, Go
<1>4. sz[p] \in 0 .. MAXPAGES /\ tgt[p] \in 0 .. MAXPAGES
  BY <1>2 DEF CallTypes
<1>6. /\ table[p].user \in SUBSET Position /\ IsFiniteSet(table[p].user)
      /\ table[p].kernel \in SUBSET Position /\ IsFiniteSet(table[p].kernel)
      /\ Grown(table[p].kernel)
      /\ table[p].new \in SUBSET Position /\ IsFiniteSet(table[p].new)
      /\ Grown(table[p].new)
  BY <1>2 DEF TableTypes, Kind
<1>7. /\ frame[p] /\ Leaves(table[p].user) = User \cup UserPages(sz[p])
      /\ Leaves(table[p].kernel) = Kernel(p) \cup UserPages(sz[p])
      /\ <<>> \in table[p].kernel
  <2>1. InUser(p) = sz[p] /\ InKernel(p) = sz[p]
    BY <1>1 DEF InUser, InKernel
  <2> QED BY <1>f, <1>k, <2>1 DEF UsedOK
<1>5. Leaves(table[p].new) = User \cup UserPages(tgt[p])
  BY <1>1, <1>k DEF NewOK, Built
<1>8. \A x \in g : /\ x \in table[p].kernel
                   /\ x \in Mapping /\ x \notin User /\ x \notin Kernel(p)
  BY <1>4, <1>7, <1>g, Regions DEF Leaves, Kernel
<1>h. PICK k : k = table[p].kernel \ g
  OBVIOUS
<1>9. /\ TableCount(table[p].user) \in Nat
      /\ PageCount(table[p].user) = sz[p] + TableCount(table[p].user)
      /\ FreeTablePanic(table[p].user, sz[p]) = NULL
  BY <1>4, <1>6, <1>7, PageCountIs, FreeTableFine
<1>10. /\ k \in SUBSET Position /\ IsFiniteSet(k) /\ Leaves(k) = Leaves(table[p].kernel) \ g
       /\ TableCount(table[p].kernel) \in Nat /\ TableCount(k) = TableCount(table[p].kernel)
  BY <1>6, <1>8, <1>h, RemovePages
<1>11. Grown(k)
  BY <1>6, <1>8, <1>h, GrownWithout
<1>12. /\ TableTypes' /\ table'[p].user = table[p].new /\ table'[p].kernel = k
       /\ table'[p].new = {}
       /\ \A s \in Slot : s # p => table'[s] = table[s]
  <2>1. table \in [Slot -> [Kind -> SUBSET Position]]
    BY <1>2 DEF TableTypes
  <2>2. /\ table'[p]["user"] = table[p]["new"] /\ table'[p]["kernel"] = k
        /\ table'[p]["new"] = {}
        /\ \A s \in Slot : s # p => table'[s] = table[s]
        /\ table' \in [Slot -> [Kind -> SUBSET Position]]
    <3>1. table[p]["new"] \in SUBSET Position /\ {} \in SUBSET Position
      BY <1>6
    <3>2. table' = [table EXCEPT ![p] = [@ EXCEPT !["user"] = table[p]["new"],
                                                  !["new"] = {}, !["kernel"] = k]]
      BY <1>3, <1>h, <2>1
    <3>3. PICK r \in [Kind -> SUBSET Position] :
             r = [table[p] EXCEPT !["user"] = table[p]["new"], !["new"] = {}, !["kernel"] = k]
      BY <1>10, <2>1, <3>1 DEF Kind
    <3>4. r["user"] = table[p]["new"] /\ r["new"] = {} /\ r["kernel"] = k
      BY <2>1, <3>3 DEF Kind
    <3>5. table' = [table EXCEPT ![p] = r]
      BY <2>1, <3>2, <3>3
    <3> QED BY <2>1, <3>4, <3>5
  <2>3. \A s \in Slot : \A h \in Kind : Grown(table'[s][h]) /\ IsFiniteSet(table'[s][h])
    <3> TAKE s \in Slot
    <3> TAKE h \in Kind
    <3>1. Grown(table[s][h]) /\ IsFiniteSet(table[s][h])
      BY <1>2 DEF TableTypes
    <3>2. table'[s][h] \in {table[s][h], table[p].new, k, {}}
      BY <2>2 DEF Kind
    <3> QED BY <1>6, <1>10, <1>11, <3>1, <3>2, NoTable0
  <2> QED BY <2>2, <2>3 DEF TableTypes
<1>13. /\ stage'[p] = "copy" /\ i'[p] = 0 /\ sz'[p] = tgt[p]
       /\ \A q \in Slot : q # p => stage'[q] = stage[q] /\ i'[q] = i[q] /\ sz'[q] = sz[q]
  BY <1>2, <1>3 DEF CallTypes
<1>14. CountInv' /\ taken' \in Nat
  <2>1. Moved(p, p, p, p, p)
    <3>1. Finite(table)'
      BY <1>12 DEF TableTypes, Finite, Kind
    <3>2. frame' \in [Slot -> BOOLEAN]
      BY <1>2, <1>3 DEF CallTypes
    <3> QED BY <1>3, <1>12, <1>13, <3>1, <3>2 DEF Moved
  <2>2. /\ One(frame[p]) \in Nat /\ PageCount(table[p].new) \in Nat
        /\ PageCount(table[p].user) \in Nat
    BY <2>1, CountMoved
  <2>3. InHand(stage[p]) = 0 /\ InHand(stage'[p]) = 0 /\ PageCount(table'[p].new) = 0
    BY <1>1, <1>12, <1>13, NoTableCounts DEF InHand
  <2>4. Added(p, p, p, p, p) = 0 - PageCount(table[p].user)
    <3>1. One(frame'[p]) = One(frame[p])
      BY <1>3
    <3>2. /\ PageCount(table'[p].user) = PageCount(table[p].new)
          /\ TableCount(table'[p].kernel) = TableCount(table[p].kernel)
      BY <1>10, <1>12
    <3> QED BY <1>10, <2>2, <2>3, <3>1, <3>2 DEF Added
  <2>5. FreeTable(table[p].user, sz[p]) = PageCount(table[p].user)
    BY <1>9 DEF FreeTable, TableCount
  <2>6. taken' = taken + Added(p, p, p, p, p)
    <3>1. taken \in Nat /\ taken' = taken - PageCount(table[p].user)
      BY <1>2, <1>3, <2>5
    <3> QED BY <2>2, <2>4, <3>1
  <2>7. Counted(p, p, p, p, p)
    BY <1>3, <2>1, <2>6 DEF Counted
  <2> QED BY <2>7, CountChanged
<1>15. CallTypes'
  <2>1. sz' \in [Slot -> 0 .. MAXPAGES]
    BY <1>2, <1>3, <1>4 DEF CallTypes
  <2>2. i' \in [Slot -> 0 .. MAXPAGES + 6]
    <3>1. 0 \in 0 .. MAXPAGES + 6
      BY MAXPAGESAssumption
    <3>2. i \in [Slot -> 0 .. MAXPAGES + 6]
      BY <1>2 DEF CallTypes
    <3> QED BY <1>3, <3>1, <3>2
  <2>3. stage' \in [Slot -> {"none", "frame", "root", "tramp", "tframe", "kroot",
                             "kmap", "kstack", "mem", "map", "copy"}]
    BY <1>2, <1>3 DEF CallTypes
  <2> QED BY <1>2, <1>3, <2>1, <2>2, <2>3 DEF CallTypes
<1>16. Reaches(p, p)
  BY <1>1, <1>3, <1>12, <1>13, <1>f DEF Reaches
<1>17. CallOK(p)' /\ NewOK(p)' /\ ForkOK(p)' /\ EmptyOK(p)'
  <2>1. CallOK(p)'
    <3>1. /\ used' = used /\ call' = call /\ tgt' = tgt /\ np' = np /\ sz'[p] = tgt[p]
          /\ stage'[p] = "copy" /\ i'[p] = 0
      BY <1>3, <1>13
    <3>2. "copy" \in Stages("exec") /\ 0 \in 0 .. tgt[p]
      BY <1>4, MAXPAGESAssumption DEF Stages
    <3> QED BY <1>1, <1>f, <3>1, <3>2 DEF CallOK
  <2> QED BY <1>1, <1>3, <1>12, <1>13, <1>f, <2>1 DEF NewOK, ForkOK, EmptyOK
<1>18. UsedOK(p)'
  <2>1. InUser(p)' = tgt[p] /\ InKernel(p)' = 0
    BY <1>1, <1>3, <1>13 DEF InUser, InKernel
  <2>2. Leaves(k) = Kernel(p) \cup UserPages(0)
    BY <1>7, <1>8, <1>10, <1>g, NoUserPages
  <2>3. <<>> \in k
    <3>1. <<>> \notin g
      <4>1. \A x \in g : Len(x) = 3
        BY <1>8, PositionLength
      <4>2. Len(<<>>) = 0
        OBVIOUS
      <4> QED BY <4>1, <4>2
    <3> QED BY <1>7, <1>h, <3>1
  <2> QED BY <1>3, <1>5, <1>7, <1>12, <2>1, <2>2, <2>3 DEF UsedOK
<1>19. OnlyMemoryPanics' /\ zeroed' \in BOOLEAN
  <2>1. panic' = NULL
    BY <1>3, <1>8, <1>9
  <2> QED BY <1>2, <1>3, <2>1 DEF OnlyMemoryPanics
<1> QED BY <1>1, <1>12, <1>14, <1>15, <1>16, <1>17, <1>18, <1>19, <1>f, StepKept

-----------------------------------------------------------------------------
(* The initial state                                                       *)

(* The position of a leaf is not that of a table: the lengths differ.      *)
LEMMA Lengths ==
  ASSUME NEW y, Len(y) = 3
  PROVE  \A a, b : y # <<>> /\ y # <<a>> /\ y # <<a, b>>
<1> TAKE a, b
<1>1. Len(<<>>) = 0
  OBVIOUS
<1>2. Len(<<a>>) = 1
  OBVIOUS
<1>3. Len(<<a, b>>) = 2
  OBVIOUS
<1>4. y # <<>>
  BY <1>1
<1>5. ASSUME y = <<a>> PROVE FALSE
  BY <1>2, <1>5
<1>6. ASSUME y = <<a, b>> PROVE FALSE
  BY <1>3, <1>6
<1> QED BY <1>4, <1>5, <1>6

(* The page table in which the given pages are mapped.                     *)
LEMMA ClosedFacts ==
  ASSUME NEW L, IsFiniteSet(L), \A x \in L : x \in Mapping
  PROVE  /\ Closed(L) \in SUBSET Position /\ Grown(Closed(L)) /\ IsFiniteSet(Closed(L))
         /\ Leaves(Closed(L)) = L
         /\ L # {} => <<>> \in Closed(L)
<1>1. \A x \in L : /\ x \in Position /\ Len(x) = 3
                   /\ <<>> \in Position /\ <<x[1]>> \in Position
                   /\ <<x[1], x[2]>> \in Position
  <2> TAKE x \in L
  <2>1. x \in Position /\ Len(x) = 3 /\ x \in Seq(Int)
    BY DEF Mapping, Position
  <2>2. 1 \in 1 .. Len(x) /\ 2 \in 1 .. Len(x)
    BY <2>1
  <2>3. x[1] \in Int /\ x[2] \in Int
    BY <2>1, <2>2, ElementOfSeq
  <2>4. \A a, b \in Int : /\ <<>> \in Seq(Int) /\ <<a>> \in Seq(Int) /\ <<a, b>> \in Seq(Int)
                          /\ Len(<<>>) <= 3 /\ Len(<<a>>) <= 3 /\ Len(<<a, b>>) <= 3
    OBVIOUS
  <2> QED BY <2>1, <2>3, <2>4 DEF Position
<1>2. \A y \in Closed(L) : \E x \in L : y \in {<<>>, <<x[1]>>, <<x[1], x[2]>>, x}
  BY DEF Closed
<1>3. \A x \in L : /\ <<>> \in Closed(L) /\ <<x[1]>> \in Closed(L)
                   /\ <<x[1], x[2]>> \in Closed(L) /\ x \in Closed(L)
  BY DEF Closed
<1>4. Closed(L) \in SUBSET Position
  BY <1>1, <1>2
<1>5. Grown(Closed(L))
  <2>1. ASSUME NEW y \in Closed(L), Len(y) \in {2, 3} PROVE <<y[1]>> \in Closed(L)
    <3>1. PICK x \in L : y \in {<<>>, <<x[1]>>, <<x[1], x[2]>>, x}
      BY <1>2
    <3>2. Len(<<>>) = 0 /\ Len(<<x[1]>>) = 1
      OBVIOUS
    <3>3. y = <<x[1], x[2]>> \/ y = x
      BY <2>1, <3>1, <3>2
    <3>4. <<y[1]>> = <<x[1]>>
      BY <3>3
    <3> QED BY <1>3, <3>4
  <2>2. ASSUME NEW y \in Closed(L), Len(y) = 3 PROVE <<y[1], y[2]>> \in Closed(L)
    <3>1. PICK x \in L : y \in {<<>>, <<x[1]>>, <<x[1], x[2]>>, x}
      BY <1>2
    <3>2. y # <<>> /\ y # <<x[1]>> /\ y # <<x[1], x[2]>>
      BY <2>2, Lengths
    <3>3. y = x
      BY <3>1, <3>2
    <3> QED BY <1>3, <3>3
  <2> QED BY <2>1, <2>2 DEF Grown
<1>6. Leaves(Closed(L)) = L
  <2>1. ASSUME NEW y \in Closed(L), Len(y) = 3 PROVE y \in L
    <3>1. PICK x \in L : y \in {<<>>, <<x[1]>>, <<x[1], x[2]>>, x}
      BY <1>2
    <3>2. y # <<>> /\ y # <<x[1]>> /\ y # <<x[1], x[2]>>
      BY <2>1, Lengths
    <3> QED BY <3>1, <3>2
  <2>2. \A x \in L : x \in Closed(L) /\ Len(x) = 3
    BY <1>1, <1>3
  <2> QED BY <2>1, <2>2 DEF Leaves
<1>7. IsFiniteSet(Closed(L))
  <2> DEFINE Way(x) == {<<>>, <<x[1]>>, <<x[1], x[2]>>, x}
             F == {Way(x) : x \in L}
             f == [x \in L |-> Way(x)]
  <2>1. f \in Surjection(L, F)
    BY DEF Surjection
  <2>2. IsFiniteSet(F)
    BY <2>1, FS_Surjection
  <2>3. \A x \in L : IsFiniteSet(Way(x))
    <3> TAKE x \in L
    <3>1. IsFiniteSet({<<>>})
      BY FS_Singleton
    <3>2. IsFiniteSet({<<>>} \cup {<<x[1]>>})
      BY <3>1, FS_AddElement
    <3>3. IsFiniteSet({<<>>} \cup {<<x[1]>>} \cup {<<x[1], x[2]>>})
      BY <3>2, FS_AddElement
    <3>4. IsFiniteSet({<<>>} \cup {<<x[1]>>} \cup {<<x[1], x[2]>>} \cup {x})
      BY <3>3, FS_AddElement
    <3>5. Way(x) = {<<>>} \cup {<<x[1]>>} \cup {<<x[1], x[2]>>} \cup {x}
      OBVIOUS
    <3> QED BY <3>4, <3>5
  <2>4. \A T \in F : IsFiniteSet(T)
    BY <2>3
  <2>5. Closed(L) = UNION F
    BY DEF Closed
  <2> HIDE DEF F
  <2> QED BY <2>2, <2>4, <2>5, FS_UNION
<1> QED BY <1>3, <1>4, <1>5, <1>6, <1>7

(* The kernel's mappings are finitely many.                                *)
LEMMA KernelFinite ==
  ASSUME NEW s \in Slot
  PROVE  IsFiniteSet(Kernel(s))
<1> DEFINE f == [j \in 1 .. 6 |-> KernelMap[j]]
<1>1. ToSet(KernelMap) = {KernelMap[j] : j \in 1 .. 6}
  BY KernelMapEntries
<1>2. f \in Surjection(1 .. 6, ToSet(KernelMap))
  BY <1>1 DEF Surjection
<1>3. IsFiniteSet(1 .. 6)
  <2>1. 1 \in Int /\ 6 \in Int
    OBVIOUS
  <2> QED BY <2>1, FS_Interval
<1>4. IsFiniteSet(ToSet(KernelMap))
  BY <1>2, <1>3, FS_Surjection
<1> QED BY <1>4, FS_AddElement DEF Kernel

(* Slots that hold nothing count nothing.                                  *)
LEMMA NothingHeld ==
  ASSUME NEW fr, NEW st, NEW tb,
         \A s \in Slot : /\ fr[s] = FALSE /\ st[s] = "none"
                         /\ tb[s].user = {} /\ tb[s].new = {} /\ tb[s].kernel = {}
  PROVE  Count(fr, st, tb) = 0
<1>1. \A q \in Slot \X Place : Hold(fr, st, tb)[q] = {}
  <2> SUFFICES ASSUME NEW s \in Slot, NEW k \in Place
               PROVE  Hold(fr, st, tb)[<<s, k>>] = {}
    OBVIOUS
  <2>1. /\ fr[s] = FALSE /\ st[s] # "map" /\ tb[s].user \ User = {}
        /\ tb[s].new \ User = {} /\ TablePages(tb[s].kernel) = {}
    BY DEF TablePages
  <2>2. CASE k = "frame"
    BY <2>1, <2>2 DEF Hold, Place
  <2>3. CASE k = "mem"
    BY <2>1, <2>3 DEF Hold, Place
  <2>4. CASE k = "user"
    BY <2>1, <2>4 DEF Hold, Place
  <2>5. CASE k = "new"
    BY <2>1, <2>5 DEF Hold, Place
  <2>6. CASE k = "kernel"
    BY <2>1, <2>6 DEF Hold, Place
  <2> QED BY <2>2, <2>3, <2>4, <2>5, <2>6 DEF Place
<1>2. Pairs(Hold(fr, st, tb), Slot \X Place) = {}
  BY <1>1 DEF Pairs
<1> QED BY <1>2, FS_EmptySet DEF Count

(* The first process: one page, and the two tables that userinit() built.  *)
LEMMA InitInvariant ==
  ASSUME Init
  PROVE  IInv
<1>1. PICK user, kernel : user = UserTable(1) /\ kernel = KernelTable(1, 1)
  OBVIOUS
<1>2. /\ used = [s \in Slot |-> s = 1] /\ sz = [s \in Slot |-> IF s = 1 THEN 1 ELSE 0]
      /\ frame = [s \in Slot |-> s = 1]
      /\ table = [s \in Slot |-> [user |-> IF s = 1 THEN user ELSE {},
                                  kernel |-> IF s = 1 THEN kernel ELSE {},
                                  new |-> {}]]
      /\ call = [s \in Slot |-> "none"] /\ stage = [s \in Slot |-> "none"]
      /\ i = [s \in Slot |-> 0] /\ tgt = [s \in Slot |-> 0] /\ np = [s \in Slot |-> NULL]
      /\ taken = 2 + TableCount(user) + TableCount(kernel)
      /\ zeroed = FALSE /\ panic = NULL
  BY <1>1 DEF Init, initproc, TableCount
<1>3. 1 \in Slot /\ NULL \notin Slot /\ 1 \in 0 .. MAXPAGES /\ 0 \in 0 .. MAXPAGES
  <2>1. 96 * PERTABLE \in Nat
    BY PERTABLEAssumption
  <2> QED BY <2>1, NPROCAssumption, NULLAssumption, MAXPAGESAssumption DEF Slot
<1>4. IsFiniteSet(User \cup UserPages(1)) /\ IsFiniteSet(Kernel(1) \cup UserPages(1))
  <2>1. IsFiniteSet({TRAMPOLINE})
    BY FS_Singleton
  <2>2. IsFiniteSet({TRAMPOLINE} \cup {TRAPFRAME})
    BY <2>1, FS_AddElement
  <2>3. User = {TRAMPOLINE} \cup {TRAPFRAME}
    BY DEF User
  <2>4. IsFiniteSet(UserPages(1))
    BY UserPagesCount
  <2>5. IsFiniteSet(Kernel(1))
    BY <1>3, KernelFinite
  <2> QED BY <2>2, <2>3, <2>4, <2>5, FS_Union
<1>5. /\ \A x \in User \cup UserPages(1) : x \in Mapping
      /\ \A x \in Kernel(1) \cup UserPages(1) : x \in Mapping
  BY <1>3, Regions DEF User, Kernel
<1>6. user = Closed(User \cup UserPages(1)) /\ kernel = Closed(Kernel(1) \cup UserPages(1))
  BY <1>1 DEF UserTable, KernelTable, User, Kernel
<1>7. /\ user \in SUBSET Position /\ Grown(user) /\ IsFiniteSet(user)
      /\ Leaves(user) = User \cup UserPages(1)
  BY <1>4, <1>5, <1>6, ClosedFacts
<1>8. /\ kernel \in SUBSET Position /\ Grown(kernel) /\ IsFiniteSet(kernel)
      /\ Leaves(kernel) = Kernel(1) \cup UserPages(1) /\ <<>> \in kernel
  <2>1. Kernel(1) \cup UserPages(1) # {}
    BY DEF Kernel
  <2> QED BY <1>4, <1>5, <1>6, <2>1, ClosedFacts
<1>9. /\ TableCount(user) \in Nat /\ PageCount(user) = 1 + TableCount(user)
      /\ TableCount(kernel) \in Nat
  <2>1. TableCount(user) \in Nat /\ PageCount(user) = 1 + TableCount(user)
    BY <1>3, <1>7, PageCountIs
  <2>2. TableCount(kernel) \in Nat
    <3>1. TablePages(kernel) \in SUBSET kernel
      BY DEF TablePages
    <3> QED BY <1>8, <3>1, FS_Subset, FS_CardinalityType DEF TableCount
  <2> QED BY <2>1, <2>2
<1>10. /\ table[1].user = user /\ table[1].kernel = kernel
       /\ \A s \in Slot : /\ table[s].new = {}
                          /\ s # 1 => table[s].user = {} /\ table[s].kernel = {}
  BY <1>2, <1>3
<1>11. CallTypes
  BY <1>2, <1>3, MAXPAGESAssumption DEF CallTypes
<1>12. TableTypes
  <2>1. \A s \in Slot : table[s] \in [Kind -> SUBSET Position]
    BY <1>2, <1>7, <1>8 DEF Kind
  <2>2. table \in [Slot -> [Kind -> SUBSET Position]]
    BY <1>2, <2>1
  <2>3. \A s \in Slot : \A k \in Kind : Grown(table[s][k]) /\ IsFiniteSet(table[s][k])
    <3> TAKE s \in Slot
    <3> TAKE k \in Kind
    <3>1. table[s][k] \in {user, kernel, {}}
      BY <1>2 DEF Kind
    <3> QED BY <1>7, <1>8, <3>1, NoTable0
  <2> QED BY <2>2, <2>3 DEF TableTypes
<1>13. taken \in Nat /\ zeroed \in BOOLEAN /\ OnlyMemoryPanics
  <2>1. taken \in Nat
    BY <1>2, <1>9
  <2>2. zeroed \in BOOLEAN
    BY <1>2
  <2>3. OnlyMemoryPanics
    BY <1>2 DEF OnlyMemoryPanics
  <2> QED BY <2>1, <2>2, <2>3
<1>14. TypeOK /\ Finite(table)
  BY <1>11, <1>12, <1>13, TypeParts DEF Types
<1>15. taken = Cardinality(Held)
  <2>1. PICK fr, st, tb :
          /\ fr = [s \in Slot |-> FALSE] /\ st = [s \in Slot |-> "none"]
          /\ tb = [s \in Slot |-> [user |-> {}, kernel |-> {}, new |-> {}]]
    OBVIOUS
  <2>2. PICK fq, sq, tq : fq = frame /\ sq = stage /\ tq = table
    OBVIOUS
  <2>3. Count(fr, st, tb) = 0
    BY <2>1, NothingHeld
  <2>4. Near(fr, st, tb, fq, sq, tq, 1, 1, 1, 1, 1)
    <3>1. Finite(tb)
      BY <2>1, FS_EmptySet DEF Finite
    <3>2. fr \in [Slot -> BOOLEAN] /\ fq \in [Slot -> BOOLEAN]
      BY <1>2, <2>1, <2>2
    <3>3. \A s \in Slot : s # 1 => fq[s] = fr[s]
      BY <1>2, <2>1, <2>2
    <3>4. \A s \in Slot : sq[s] = "map" <=> st[s] = "map"
      BY <1>2, <2>1, <2>2
    <3>5. \A s \in Slot : s # 1 => /\ tq[s].user = tb[s].user
                                   /\ tq[s].new = tb[s].new
                                   /\ tq[s].kernel = tb[s].kernel
      BY <1>10, <2>1, <2>2
    <3> QED BY <1>14, <2>2, <3>1, <3>2, <3>3, <3>4, <3>5 DEF Near
  <2>5. Balanced(fr, st, tb, fq, sq, tq, 1, 1, 1, 1, 1)
    BY <1>3, <2>4, Balance
  <2>6. /\ One(fr[1]) = 0 /\ One(fq[1]) = 1 /\ InHand(st[1]) = 0 /\ InHand(sq[1]) = 0
    BY <1>2, <1>3, <2>1, <2>2 DEF One, InHand
  <2>7. /\ tb[1].user = {} /\ tb[1].new = {} /\ tb[1].kernel = {} /\ tq[1].new = {}
        /\ tq[1].user = user /\ tq[1].kernel = kernel
    BY <1>3, <1>10, <2>1, <2>2
  <2>8. Count(fq, sq, tq) = 1 + PageCount(user) + TableCount(kernel)
    BY <1>9, <2>3, <2>5, <2>6, <2>7, NoTableCounts DEF Balanced
  <2> QED BY <1>2, <1>9, <2>2, <2>8, HeldCount
<1>16. CountInv
  BY <1>13, <1>15 DEF CountInv
<1>17. SInv
  <2> SUFFICES ASSUME NEW s \in Slot
               PROVE  CallOK(s) /\ UsedOK(s) /\ NewOK(s) /\ ForkOK(s) /\ EmptyOK(s)
    BY DEF SInv
  <2>1. call[s] = "none" /\ stage[s] = "none" /\ np[s] = NULL
    BY <1>2
  <2>2. CallOK(s) /\ ForkOK(s) /\ NewOK(s)
    BY <1>10, <2>1 DEF CallOK, ForkOK, NewOK, Stages
  <2>3. CASE s = 1
    <3>1. used[s] /\ frame[s] /\ InUser(s) = 1 /\ InKernel(s) = 1
      BY <1>2, <2>1, <2>3 DEF InUser, InKernel
    <3> QED BY <1>7, <1>8, <1>10, <2>2, <2>3, <3>1 DEF UsedOK, EmptyOK
  <2>4. CASE s # 1
    <3>1. ~used[s] /\ ~frame[s]
      BY <1>2, <2>4
    <3> QED BY <1>10, <2>2, <2>4, <3>1 DEF UsedOK, EmptyOK
  <2> QED BY <2>3, <2>4
<1> QED BY <1>13, <1>14, <1>16, <1>17 DEF IInv

(* A step that changes nothing keeps the invariant.                        *)
LEMMA StutterKeeps ==
  ASSUME IInv, UNCHANGED vars
  PROVE  IInv'
<1>1. /\ used' = used /\ sz' = sz /\ frame' = frame /\ table' = table /\ call' = call
      /\ stage' = stage /\ i' = i /\ tgt' = tgt /\ np' = np /\ taken' = taken
      /\ zeroed' = zeroed /\ panic' = panic
  BY DEF vars
<1>2. CountInv' /\ taken' \in Nat
  BY <1>1, CountSame
<1>3. TypeOK' /\ OnlyMemoryPanics' /\ Finite(table)'
  BY <1>1 DEF IInv, TypeOK, OnlyMemoryPanics
<1>4. panic = NULL => SInv'
  <2> SUFFICES ASSUME panic = NULL, NEW s \in Slot
               PROVE  (CallOK(s) /\ UsedOK(s) /\ NewOK(s) /\ ForkOK(s) /\ EmptyOK(s))'
    BY DEF SInv
  <2>1. CallOK(s) /\ UsedOK(s) /\ NewOK(s) /\ ForkOK(s) /\ EmptyOK(s)
    BY DEF IInv, SInv
  <2>2. CallOK(s)' /\ NewOK(s)' /\ EmptyOK(s)'
    BY <1>1, <2>1 DEF CallOK, NewOK, EmptyOK
  <2>3. UsedOK(s)'
    BY <1>1, <2>1 DEF UsedOK, InUser, InKernel
  <2>4. ForkOK(s)'
    BY <1>1, <2>1 DEF ForkOK, FilledOK
  <2> QED BY <2>2, <2>3, <2>4
<1> QED BY <1>1, <1>2, <1>3, <1>4 DEF IInv

(* Every step keeps it: one lemma for each action.                         *)
LEMMA NextKeeps ==
  ASSUME IInv, Next
  PROVE  IInv'
<1> PICK p \in Slot :
      \/ \E c \in Slot : ForkEnter(p, c)
      \/ \E n \in Images : ExecEnter(p, n)
      \/ \E n \in 0 .. MAXPAGES : GrowEnter(p, n) \/ Shrink(p, n)
      \/ Take(p) \/ Fail(p)
      \/ CopyBegin(p) \/ ExecCommit(p) \/ CallDone(p) \/ FreeProc(p)
  BY DEF Next
<1>1. CASE \E c \in Slot : ForkEnter(p, c)
  BY <1>1, ForkEnterKeeps
<1>2. CASE \E n \in Images : ExecEnter(p, n)
  BY <1>2, ExecEnterKeeps
<1>3. CASE \E n \in 0 .. MAXPAGES : GrowEnter(p, n) \/ Shrink(p, n)
  BY <1>3, GrowEnterKeeps, ShrinkKeeps
<1>4. CASE Take(p)
  BY <1>4, TakeFrameKeeps, TakeRootKeeps, TakeTableKeeps, TakePageKeeps, MapPageKeeps
     DEF Take
<1>5. CASE Fail(p)
  BY <1>5, NoFrameKeeps, NoTableKeeps, NoKernelRootKeeps, RootWasNullKeeps,
     NoTablePanicsKeeps, ForkNoPageKeeps, GrowNoPageKeeps, ExecBadKeeps
     DEF Fail
<1>6. CASE CopyBegin(p) \/ ExecCommit(p) \/ CallDone(p) \/ FreeProc(p)
  BY <1>6, CopyBeginKeeps, ExecCommitKeeps, CallDoneKeeps, FreeProcKeeps
<1> QED BY <1>1, <1>2, <1>3, <1>4, <1>5, <1>6

-----------------------------------------------------------------------------
(* The theorems                                                            *)

(* The inductive invariant holds: the stage that a call has reached says   *)
(* what is in the page tables that it works on, every other process has    *)
(* what it needs, and the pages that are out are those that the slots hold.*)
THEOREM Invariance == Spec => []IInv
<1>1. Init => IInv
  BY InitInvariant
<1>2. IInv /\ [Next]_vars => IInv'
  BY NextKeeps, StutterKeeps
<1> QED BY <1>1, <1>2, PTL DEF Spec

(* The variables have their types, and every page table is a tree.         *)
THEOREM TypeCorrectness == Spec => []TypeOK
<1>1. IInv => TypeOK
  BY DEF IInv
<1> QED BY <1>1, Invariance, PTL

(* Whatever allocation of fork(), exec() or sbrk() fails, and however the  *)
(* calls of different processes interleave, the pages that kalloc() gave   *)
(* out are exactly those that the processes hold: no page is lost, none is *)
(* given back twice.                                                       *)
THEOREM Conservation == Spec => []PagesConserved
<1>1. IInv => PagesConserved
  BY DEF IInv, CountInv, PagesConserved
<1> QED BY <1>1, Invariance, PTL

(* mappages(), uvmunmap() and freewalk() never find a page table in a      *)
(* state that they panic at: a full memory is the only reason to stop.     *)
THEOREM OnlyForWantOfMemory == Spec => []OnlyMemoryPanics
<1>1. IInv => OnlyMemoryPanics
  BY DEF IInv
<1> QED BY <1>1, Invariance, PTL

(* No slot is left half made: a process in user space has both its page    *)
(* tables complete and equal in the user pages, and a slot that is UNUSED  *)
(* and not being filled holds no page.                                     *)
THEOREM NoneHalfMade == Spec => []WholeOrEmpty
<1>1. ASSUME IInv PROVE WholeOrEmpty
  <2> SUFFICES ASSUME panic = NULL, NEW s \in Slot
               PROVE  /\ Idle(s) =>
                           /\ frame[s]
                           /\ Leaves(table[s].user) = User \cup UserPages(sz[s])
                           /\ Leaves(table[s].kernel)
                                = ToSet(KernelMap) \cup {KSTACK(s)} \cup UserPages(sz[s])
                      /\ ~used[s] /\ (\A q \in Slot : np[q] # s) =>
                           \A place \in Place : Holds(s, place) = {}
    BY DEF WholeOrEmpty, User
  <2>1. SInv
    BY <1>1 DEF IInv
  <2>2. CallOK(s) /\ UsedOK(s) /\ NewOK(s) /\ EmptyOK(s)
    BY <2>1 DEF SInv
  <2>3. ASSUME Idle(s)
        PROVE  /\ frame[s]
               /\ Leaves(table[s].user) = User \cup UserPages(sz[s])
               /\ Leaves(table[s].kernel) = Kernel(s) \cup UserPages(sz[s])
    <3>1. InUser(s) = sz[s] /\ InKernel(s) = sz[s] /\ used[s]
      BY <1>1, <2>3, IdleFacts
    <3> QED BY <2>2, <3>1 DEF UsedOK
  <2>4. ASSUME ~used[s], \A q \in Slot : np[q] # s, NEW place \in Place
        PROVE  Holds(s, place) = {}
    <3>1. ~frame[s] /\ table[s].user = {} /\ table[s].kernel = {}
      BY <2>2, <2>4 DEF EmptyOK
    <3>2. call[s] = "none" /\ stage[s] = "none"
      <4>1. call[s] \in {"none", "fork", "exec", "grow"}
        BY <1>1, Typed DEF CallTypes
      <4> QED BY <2>2, <2>4, <4>1 DEF CallOK, Stages
    <3>3. table[s].new = {}
      BY <2>2, <3>2 DEF NewOK
    <3>4. TablePages({}) = {}
      BY DEF TablePages
    <3> QED BY <3>1, <3>2, <3>3, <3>4 DEF Holds, Place
  <2> QED BY <2>3, <2>4 DEF Kernel
<1> QED BY <1>1, Invariance, PTL
=============================================================================
