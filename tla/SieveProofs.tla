---------------------------- MODULE SieveProofs -----------------------------
(***************************************************************************)
(* Proofs about Sieve, for any LIMIT that fits a byte and pipes of any     *)
(* size: the chain of processes prints the smallest primes in order, the   *)
(* descriptors suffice, the processes never all wait for each other, every *)
(* step brings the end nearer, and main() ends last with all the primes    *)
(* printed.                                                                *)
(***************************************************************************)
EXTENDS Sieve, SequenceTheorems, FiniteSetTheorems, WellFoundedInduction, TLAPS

-----------------------------------------------------------------------------
(* The inductive invariant                                                 *)

(* The 0 comes after every number: it counts as LIMIT.                     *)
Rank(v) == IF v = 0 THEN LIMIT ELSE v

(* The numbers that none of the stages before k sieves out, and the 0.     *)
Survives(k, x) == x = LIMIT \/ \A j \in 1 .. k - 1 : x % num[j] # 0

(* Process k has received everything up to Got(k), and what of it survives *)
(* up to Sent(k) it has sent on.                                           *)
Got(k) ==
  IF pc[k] \in {"none", "closewrite", "first"} THEN 1
  ELSE IF pc[k] \in {"zero", "wait", "exit"} THEN LIMIT
  ELSE IF pc[k] = "test" THEN Rank(n[k])
  ELSE IF n[k] = 0 THEN num[k] ELSE n[k]

Sent(k) ==
  IF k = 0 THEN IF pc[k] \in {"wait", "exit"} THEN LIMIT ELSE n[k] - 1
  ELSE IF pc[k] \in {"test", "zero"} THEN Got(k) - 1 ELSE Got(k)

(* What is in the pipe to process k.                                       *)
InFlight(k) ==
  {x \in 2 .. LIMIT : Survives(k, x) /\ Got(k) < x /\ x <= Sent(k - 1)}

(* s holds the elements of R in ascending order.                           *)
Lists(s, R) ==
  /\ s \in Seq(Number)
  /\ \A i, j \in 1 .. Len(s) : i < j => Rank(s[i]) < Rank(s[j])
  /\ \A x : x \in R <=> \E j \in 1 .. Len(s) : x = Rank(s[j])

Early  == {"none", "closewrite", "first"}
Parent == {"closeread", "feed", "read", "test", "zero", "wait"}

Forked(k) ==
  \/ pc[k] \in Parent
  \/ pc[k] = "exit" /\ (k = 0 \/ num[k] # 0)

HasPrinted(k) ==
  num[k] # 0 /\ pc[k] \in {"pipe", "fork", "exit"} \cup Parent

TypeInv ==
  /\ pc \in [Process -> Labels]
  /\ num \in [Process -> Number]
  /\ n \in [Process -> 0 .. LIMIT]
  /\ pipe \in [Process -> Seq(Number)]
  /\ \A k \in Process : Len(pipe[k]) <= PIPESIZE
  /\ fds \in [Process -> Nat]
  /\ printed \in Seq(Number)

(* What a process does depends on whether it is main(); one that has been  *)
(* forked has all those before it as ancestors, and a parent ends after    *)
(* its child.                                                              *)
ChainInv ==
  /\ pc[0] \in {"pipe", "fork", "closeread", "feed", "zero", "wait", "exit"}
  /\ \A k \in Process \ {0} : pc[k] # "feed"
  /\ \A k \in Process : Forked(k) => k + 1 \in Process /\ pc[k + 1] # "none"
  /\ \A j, k \in Process : j < k /\ pc[k] # "none" => Forked(j)
  /\ \A k \in Process :
       Forked(k) /\ pc[k] = "exit" => pc[k + 1] = "exit"

NInv ==
  /\ n[0] >= 2
  /\ pc[0] \in {"pipe", "fork", "closeread"} => n[0] = 2
  /\ pc[0] = "feed" => n[0] < LIMIT
  /\ pc[0] = "zero" => n[0] = LIMIT
  /\ \A k \in Process \ {0} :
       /\ pc[k] \in Early \cup {"print", "pipe", "fork", "closeread"} => n[k] = 0
       /\ n[k] # 0 => n[k] \in 2 .. LIMIT - 1 /\ Survives(k, n[k])
       /\ pc[k] = "zero" => n[k] = 0

(* A stage's number is the smallest that survives the stages before it; a  *)
(* stage that ends without one has found that nothing does.                *)
NumInv ==
  /\ num[0] = 0
  /\ \A k \in Process \ {0} :
       /\ pc[k] \in Early => num[k] = 0
       /\ pc[k] \notin Early \cup {"exit"} => num[k] # 0
       /\ pc[k] = "exit" /\ num[k] = 0 =>
            \A x \in 2 .. LIMIT : Survives(k, x) => x = LIMIT
       /\ num[k] # 0 =>
            /\ num[k] \in 2 .. LIMIT - 1
            /\ Survives(k, num[k])
            /\ \A x \in 2 .. LIMIT : Survives(k, x) => num[k] <= x

PipeInv ==
  \A k \in Process : IF k = 0 \/ pc[k] = "none"
                     THEN pipe[k] = <<>>
                     ELSE Lists(pipe[k], InFlight(k))

(* A stage has not received what the one before it has not sent on.        *)
OrderInv ==
  \A k \in Process \ {0} : pc[k] # "none" => Got(k) <= Sent(k - 1)

PrintedInv ==
  /\ Len(printed) \in Process
  /\ \A k \in Process \ {0} : k <= Len(printed) <=> HasPrinted(k)
  /\ \A k \in 1 .. Len(printed) : printed[k] = num[k]

FdsInv ==
  \A k \in Process :
    /\ pc[k] = "none" => fds[k] = 0
    /\ pc[k] \in {"first", "print", "pipe"} => fds[k] = k + 3
    /\ pc[k] = "closewrite" => fds[k] = k + 4
    /\ pc[k] \in {"fork", "closeread"} => fds[k] = k + 5
    /\ pc[k] \notin {"fork", "closeread"} => fds[k] <= k + 4

IInv == /\ TypeInv /\ ChainInv /\ NInv /\ NumInv
        /\ PipeInv /\ OrderInv /\ PrintedInv /\ FdsInv

-----------------------------------------------------------------------------
(* Division                                                                *)

(* With the quotient and the remainder of x at hand.                       *)
LEMMA DivMod ==
  ASSUME NEW x \in Nat, NEW a \in Nat \ {0}
  PROVE  /\ x \div a \in Nat
         /\ x % a \in 0 .. a - 1
         /\ x = (x \div a) * a + (x % a)
OBVIOUS

(* A multiple of a leaves no remainder.                                    *)
LEMMA MultipleMod ==
  ASSUME NEW t \in Nat, NEW a \in Nat \ {0}
  PROVE  (t * a) % a = 0
<1>1. PICK x \in Nat : x = t * a
  OBVIOUS
<1>2. PICK q \in Nat, r \in 0 .. a - 1 : x = q * a + r /\ r = x % a
  BY DivMod
<1>3. CASE q < t
  <2>1. PICK e \in Nat : t = q + e + 1
    <3>1. t - q - 1 \in Nat /\ t = q + (t - q - 1) + 1
      BY <1>3
    <3> QED BY <3>1
  <2>2. t * a = q * a + e * a + a
    BY <2>1
  <2>3. e * a \in Nat
    OBVIOUS
  <2> QED BY <1>1, <1>2, <2>2, <2>3
<1>4. CASE t < q
  <2>1. PICK e \in Nat : q = t + e + 1
    <3>1. q - t - 1 \in Nat /\ q = t + (q - t - 1) + 1
      BY <1>4
    <3> QED BY <3>1
  <2>2. q * a = t * a + e * a + a
    BY <2>1
  <2>3. e * a \in Nat
    OBVIOUS
  <2> QED BY <1>1, <1>2, <2>2, <2>3
<1>5. CASE t = q
  <2>1. x = q * a
    BY <1>1, <1>5
  <2>2. PICK y \in Nat : y = q * a
    OBVIOUS
  <2>3. x = y /\ x = y + r
    BY <1>2, <2>1, <2>2
  <2>4. r = 0
    BY <2>3
  <2> QED BY <1>1, <1>2, <2>4
<1> QED BY <1>3, <1>4, <1>5

(* The quotient when nothing remains.                                      *)
LEMMA Quotient ==
  ASSUME NEW x \in Nat, NEW a \in Nat \ {0}, x % a = 0
  PROVE  \E t \in Nat : x = t * a
<1>1. PICK q \in Nat : x = q * a + (x % a)
  BY DivMod
<1>2. q * a \in Nat
  OBVIOUS
<1>3. x = q * a
  BY <1>1, <1>2
<1> QED BY <1>3

(* A divisor of a divisor is a divisor.                                    *)
LEMMA DividesTransitive ==
  ASSUME NEW x \in Nat, NEW d \in Nat \ {0}, NEW a \in Nat \ {0},
         x % d = 0, d % a = 0
  PROVE  x % a = 0
<1>1. PICK p \in Nat : x = p * d
  BY Quotient
<1>2. PICK q \in Nat : d = q * a
  BY Quotient
<1>3. x = (p * q) * a /\ p * q \in Nat
  BY <1>1, <1>2
<1>4. PICK t \in Nat : t = p * q
  BY <1>3
<1> QED BY <1>3, <1>4, MultipleMod

(* A smaller number is its own remainder.                                  *)
LEMMA ModSmall ==
  ASSUME NEW x \in Nat, NEW a \in Nat \ {0}
  PROVE  x < a => x % a = x
OBVIOUS

(* No number has a remainder of itself.                                    *)
LEMMA ModSelf ==
  ASSUME NEW a \in Nat \ {0}
  PROVE  a % a = 0
OBVIOUS

-----------------------------------------------------------------------------
(* What a pipe holds                                                       *)

(* An empty pipe.                                                          *)
LEMMA ListsNothing == Lists(<<>>, {})
BY EmptySeq DEF Lists

(* A reader takes the smallest element and leaves the others.              *)
LEMMA ListsTail ==
  ASSUME NEW s, NEW R, Lists(s, R), s # <<>>
  PROVE  /\ Head(s) \in Number
         /\ Rank(Head(s)) \in R
         /\ Lists(Tail(s), R \ {Rank(Head(s))})
         /\ \A x \in R \ {Rank(Head(s))} : Rank(Head(s)) < x
<1>1. s \in Seq(Number) /\ Len(s) \in Nat \ {0}
  BY EmptySeq DEF Lists
<1>2. Head(s) = s[1] /\ Head(s) \in Number
  BY <1>1
<1>3. /\ Tail(s) \in Seq(Number)
      /\ Len(Tail(s)) = Len(s) - 1
      /\ \A j \in 1 .. (Len(s) - 1) : Tail(s)[j] = s[j + 1]
  BY <1>1
<1>4. Rank(Head(s)) \in R
  BY <1>1, <1>2 DEF Lists
<1>5. PICK t : t = Tail(s)
  OBVIOUS
<1>6. PICK h : h = Rank(Head(s))
  OBVIOUS
<1>7. \A j \in 2 .. Len(s) : h < Rank(s[j])
  BY <1>1, <1>2, <1>6 DEF Lists
<1>8. \A x \in R \ {h} : \E j \in 2 .. Len(s) : x = Rank(s[j])
  BY <1>1, <1>2, <1>6 DEF Lists
<1>9. \A j \in 2 .. Len(s) : Rank(s[j]) \in Int
  BY <1>1, LIMITAssumption DEF Rank, Number
<1>10. h \in Int
  BY <1>2, <1>6, LIMITAssumption DEF Rank, Number
<1>11. Lists(t, R \ {h})
  <2>1. t \in Seq(Number) /\ Len(t) = Len(s) - 1
    BY <1>3, <1>5
  <2>2. ASSUME NEW i \in 1 .. Len(t), NEW j \in 1 .. Len(t), i < j
        PROVE  Rank(t[i]) < Rank(t[j])
    <3>1. t[i] = s[i + 1] /\ t[j] = s[j + 1]
      BY <1>3, <1>5, <2>1
    <3>2. i + 1 \in 1 .. Len(s) /\ j + 1 \in 1 .. Len(s) /\ i + 1 < j + 1
      BY <1>1, <2>1, <2>2
    <3> QED BY <3>1, <3>2 DEF Lists
  <2>3. ASSUME NEW x \in R \ {h}
        PROVE  \E j \in 1 .. Len(t) : x = Rank(t[j])
    <3>1. PICK j \in 2 .. Len(s) : x = Rank(s[j])
      BY <1>8
    <3>2. j - 1 \in 1 .. Len(t) /\ t[j - 1] = s[j]
      BY <1>1, <1>3, <1>5, <2>1
    <3> QED BY <3>1, <3>2
  <2>4. ASSUME NEW j \in 1 .. Len(t)
        PROVE  Rank(t[j]) \in R \ {h}
    <3>1. j + 1 \in 2 .. Len(s) /\ t[j] = s[j + 1]
      BY <1>1, <1>3, <1>5, <2>1
    <3>2. Rank(s[j + 1]) \in R
      BY <1>1, <3>1 DEF Lists
    <3>3. h < Rank(s[j + 1]) /\ Rank(s[j + 1]) \in Int
      BY <1>7, <1>9, <3>1
    <3>4. Rank(s[j + 1]) # h
      BY <1>10, <3>3
    <3> QED BY <3>1, <3>2, <3>4
  <2>5. \A x : x \in R \ {h} <=> \E j \in 1 .. Len(t) : x = Rank(t[j])
    BY <2>3, <2>4
  <2> QED BY <2>1, <2>2, <2>5 DEF Lists
<1>12. \A x \in R \ {h} : h < x
  BY <1>7, <1>8
<1> QED BY <1>2, <1>4, <1>5, <1>6, <1>11, <1>12

(* A writer adds an element after all the others.                          *)
LEMMA ListsAppend ==
  ASSUME NEW s, NEW R, Lists(s, R), NEW v \in Number,
         \A x \in R : x < Rank(v)
  PROVE  Lists(Append(s, v), R \cup {Rank(v)})
<1>1. s \in Seq(Number) /\ Len(s) \in Nat
  BY DEF Lists
<1>2. PICK t : t = Append(s, v)
  OBVIOUS
<1>3. /\ t \in Seq(Number)
      /\ Len(t) = Len(s) + 1
      /\ t[Len(s) + 1] = v
      /\ \A j \in 1 .. Len(s) : t[j] = s[j]
  BY <1>1, <1>2, AppendProperties
<1>4. \A j \in 1 .. Len(s) : Rank(s[j]) \in R
  BY DEF Lists
<1>5. ASSUME NEW i \in 1 .. Len(t), NEW j \in 1 .. Len(t), i < j
      PROVE  Rank(t[i]) < Rank(t[j])
  <2>1. i \in 1 .. Len(s) /\ t[i] = s[i]
    BY <1>1, <1>3, <1>5
  <2>2. CASE j = Len(s) + 1
    BY <1>3, <1>4, <2>1, <2>2
  <2>3. CASE j # Len(s) + 1
    <3>1. j \in 1 .. Len(s) /\ t[j] = s[j]
      BY <1>1, <1>3, <2>3
    <3> QED BY <1>5, <2>1, <3>1 DEF Lists
  <2> QED BY <2>2, <2>3
<1>6. ASSUME NEW x \in R \cup {Rank(v)}
      PROVE  \E j \in 1 .. Len(t) : x = Rank(t[j])
  <2>1. CASE x = Rank(v)
    <3>1. Len(s) + 1 \in 1 .. Len(t)
      BY <1>1, <1>3
    <3> QED BY <1>3, <2>1, <3>1
  <2>2. CASE x \in R
    <3>1. PICK j \in 1 .. Len(s) : x = Rank(s[j])
      BY <2>2 DEF Lists
    <3>2. j \in 1 .. Len(t) /\ t[j] = s[j]
      BY <1>1, <1>3
    <3> QED BY <3>1, <3>2
  <2> QED BY <2>1, <2>2
<1>7. ASSUME NEW j \in 1 .. Len(t)
      PROVE  Rank(t[j]) \in R \cup {Rank(v)}
  <2>1. CASE j = Len(s) + 1
    BY <1>3, <2>1
  <2>2. CASE j # Len(s) + 1
    <3>1. j \in 1 .. Len(s) /\ t[j] = s[j]
      BY <1>1, <1>3, <2>2
    <3> QED BY <1>4, <3>1
  <2> QED BY <2>1, <2>2
<1>8. \A x : x \in R \cup {Rank(v)} <=> \E j \in 1 .. Len(t) : x = Rank(t[j])
  BY <1>6, <1>7
<1> QED BY <1>2, <1>3, <1>5, <1>8 DEF Lists

-----------------------------------------------------------------------------
(* What the invariant says of the output                                   *)

(* What the proofs use of the constants.                                   *)
LEMMA Constants ==
  LIMIT \in Nat /\ LIMIT >= 3 /\ PIPESIZE \in Nat /\ NOFILE \in Nat
BY LIMITAssumption, PIPESIZEAssumption, NOFILEAssumption

(* The processes are an interval that begins with main().                  *)
LEMMA ProcessFacts ==
  /\ Process \subseteq Nat
  /\ 0 \in Process /\ 1 \in Process
  /\ \A k \in Process : \A j \in 0 .. k : j \in Process
<1>1. PICK m \in Nat : m = LIMIT \div 2
  BY LIMITAssumption
<1>2. Process = 0 .. m + 1
  BY <1>1 DEF Process
<1> QED BY <1>2

(* Every number shown is that of a stage.                                  *)
LEMMA ShownFacts ==
  ASSUME IInv, NEW k \in 1 .. Len(printed)
  PROVE  /\ k \in Process \ {0}
         /\ printed[k] = num[k]
         /\ num[k] \in 2 .. LIMIT - 1
         /\ Survives(k, num[k])
         /\ \A x \in 2 .. LIMIT : Survives(k, x) => num[k] <= x
<1>1. Len(printed) \in Process /\ Len(printed) \in Nat
  BY ProcessFacts DEF IInv, PrintedInv
<1>2. k \in Process \ {0}
  <2>1. k \in 0 .. Len(printed) /\ k # 0
    BY <1>1
  <2> QED BY <1>1, <2>1, ProcessFacts
<1>3. num[k] # 0
  BY <1>1, <1>2 DEF IInv, PrintedInv, HasPrinted
<1>4. printed[k] = num[k]
  BY DEF IInv, PrintedInv
<1> QED BY <1>2, <1>3, <1>4 DEF IInv, NumInv

(* A stage's number is larger than that of the stage before it.            *)
LEMMA ShownAscending ==
  ASSUME IInv, NEW j \in 1 .. Len(printed) - 1
  PROVE  printed[j] < printed[j + 1]
<1>1. Len(printed) \in Nat
  BY ProcessFacts DEF IInv, PrintedInv
<1>2. j \in 1 .. Len(printed) /\ j + 1 \in 1 .. Len(printed)
  BY <1>1
<1>3. /\ printed[j] = num[j] /\ num[j] \in 2 .. LIMIT - 1
      /\ \A x \in 2 .. LIMIT : Survives(j, x) => num[j] <= x
  BY <1>2, ShownFacts
<1>4. /\ printed[j + 1] = num[j + 1]
      /\ num[j + 1] \in 2 .. LIMIT - 1
      /\ Survives(j + 1, num[j + 1])
  BY <1>2, ShownFacts
<1>5. \A i \in 1 .. j : num[j + 1] % num[i] # 0
  <2>1. num[j + 1] # LIMIT
    BY <1>4, Constants
  <2>2. 1 .. (j + 1) - 1 = 1 .. j
    OBVIOUS
  <2> QED BY <1>4, <2>1, <2>2 DEF Survives
<1>6. Survives(j, num[j + 1])
  BY <1>5 DEF Survives
<1>7. num[j] <= num[j + 1]
  BY <1>3, <1>4, <1>6, Constants
<1>8. num[j + 1] % num[j] # 0
  BY <1>5
<1>9. num[j] # num[j + 1]
  BY <1>3, <1>8, Constants, ModSelf
<1> QED BY <1>3, <1>4, <1>7, <1>9, Constants

(* A divisor of a stage's number would have a divisor among the numbers of *)
(* the stages before it.                                                   *)
LEMMA ShownPrime ==
  ASSUME IInv, NEW k \in 1 .. Len(printed)
  PROVE  printed[k] \in Primes
<1>1. /\ k \in Process /\ printed[k] = num[k] /\ num[k] \in 2 .. LIMIT - 1
      /\ Survives(k, num[k])
      /\ \A x \in 2 .. LIMIT : Survives(k, x) => num[k] <= x
  BY ShownFacts
<1>2. ASSUME NEW d \in 2 .. num[k] - 1, num[k] % d = 0
      PROVE  FALSE
  <2>1. d \in 2 .. LIMIT /\ d # LIMIT /\ d < num[k] /\ d \in Nat
    BY <1>1, Constants
  <2>2. ~ Survives(k, d)
    BY <1>1, <2>1
  <2>3. PICK j \in 1 .. k - 1 : d % num[j] = 0
    BY <2>1, <2>2 DEF Survives
  <2>4. j \in 1 .. Len(printed)
    <3>1. Len(printed) \in Nat
      BY ProcessFacts DEF IInv, PrintedInv
    <3> QED BY <3>1
  <2>5. num[j] \in 2 .. LIMIT - 1
    BY <2>4, ShownFacts
  <2>6. num[k] % num[j] = 0
    <3>1. /\ num[k] \in Nat /\ d \in Nat \ {0} /\ num[j] \in Nat \ {0}
      BY <1>1, <2>1, <2>5, Constants
    <3> QED BY <1>2, <2>3, <3>1, DividesTransitive
  <2>7. num[k] # LIMIT
    BY <1>1, Constants
  <2> QED BY <1>1, <2>3, <2>6, <2>7 DEF Survives
<1> QED BY <1>1, <1>2 DEF Primes

(* A prime not shown yet has no divisor among the numbers shown, so that   *)
(* it survives their stages and is none of their smallest.                 *)
LEMMA ShownComplete ==
  ASSUME IInv, NEW m \in Primes, \A j \in 1 .. Len(printed) : printed[j] # m,
         NEW k \in 1 .. Len(printed)
  PROVE  printed[k] < m
<1>1. /\ printed[k] = num[k] /\ num[k] \in 2 .. LIMIT - 1
      /\ \A x \in 2 .. LIMIT : Survives(k, x) => num[k] <= x
  BY ShownFacts
<1>2. m \in 2 .. LIMIT - 1 /\ \A d \in 2 .. m - 1 : m % d # 0
  BY DEF Primes
<1>3. ASSUME NEW j \in 1 .. k - 1
      PROVE  m % num[j] # 0
  <2>1. j \in 1 .. Len(printed)
    <3>1. Len(printed) \in Nat
      BY ProcessFacts DEF IInv, PrintedInv
    <3> QED BY <3>1
  <2>2. printed[j] = num[j] /\ num[j] \in 2 .. LIMIT - 1
    BY <2>1, ShownFacts
  <2>3. num[j] # m
    BY <2>1, <2>2
  <2>4. CASE num[j] < m
    <3>1. num[j] \in 2 .. m - 1
      BY <1>2, <2>2, <2>4, Constants
    <3> QED BY <1>2, <3>1
  <2>5. CASE m < num[j]
    <3>1. m \in Nat /\ num[j] \in Nat \ {0} /\ m # 0
      BY <1>2, <2>2, Constants
    <3> QED BY <2>5, <3>1, ModSmall
  <2> QED BY <1>2, <2>2, <2>3, <2>4, <2>5, Constants
<1>4. Survives(k, m)
  BY <1>3 DEF Survives
<1>5. num[k] <= m
  BY <1>1, <1>2, <1>4, Constants
<1> QED BY <1>1, <1>2, <1>5, Constants

(* The output, from the three facts above.                                 *)
LEMMA IInvPrintsPrimes == IInv => PrintsPrimes
<1> SUFFICES ASSUME IInv PROVE PrintsPrimes
  OBVIOUS
<1> DEFINE shown == {printed[j] : j \in DOMAIN printed}
<1>1. DOMAIN printed = 1 .. Len(printed)
  BY DEF IInv, TypeInv
<1>2. shown \subseteq Primes
  BY <1>1, ShownPrime
<1>3. \A m \in Primes \ shown : \A p \in shown : p < m
  BY <1>1, ShownComplete
<1> QED BY <1>2, <1>3, ShownAscending DEF PrintsPrimes

-----------------------------------------------------------------------------
(* What it says of the descriptors                                         *)

(* What is shown, as a function to the primes, shows none twice.           *)
LEMMA ShownInjection ==
  ASSUME IInv
  PROVE  /\ Len(printed) \in Nat
         /\ Cardinality(1 .. Len(printed)) = Len(printed)
         /\ IsFiniteSet(Primes)
         /\ \E f \in Injection(1 .. Len(printed), Primes) :
              \A j \in 1 .. Len(printed) : f[j] = printed[j]
<1>1. Len(printed) \in Nat
  BY ProcessFacts DEF IInv, PrintedInv
<1>2. IsFiniteSet(Primes)
  <2>1. IsFiniteSet(2 .. LIMIT - 1)
    BY Constants, FS_Interval
  <2>2. Primes \in SUBSET (2 .. LIMIT - 1)
    BY DEF Primes
  <2> QED BY <2>1, <2>2, FS_Subset
<1>3. \A j \in 1 .. Len(printed) : printed[j] = num[j] /\ printed[j] \in 2 .. LIMIT - 1
  BY ShownFacts
<1>4. ASSUME NEW i \in 1 .. Len(printed), NEW j \in 1 .. Len(printed), i < j
      PROVE  printed[i] # printed[j]
  <2>1. Survives(j, num[j]) /\ num[j] \in 2 .. LIMIT - 1
    BY ShownFacts
  <2>2. i \in 1 .. j - 1 /\ num[j] # LIMIT
    BY <1>4, <2>1, Constants
  <2>3. num[j] % num[i] # 0
    BY <2>1, <2>2 DEF Survives
  <2>4. num[j] \in Nat \ {0}
    BY <2>1, Constants
  <2> QED BY <1>3, <2>3, <2>4, ModSelf
<1> DEFINE f == [j \in 1 .. Len(printed) |-> printed[j]]
<1>5. f \in Injection(1 .. Len(printed), Primes)
  <2>1. f \in [1 .. Len(printed) -> Primes]
    BY ShownPrime
  <2>2. ASSUME NEW i \in 1 .. Len(printed), NEW j \in 1 .. Len(printed), f[i] = f[j]
        PROVE  i = j
    BY <1>1, <1>4, <2>2
  <2> QED BY <2>1, <2>2 DEF Injection, IsInjective
<1>6. Cardinality(1 .. Len(printed)) = Len(printed)
  <2>1. PICK b \in Nat : b = Len(printed)
    BY <1>1
  <2>2. Cardinality(1 .. b) = IF 1 > b THEN 0 ELSE b - 1 + 1
    BY FS_Interval
  <2>3. Cardinality(1 .. b) = b
    BY <2>2
  <2> QED BY <2>1, <2>3
<1>7. \A j \in 1 .. Len(printed) : f[j] = printed[j]
  OBVIOUS
<1> HIDE DEF f
<1> QED BY <1>1, <1>2, <1>5, <1>6, <1>7

(* No more numbers are shown than there are primes.                        *)
LEMMA ShownBound ==
  ASSUME IInv
  PROVE  /\ Cardinality(Primes) \in Nat
         /\ Len(printed) <= Cardinality(Primes)
<1>1. PICK f \in Injection(1 .. Len(printed), Primes) : TRUE
  BY ShownInjection
<1>2. Cardinality(1 .. Len(printed)) <= Cardinality(Primes)
  BY <1>1, ShownInjection, FS_Injection
<1> QED BY <1>2, ShownInjection, FS_CardinalityType

(* Process k has at most k + 5 descriptors open, and when it has that many *)
(* it has printed a prime.                                                 *)
LEMMA IInvDescriptors ==
  ASSUME IInv, NEW k \in Process
  PROVE  fds[k] <= Cardinality(Primes) + 5
<1>1. /\ Cardinality(Primes) \in Nat
      /\ Len(printed) \in Nat /\ Len(printed) <= Cardinality(Primes)
  BY ShownBound, ProcessFacts DEF IInv, PrintedInv
<1>2. k \in Nat /\ fds[k] \in Nat
  BY ProcessFacts DEF IInv, TypeInv
<1>3. CASE k = 0
  BY <1>1, <1>2, <1>3 DEF IInv, FdsInv
<1>4. CASE k # 0 /\ pc[k] \in {"fork", "closeread"}
  <2>1. HasPrinted(k)
    BY <1>4 DEF IInv, NumInv, HasPrinted, Early, Parent
  <2>2. k <= Len(printed)
    BY <1>4, <2>1 DEF IInv, PrintedInv
  <2> QED BY <1>1, <1>2, <1>4, <2>2 DEF IInv, FdsInv
<1>5. CASE pc[k] = "none"
  BY <1>1, <1>2, <1>5 DEF IInv, FdsInv
<1>6. CASE k # 0 /\ pc[k] \notin {"none", "fork", "closeread"}
  <2>1. k - 1 \in Process /\ k - 1 < k /\ k - 1 \in Nat
    BY <1>2, <1>6, ProcessFacts
  <2>2. Forked(k - 1)
    BY <1>6, <2>1 DEF IInv, ChainInv
  <2>3. CASE k - 1 = 0
    BY <1>1, <1>2, <1>6, <2>3 DEF IInv, FdsInv
  <2>4. CASE k - 1 # 0
    <3>1. HasPrinted(k - 1)
      BY <2>1, <2>2, <2>4 DEF IInv, NumInv, Forked, HasPrinted, Early, Parent
    <3>2. k - 1 <= Len(printed)
      BY <2>1, <2>4, <3>1 DEF IInv, PrintedInv
    <3>3. fds[k] <= k + 4
      BY <1>6 DEF IInv, FdsInv
    <3> QED BY <1>1, <1>2, <3>2, <3>3
  <2> QED BY <2>3, <2>4
<1> QED BY <1>3, <1>4, <1>5, <1>6

-----------------------------------------------------------------------------
(* The steps                                                               *)

(* Nobody but main() runs, and the pipes are empty.                        *)
LEMMA InitIInv == Init => IInv
<1> SUFFICES ASSUME Init PROVE IInv
  OBVIOUS
<1> USE Constants, ProcessFacts DEF Init
<1>1. TypeInv
  <2>1. <<>> \in Seq(Number) /\ Len(<<>>) = 0
    BY EmptySeq
  <2>2. 0 \in Number
    BY DEF Number
  <2> QED BY <2>1, <2>2 DEF TypeInv, Labels
<1>2. ChainInv
  BY DEF ChainInv, Forked, Parent
<1>3. NInv
  BY DEF NInv
<1>4. NumInv
  BY DEF NumInv, Early
<1>5. PipeInv
  BY DEF PipeInv
<1>6. PrintedInv
  <2>1. Len(printed) = 0
    BY EmptySeq
  <2> QED BY <2>1 DEF PrintedInv, HasPrinted
<1>7. FdsInv
  BY DEF FdsInv
<1>8. OrderInv
  BY DEF OrderInv
<1> QED BY <1>1, <1>2, <1>3, <1>4, <1>5, <1>6, <1>7, <1>8 DEF IInv

(* A bound is met, or missed by one at least.                              *)
LEMMA LeqSplit ==
  ASSUME NEW j \in Nat, NEW k \in Nat
  PROVE  j <= k <=> j = k \/ j <= k - 1
OBVIOUS

(* Got() and Sent() only look at the process itself.                       *)
LEMMA Frame ==
  ASSUME NEW j \in Process, pc'[j] = pc[j], num'[j] = num[j], n'[j] = n[j]
  PROVE  Got(j)' = Got(j) /\ Sent(j)' = Sent(j)
BY DEF Got, Sent, Rank

(* As long as no stage gets its number, the same numbers survive.          *)
LEMMA SurvivesFrame ==
  ASSUME num' = num, NEW k, NEW x
  PROVE  Survives(k, x)' <=> Survives(k, x)
BY DEF Survives

(* To show what the pipes hold after a step.                               *)
LEMMA PipesBack ==
  ASSUME \A k \in Process : k = 0 \/ pc'[k] = "none" => pipe'[k] = <<>>,
         \A k \in Process \ {0} :
           pc'[k] # "none" => /\ Lists(pipe'[k], InFlight(k)')
                              /\ Got(k)' <= Sent(k - 1)'
  PROVE  PipeInv' /\ OrderInv'
<1>1. PipeInv'
  <2> SUFFICES ASSUME NEW k \in Process
               PROVE  IF k = 0 \/ pc'[k] = "none"
                      THEN pipe'[k] = <<>>
                      ELSE Lists(pipe'[k], InFlight(k)')
    BY DEF PipeInv, Lists, Rank
  <2> QED OBVIOUS
<1>2. OrderInv'
  <2> SUFFICES ASSUME NEW k \in Process \ {0}, pc'[k] # "none"
               PROVE  Got(k)' <= Sent(k - 1)'
    BY DEF OrderInv, Got, Sent, Rank
  <2> QED OBVIOUS
<1> QED BY <1>1, <1>2

(* What survives a stage has survived those before it.                     *)
LEMMA SurvivesBefore ==
  ASSUME NEW k \in Nat, NEW x, Survives(k + 1, x)
  PROVE  Survives(k, x)
<1>1. 1 .. k - 1 \subseteq 1 .. (k + 1) - 1
  OBVIOUS
<1> QED BY <1>1 DEF Survives

(* A step that touches no pipe and nothing of what has been received and   *)
(* sent on.                                                                *)
LEMMA QuietPipes ==
  ASSUME PipeInv, num' = num, pipe' = pipe,
         \A k \in Process : Got(k)' = Got(k) /\ Sent(k)' = Sent(k),
         \A k \in Process : pc'[k] = "none" <=> pc[k] = "none"
  PROVE  PipeInv'
<1> SUFFICES ASSUME NEW k \in Process \ {0}, pc'[k] # "none"
             PROVE  Lists(pipe[k], InFlight(k)')
  BY DEF PipeInv, Lists, Rank
<1>1. k - 1 \in Process
  BY ProcessFacts
<1>2. InFlight(k)' = InFlight(k)
  BY <1>1, SurvivesFrame DEF InFlight
<1> QED BY <1>2 DEF PipeInv

(* Nor does it disturb their order.                                        *)
LEMMA QuietOrder ==
  ASSUME OrderInv,
         \A k \in Process : Got(k)' = Got(k) /\ Sent(k)' = Sent(k),
         \A k \in Process : pc'[k] = "none" <=> pc[k] = "none"
  PROVE  OrderInv'
<1> SUFFICES ASSUME NEW k \in Process \ {0}, pc'[k] # "none"
             PROVE  Got(k)' <= Sent(k - 1)'
  BY DEF OrderInv, Got, Sent, Rank
<1>1. k - 1 \in Process
  BY ProcessFacts
<1> QED BY <1>1 DEF OrderInv

(* pipe()                                                                  *)
LEMMA MakePipeStep ==
  ASSUME IInv, NEW k \in Process, MakePipe(k)
  PROVE  IInv'
<1> USE Constants, ProcessFacts DEF IInv, TypeInv, MakePipe, Goto, Opened
<1>1. TypeInv'
  <2>1. pc' \in [Process -> Labels]
    BY DEF Labels
  <2>2. fds' \in [Process -> Nat]
    OBVIOUS
  <2> QED BY <2>1, <2>2
<1>2. ChainInv'
  BY DEF ChainInv, Forked, Parent
<1>3. NInv'
  BY DEF NInv, Early, Survives
<1>4. NumInv'
  BY DEF NumInv, Early, Survives
<1>5. PipeInv' /\ OrderInv'
  <2>1. \A j \in Process : Got(j)' = Got(j) /\ Sent(j)' = Sent(j)
    BY Frame DEF Got, Sent, NInv
  <2> QED BY <2>1, QuietPipes, QuietOrder
<1>6. PrintedInv'
  BY DEF PrintedInv, HasPrinted, Parent
<1>7. FdsInv'
  BY DEF FdsInv
<1> QED BY <1>1, <1>2, <1>3, <1>4, <1>5, <1>6, <1>7

(* close(pp[0])                                                            *)
LEMMA CloseReadStep ==
  ASSUME IInv, NEW k \in Process, CloseRead(k)
  PROVE  IInv'
<1> USE Constants, ProcessFacts DEF IInv, TypeInv, CloseRead, Goto, Opened
<1>1. TypeInv'
  <2>1. pc' \in [Process -> Labels]
    BY DEF Labels
  <2>2. fds[k] = k + 5 /\ k \in Nat
    BY DEF FdsInv
  <2>3. fds' \in [Process -> Nat]
    BY <2>2
  <2> QED BY <2>1, <2>3
<1>2. ChainInv'
  BY DEF ChainInv, Forked, Parent
<1>3. NInv'
  BY DEF NInv, Early, Survives
<1>4. NumInv'
  BY DEF NumInv, Early, Survives
<1>5. PipeInv' /\ OrderInv'
  <2>1. \A j \in Process : Got(j)' = Got(j) /\ Sent(j)' = Sent(j)
    BY Frame DEF Got, Sent, NInv
  <2> QED BY <2>1, QuietPipes, QuietOrder
<1>6. PrintedInv'
  BY DEF PrintedInv, HasPrinted, Parent
<1>7. FdsInv'
  BY DEF FdsInv
<1> QED BY <1>1, <1>2, <1>3, <1>4, <1>5, <1>6, <1>7

(* close(p[1])                                                             *)
LEMMA CloseWriteStep ==
  ASSUME IInv, NEW k \in Process, CloseWrite(k)
  PROVE  IInv'
<1> USE Constants, ProcessFacts DEF IInv, TypeInv, CloseWrite, Goto, Opened
<1>1. TypeInv'
  <2>1. pc' \in [Process -> Labels]
    BY DEF Labels
  <2>2. fds' \in [Process -> Nat]
    BY DEF FdsInv
  <2> QED BY <2>1, <2>2
<1>2. ChainInv'
  BY DEF ChainInv, Forked, Parent
<1>3. NInv'
  BY DEF NInv, Early, Survives
<1>4. NumInv'
  BY DEF NumInv, Early, Survives
<1>5. PipeInv' /\ OrderInv'
  <2>1. \A j \in Process : Got(j)' = Got(j) /\ Sent(j)' = Sent(j)
    BY Frame DEF Got, Sent, NInv
  <2> QED BY <2>1, QuietPipes, QuietOrder
<1>6. PrintedInv'
  BY DEF PrintedInv, HasPrinted, Parent
<1>7. FdsInv'
  BY DEF FdsInv
<1> QED BY <1>1, <1>2, <1>3, <1>4, <1>5, <1>6, <1>7

(* wait(0); exit(0)                                                        *)
LEMMA WaitStep ==
  ASSUME IInv, NEW k \in Process, Wait(k)
  PROVE  IInv'
<1> USE Constants, ProcessFacts DEF IInv, TypeInv, Wait, Goto
<1>1. TypeInv'
  <2>1. pc' \in [Process -> Labels]
    BY DEF Labels
  <2>2. fds' \in [Process -> Nat]
    BY DEF FdsInv
  <2> QED BY <2>1, <2>2
<1>2. ChainInv'
  <2>1. Forked(k)
    BY DEF Forked, Parent
  <2>2. num' = num /\ \A j \in Process : pc'[j] = IF j = k THEN "exit" ELSE pc[j]
    OBVIOUS
  <2>3. k = 0 \/ num[k] # 0
    BY DEF NumInv, Early
  <2>4. \A j \in Process : Forked(j)' <=> Forked(j)
    BY <2>1, <2>2, <2>3 DEF Forked, Parent
  <2> QED BY <2>1, <2>2, <2>4 DEF ChainInv
<1>3. NInv'
  BY DEF NInv, Early, Survives
<1>4. NumInv'
  BY DEF NumInv, Early, Survives
<1>5. PipeInv' /\ OrderInv'
  <2>1. \A j \in Process : Got(j)' = Got(j) /\ Sent(j)' = Sent(j)
    BY Frame DEF Got, Sent, NInv
  <2> QED BY <2>1, QuietPipes, QuietOrder
<1>6. PrintedInv'
  BY DEF PrintedInv, HasPrinted, Parent
<1>7. FdsInv'
  BY DEF FdsInv
<1> QED BY <1>1, <1>2, <1>3, <1>4, <1>5, <1>6, <1>7

(* printf() of the prime: the stages before it have printed theirs.        *)
LEMMA PrintPrimeStep ==
  ASSUME IInv, NEW k \in Process, PrintPrime(k)
  PROVE  IInv'
<1> USE Constants, ProcessFacts DEF IInv, TypeInv, PrintPrime, Goto
<1>1. TypeInv'
  BY AppendProperties DEF Labels
<1>2. ChainInv'
  BY DEF ChainInv, Forked, Parent
<1>3. NInv'
  BY DEF ChainInv, NInv, Early, Survives
<1>4. NumInv'
  BY DEF NumInv, Early, Survives
<1>5. PipeInv' /\ OrderInv'
  <2>1. \A j \in Process : Got(j)' = Got(j) /\ Sent(j)' = Sent(j)
    BY Frame DEF Got, Sent, NInv
  <2> QED BY <2>1, QuietPipes, QuietOrder
<1>6. PrintedInv'
  <2>1. k # 0 /\ num[k] # 0
    BY DEF ChainInv, NumInv, Early
  <2>2. PICK p \in Process : p = Len(printed)
    BY DEF PrintedInv
  <2>3. \A j \in Process \ {0} : j <= p <=> HasPrinted(j)
    BY <2>2 DEF PrintedInv
  <2>4. ~ HasPrinted(k)
    BY DEF HasPrinted, Parent
  <2>5. k - 1 \in Process /\ k - 1 \in Nat /\ k \in Nat
    BY <2>1
  <2>6. ASSUME k - 1 # 0
        PROVE  k - 1 <= p
    <3>1. Forked(k - 1)
      BY <2>5 DEF ChainInv
    <3>2. HasPrinted(k - 1)
      BY <2>5, <2>6, <3>1 DEF Forked, HasPrinted, NumInv, Early, Parent
    <3> QED BY <2>3, <2>5, <2>6, <3>2
  <2>7. p = k - 1
    <3>1. k - 1 <= p
      <4>1. p \in Nat
        OBVIOUS
      <4> QED BY <2>6, <4>1
    <3>2. ~ (k <= p)
      BY <2>1, <2>3, <2>4
    <3> QED BY <2>5, <3>1, <3>2
  <2>8. /\ Len(printed') = k
        /\ printed'[k] = num[k]
        /\ \A j \in 1 .. p : printed'[j] = printed[j]
    <3>1. PICK s \in Seq(Number) : s = printed
      OBVIOUS
    <3>2. PICK x \in Number : x = num[k]
      OBVIOUS
    <3>3. printed' = Append(s, x) /\ Len(s) = p
      BY <2>2, <3>1, <3>2
    <3>4. /\ Len(Append(s, x)) = Len(s) + 1
          /\ Append(s, x)[Len(s) + 1] = x
          /\ \A j \in 1 .. Len(s) : Append(s, x)[j] = s[j]
      BY AppendProperties
    <3>5. p + 1 = k
      BY <2>5, <2>7
    <3> QED BY <3>1, <3>2, <3>3, <3>4, <3>5
  <2>9. \A j \in Process \ {0} : HasPrinted(j)' <=> j = k \/ HasPrinted(j)
    BY <2>1 DEF HasPrinted
  <2>10. \A j \in Process \ {0} : j <= k <=> HasPrinted(j)'
    <3>1. \A j \in Nat : j <= k <=> j = k \/ j <= k - 1
      BY <2>5, LeqSplit
    <3>2. \A j \in Process \ {0} : j <= k <=> j = k \/ j <= p
      BY <2>7, <3>1
    <3> QED BY <2>3, <2>9, <3>2
  <2>11. \A j \in 1 .. k : printed'[j] = num[j]
    <3>1. \A j \in 1 .. k : j = k \/ j \in 1 .. p
      BY <2>5, <2>7
    <3> QED BY <2>2, <2>8, <3>1 DEF PrintedInv
  <2> QED BY <2>8, <2>10, <2>11 DEF PrintedInv
<1>7. FdsInv'
  BY DEF FdsInv
<1> QED BY <1>1, <1>2, <1>3, <1>4, <1>5, <1>6, <1>7

(* fork(): the stage's number is the only one that it has received, and    *)
(* does not survive it; there is nothing yet for the child.                *)
LEMMA ForkStep ==
  ASSUME IInv, NEW k \in Process, Fork(k)
  PROVE  IInv'
<1> USE Constants, ProcessFacts DEF IInv, TypeInv, Fork
<1>1. k \in Nat /\ k + 1 \in Process /\ k + 1 # 0 /\ k # k + 1
  OBVIOUS
<1>2. pc[k + 1] = "none" /\ ~ Forked(k)
  <2>1. ~ Forked(k)
    BY DEF Forked, Parent
  <2> QED BY <1>1, <2>1 DEF ChainInv
<1>3. \A j \in Process : k + 1 < j => pc[j] = "none"
  BY <1>1, <1>2 DEF ChainInv
<1>4. \A j \in Process : pc'[j] = IF j = k THEN "closeread"
                                  ELSE IF j = k + 1 THEN "closewrite" ELSE pc[j]
  <2>1. pc'[k] = "closeread" /\ pc'[k + 1] = "closewrite"
    BY <1>1
  <2>2. \A j \in Process : j # k /\ j # k + 1 => pc'[j] = pc[j]
    BY <1>1
  <2> QED BY <2>1, <2>2
<1>5. TypeInv'
  <2>1. pc' \in [Process -> Labels]
    BY DEF Labels
  <2>2. fds' \in [Process -> Nat]
    OBVIOUS
  <2> QED BY <2>1, <2>2
<1>6. ChainInv'
  <2>1. \A j \in Process : Forked(j)' <=> j = k \/ Forked(j)
    BY <1>1, <1>2, <1>4 DEF Forked, Parent
  <2>2. \A j \in Process : j + 1 = k + 1 => j = k
    BY <1>1
  <2>3. /\ pc'[0] \in {"pipe", "fork", "closeread", "feed", "zero", "wait", "exit"}
        /\ \A j \in Process \ {0} : pc'[j] # "feed"
    BY <1>1, <1>4 DEF ChainInv
  <2>4. \A j \in Process : Forked(j)' => j + 1 \in Process /\ pc'[j + 1] # "none"
    BY <1>1, <1>4, <2>1 DEF ChainInv
  <2>5. ASSUME NEW i \in Process, NEW j \in Process, i < j, pc'[j] # "none"
        PROVE  Forked(i)'
    <3>1. CASE j = k + 1
      <4>1. i = k \/ i < k
        BY <1>1, <2>5, <3>1
      <4> QED BY <2>1, <4>1 DEF ChainInv
    <3>2. CASE j # k + 1
      <4>1. pc[j] # "none"
        BY <1>4, <2>5, <3>2
      <4> QED BY <2>1, <2>5, <4>1 DEF ChainInv
    <3> QED BY <3>1, <3>2
  <2>6. ASSUME NEW j \in Process, Forked(j)', pc'[j] = "exit"
        PROVE  pc'[j + 1] = "exit"
    <3>1. pc[j] = "exit" /\ Forked(j) /\ j # k
      BY <1>4, <2>1, <2>6
    <3>2. pc[j + 1] = "exit" /\ j + 1 \in Process
      BY <3>1 DEF ChainInv
    <3> QED BY <1>2, <1>4, <3>2
  <2> QED BY <2>3, <2>4, <2>5, <2>6 DEF ChainInv
<1>7. NInv'
  BY <1>1, <1>2, <1>4 DEF NInv, Early, Survives
<1>8. NumInv'
  BY <1>1, <1>2, <1>4 DEF NumInv, Early, Survives
<1>9. PipeInv' /\ OrderInv'
  <2>1. ASSUME NEW j \in Process
        PROVE  Got(j)' = Got(j)
    BY <1>2, <1>4 DEF Got, NInv, Rank
  <2>2. ASSUME NEW j \in Process, j # k + 1
        PROVE  Sent(j)' = Sent(j)
    <3>1. n'[j] = n[j]
      OBVIOUS
    <3>2. CASE j = k
      <4>1. pc'[k] = "closeread" /\ pc[k] = "fork"
        BY <1>4
      <4> QED BY <2>1, <3>1, <3>2, <4>1 DEF Sent
    <3>3. CASE j # k
      <4>1. pc'[j] = pc[j]
        BY <1>4, <2>2, <3>3
      <4> QED BY <2>1, <3>1, <4>1 DEF Sent
    <3> QED BY <3>2, <3>3
  <2>3. ASSUME NEW j \in Process \ {0}, pc'[j] # "none", j # k + 1
        PROVE  Lists(pipe[j], InFlight(j)') /\ Got(j)' <= Sent(j - 1)'
    <3>1. j - 1 \in Process /\ pc[j] # "none" /\ j - 1 # k + 1
      <4>1. j - 1 \in Process
        OBVIOUS
      <4>2. pc[j] # "none"
        BY <1>4, <2>3
      <4>3. j - 1 = k + 1 => k + 1 < j
        BY <1>1
      <4> QED BY <1>3, <4>1, <4>2, <4>3
    <3>2. InFlight(j)' = InFlight(j)
      BY <2>1, <2>2, <3>1, SurvivesFrame DEF InFlight
    <3>3. Lists(pipe[j], InFlight(j)')
      BY <3>1, <3>2 DEF PipeInv
    <3>4. Got(j) <= Sent(j - 1)
      BY <3>1 DEF OrderInv
    <3>5. Got(j)' = Got(j) /\ Sent(j - 1)' = Sent(j - 1)
      BY <2>1, <2>2, <3>1
    <3> QED BY <3>3, <3>4, <3>5
  <2>4. Lists(pipe[k + 1], InFlight(k + 1)') /\ Got(k + 1)' <= Sent(k)'
    <3>1. pipe[k + 1] = <<>>
      BY <1>1, <1>2 DEF PipeInv
    <3>2. Got(k + 1)' = 1 /\ (k + 1) - 1 = k
      BY <1>1, <1>4 DEF Got
    <3>3. CASE k = 0
      <4>1. Sent(k)' = 1
        BY <1>1, <2>2, <3>3 DEF Sent, NInv
      <4>2. InFlight(k + 1)' = {}
        BY <3>2, <4>1 DEF InFlight
      <4>3. Got(k + 1)' <= Sent(k)'
        BY <3>2, <4>1
      <4> QED BY <3>1, <4>2, <4>3, ListsNothing
    <3>4. CASE k # 0
      <4>1. n[k] = 0 /\ num[k] \in 2 .. LIMIT - 1
            /\ \A x \in 2 .. LIMIT : Survives(k, x) => num[k] <= x
        BY <3>4 DEF NInv, NumInv, Early
      <4>2. Sent(k)' = num[k]
        BY <1>1, <1>4, <3>4, <4>1 DEF Sent, Got, Rank
      <4>3. ASSUME NEW x \in 2 .. LIMIT, Survives(k + 1, x), x <= num[k]
            PROVE  FALSE
        <5>1. x # LIMIT /\ x \in Nat \ {0}
          <6>1. PICK q \in 2 .. LIMIT - 1 : q = num[k]
            BY <4>1
          <6>2. x <= q
            BY <4>3, <6>1
          <6> QED BY <6>2
        <5>2. \A i \in 1 .. k : x % num[i] # 0
          BY <1>1, <4>3, <5>1 DEF Survives
        <5>3. Survives(k, x)
          BY <1>1, <5>2 DEF Survives
        <5>4. x = num[k]
          BY <4>1, <4>3, <5>1, <5>3
        <5>5. x % num[k] # 0
          BY <1>1, <3>4, <5>2
        <5> QED BY <5>1, <5>4, <5>5, ModSelf
      <4>4. InFlight(k + 1)' = {}
        BY <3>2, <4>2, <4>3, SurvivesFrame DEF InFlight
      <4>5. Got(k + 1)' <= Sent(k)'
        BY <3>2, <4>1, <4>2
      <4> QED BY <3>1, <4>4, <4>5, ListsNothing
    <3> QED BY <3>3, <3>4
  <2>5. \A j \in Process : j = 0 \/ pc'[j] = "none" => pipe[j] = <<>>
    BY <1>1, <1>4 DEF PipeInv
  <2>6. pipe' = pipe /\ (k + 1) - 1 = k
    BY <1>1
  <2> QED BY <2>3, <2>4, <2>5, <2>6, PipesBack
<1>10. PrintedInv'
  BY <1>1, <1>2, <1>4 DEF PrintedInv, HasPrinted, Parent
<1>11. FdsInv'
  <2>1. \A j \in Process : fds'[j] = IF j = k + 1 THEN fds[k] ELSE fds[j]
    BY <1>1
  <2>2. fds[k] = k + 5
    BY DEF FdsInv
  <2>3. fds'[k + 1] = (k + 1) + 4
    BY <1>1, <2>1, <2>2
  <2>4. fds'[k] = k + 5
    BY <1>1, <2>1, <2>2
  <2>5. \A j \in Process : j # k /\ j # k + 1 => fds'[j] = fds[j] /\ pc'[j] = pc[j]
    BY <1>4, <2>1
  <2> SUFFICES ASSUME NEW j \in Process
               PROVE  /\ pc'[j] = "none" => fds'[j] = 0
                      /\ pc'[j] \in {"first", "print", "pipe"} => fds'[j] = j + 3
                      /\ pc'[j] = "closewrite" => fds'[j] = j + 4
                      /\ pc'[j] \in {"fork", "closeread"} => fds'[j] = j + 5
                      /\ pc'[j] \notin {"fork", "closeread"} => fds'[j] <= j + 4
    BY DEF FdsInv
  <2>6. CASE j = k
    BY <1>4, <2>4, <2>6
  <2>7. CASE j = k + 1
    <3>1. pc'[j] = "closewrite" /\ fds'[j] = j + 4
      BY <1>1, <1>4, <2>3, <2>7
    <3>2. j + 4 <= j + 4
      OBVIOUS
    <3> QED BY <3>1, <3>2
  <2>8. CASE j # k /\ j # k + 1
    BY <2>5, <2>8 DEF FdsInv
  <2> QED BY <2>6, <2>7, <2>8
<1> QED BY <1>5, <1>6, <1>7, <1>8, <1>9, <1>10, <1>11

-----------------------------------------------------------------------------
(* The steps that write to a pipe or read from one                         *)

(* The range of the ranks.                                                 *)
LEMMA RankFacts ==
  ASSUME NEW v \in Number
  PROVE  /\ Rank(v) \in 1 .. LIMIT
         /\ v = 0 => Rank(v) = LIMIT
         /\ v # 0 => Rank(v) = v /\ v < LIMIT
BY Constants DEF Rank, Number

(* Their types.                                                            *)
LEMMA GotFacts ==
  ASSUME IInv, NEW j \in Process
  PROVE  Got(j) \in Nat /\ Sent(j) \in Int
<1>1. num[j] \in Nat /\ n[j] \in Nat
  BY Constants DEF IInv, TypeInv, Number
<1>2. Got(j) \in Nat
  BY <1>1, Constants DEF Got, Rank
<1> QED BY <1>1, <1>2, Constants DEF Sent

(* A process writes what comes next of what survives it.                   *)
LEMMA SendPipes ==
  ASSUME IInv, NEW k \in Process, Forked(k), NEW v \in Number,
         pipe' = [pipe EXCEPT ![k + 1] = Append(@, v)], num' = num,
         \A j \in Process : pc'[j] = "none" <=> pc[j] = "none",
         \A j \in Process \ {0} : Got(j)' = Got(j),
         \A j \in Process \ {k} : Sent(j)' = Sent(j),
         Rank(v) \in 2 .. LIMIT, Survives(k + 1, Rank(v)),
         Sent(k) = Rank(v) - 1, Sent(k)' = Rank(v)
  PROVE  PipeInv' /\ OrderInv'
<1> USE ProcessFacts
<1>1. /\ k + 1 \in Process \ {0} /\ (k + 1) - 1 = k /\ k # k + 1
      /\ pc[k + 1] # "none"
  BY DEF IInv, ChainInv
<1>2. /\ pipe'[k + 1] = Append(pipe[k + 1], v)
      /\ \A j \in Process : j # k + 1 => pipe'[j] = pipe[j]
  BY <1>1 DEF IInv, TypeInv
<1>3. Got(k + 1) <= Sent(k) /\ Lists(pipe[k + 1], InFlight(k + 1))
  BY <1>1 DEF IInv, OrderInv, PipeInv
<1>4. Got(k + 1) \in Nat
  BY <1>1, GotFacts
<1>5. Lists(Append(pipe[k + 1], v), InFlight(k + 1)')
  <2>1. PICK r \in 2 .. LIMIT : r = Rank(v)
    OBVIOUS
  <2>2. \A x \in 2 .. LIMIT : x <= r <=> x = r \/ x <= r - 1
    OBVIOUS
  <2>3. \A x \in InFlight(k + 1) : x < r
    <3>1. \A x \in InFlight(k + 1) : x \in 2 .. LIMIT /\ x <= r - 1
      BY <1>1, <2>1 DEF InFlight
    <3> QED BY <3>1
  <2>4. Got(k + 1) < r
    BY <1>3, <1>4, <2>1
  <2>5. \A x \in 2 .. LIMIT : Survives(k + 1, x)' <=> Survives(k + 1, x)
    BY SurvivesFrame
  <2>6. InFlight(k + 1)' =
          {x \in 2 .. LIMIT : Survives(k + 1, x) /\ Got(k + 1) < x /\ x <= r}
    <3>1. Sent((k + 1) - 1)' = r
      BY <1>1, <2>1
    <3> QED BY <1>1, <2>5, <3>1 DEF InFlight
  <2>7. InFlight(k + 1) =
          {x \in 2 .. LIMIT : Survives(k + 1, x) /\ Got(k + 1) < x /\ x <= r - 1}
    <3>1. Sent((k + 1) - 1) = r - 1
      BY <1>1, <2>1
    <3> QED BY <3>1 DEF InFlight
  <2>8. InFlight(k + 1)' = InFlight(k + 1) \cup {r}
    BY <2>1, <2>2, <2>4, <2>6, <2>7
  <2>9. Lists(Append(pipe[k + 1], v), InFlight(k + 1) \cup {Rank(v)})
    BY <1>3, <2>1, <2>3, ListsAppend
  <2> QED BY <2>1, <2>8, <2>9
<1>6. ASSUME NEW j \in Process \ {0}, pc'[j] # "none", j # k + 1
      PROVE  Lists(pipe'[j], InFlight(j)') /\ Got(j)' <= Sent(j - 1)'
  <2>1. j - 1 \in Process \ {k} /\ pc[j] # "none"
    BY <1>6
  <2>2. Got(j)' = Got(j) /\ Sent(j - 1)' = Sent(j - 1)
    BY <2>1
  <2>3. InFlight(j)' = InFlight(j)
    BY <2>2, SurvivesFrame DEF InFlight
  <2>4. Lists(pipe[j], InFlight(j)) /\ Got(j) <= Sent(j - 1)
    BY <2>1 DEF IInv, PipeInv, OrderInv
  <2> QED BY <1>2, <1>6, <2>2, <2>3, <2>4
<1>7. Got(k + 1)' <= Sent(k)'
  BY <1>1, <1>3, <1>4
<1>8. \A j \in Process : j = 0 \/ pc'[j] = "none" => pipe'[j] = <<>>
  BY <1>1, <1>2 DEF IInv, PipeInv
<1> QED BY <1>1, <1>2, <1>5, <1>6, <1>7, <1>8, PipesBack

(* A process that reads finds the other end open.                          *)
LEMMA NoEndOfFile ==
  ASSUME IInv, NEW k \in Process, pc[k] \in {"first", "read"}
  PROVE  /\ k \in Process \ {0} /\ k - 1 \in Process
         /\ Forked(k - 1) /\ pc[k - 1] # "exit"
<1> USE ProcessFacts
<1>1. k # 0
  BY DEF IInv, ChainInv
<1>2. k - 1 \in Process /\ k - 1 < k /\ (k - 1) + 1 = k
  BY <1>1
<1>3. Forked(k - 1)
  BY <1>2 DEF IInv, ChainInv
<1>4. pc[k - 1] # "exit"
  <2> SUFFICES ASSUME pc[k - 1] = "exit" PROVE FALSE
    OBVIOUS
  <2>1. pc[(k - 1) + 1] = "exit"
    BY <1>2, <1>3 DEF IInv, ChainInv
  <2> QED BY <1>2, <2>1
<1> QED BY <1>1, <1>2, <1>3, <1>4

(* What it takes is the next of what survives the stages before it.        *)
LEMMA ReadPipe ==
  ASSUME IInv, NEW k \in Process \ {0}, pc[k] # "none", pipe[k] # <<>>
  PROVE  /\ Head(pipe[k]) \in Number
         /\ Rank(Head(pipe[k])) \in InFlight(k)
         /\ \A x \in 2 .. LIMIT :
              Survives(k, x) /\ Got(k) < x => Rank(Head(pipe[k])) <= x
         /\ Lists(Tail(pipe[k]),
                  {x \in InFlight(k) : Rank(Head(pipe[k])) < x})
<1>1. Lists(pipe[k], InFlight(k))
  BY DEF IInv, PipeInv
<1>2. PICK h : h = Rank(Head(pipe[k]))
  OBVIOUS
<1>3. /\ Head(pipe[k]) \in Number
      /\ h \in InFlight(k)
      /\ Lists(Tail(pipe[k]), InFlight(k) \ {h})
      /\ \A x \in InFlight(k) \ {h} : h < x
  BY <1>1, <1>2, ListsTail
<1>4. InFlight(k) \subseteq 2 .. LIMIT
  BY DEF InFlight
<1>5. InFlight(k) \ {h} = {x \in InFlight(k) : h < x}
  BY <1>3, <1>4
<1>6. ASSUME NEW x \in 2 .. LIMIT, Survives(k, x), Got(k) < x
      PROVE  h <= x
  <2>1. CASE x \in InFlight(k)
    BY <1>3, <1>4, <2>1
  <2>2. CASE x \notin InFlight(k)
    <3>1. k - 1 \in Process
      BY ProcessFacts
    <3>2. Sent(k - 1) \in Int
      BY <3>1, GotFacts
    <3>3. ~ (x <= Sent(k - 1))
      BY <1>6, <2>2 DEF InFlight
    <3>4. h <= Sent(k - 1) /\ h \in Int
      BY <1>3, <1>4 DEF InFlight
    <3> QED BY <3>2, <3>3, <3>4
  <2> QED BY <2>1, <2>2
<1> QED BY <1>2, <1>3, <1>5, <1>6

(* The length of the pipe that is written to stays within its bound.       *)
LEMMA SendType ==
  ASSUME TypeInv, NEW k \in Process, k + 1 \in Process, NEW v \in Number, Send(k, v)
  PROVE  /\ pipe' \in [Process -> Seq(Number)]
         /\ \A j \in Process : Len(pipe'[j]) <= PIPESIZE
<1>1. PICK s \in Seq(Number) : s = pipe[k + 1]
  BY DEF TypeInv
<1>2. /\ Append(s, v) \in Seq(Number)
      /\ Len(Append(s, v)) = Len(s) + 1
      /\ Len(s) \in Nat
  BY AppendProperties
<1>3. Len(Append(s, v)) <= PIPESIZE
  BY <1>1, <1>2, Constants DEF Send
<1>4. \A j \in Process : pipe'[j] = IF j = k + 1 THEN Append(s, v) ELSE pipe[j]
  BY <1>1 DEF Send, TypeInv
<1>5. pipe' = [pipe EXCEPT ![k + 1] = Append(s, v)]
  BY <1>1 DEF Send
<1> QED BY <1>2, <1>3, <1>4, <1>5 DEF TypeInv

(* main() feeds the next number.                                           *)
LEMMA FeedStep ==
  ASSUME IInv, NEW k \in Process, Feed(k)
  PROVE  IInv'
<1> USE Constants, ProcessFacts
<1>1. /\ k = 0 /\ pc[0] = "feed" /\ num' = num /\ fds' = fds /\ printed' = printed
      /\ Send(k, n[k])
  BY DEF Feed, Goto, IInv, ChainInv
<1>2. PICK v \in 2 .. LIMIT - 1 : v = n[0]
  BY <1>1 DEF IInv, NInv, TypeInv
<1>3. v \in Number /\ v + 1 \in 0 .. LIMIT /\ v + 1 >= 2
  BY DEF Number
<1>4. pc' = [pc EXCEPT ![0] = IF v = LIMIT - 1 THEN "zero" ELSE "feed"]
  BY <1>1, <1>2 DEF Feed, Goto
<1>5. n' = [n EXCEPT ![0] = v + 1]
  BY <1>1, <1>2 DEF Feed, IInv, TypeInv
<1>6. pipe' = [pipe EXCEPT ![k + 1] = Append(@, v)]
  BY <1>1, <1>2 DEF Send
<1>7. Forked(0)
  BY <1>1 DEF Forked, Parent
<1>8. /\ pc'[0] = IF v = LIMIT - 1 THEN "zero" ELSE "feed"
      /\ n'[0] = v + 1
      /\ \A j \in Process \ {0} : pc'[j] = pc[j] /\ n'[j] = n[j]
  BY <1>4, <1>5 DEF IInv, TypeInv
<1>9. TypeInv'
  <2>1. pc' \in [Process -> Labels] /\ n' \in [Process -> 0 .. LIMIT]
    BY <1>3, <1>4, <1>5 DEF IInv, TypeInv, Labels
  <2>2. /\ pipe' \in [Process -> Seq(Number)]
        /\ \A j \in Process : Len(pipe'[j]) <= PIPESIZE
    BY <1>1, <1>2, <1>3, SendType DEF IInv
  <2> QED BY <1>1, <2>1, <2>2 DEF IInv, TypeInv
<1>10. \A j \in Process : Forked(j)' <=> Forked(j)
  BY <1>1, <1>7, <1>8 DEF Forked, Parent
<1>11. ChainInv'
  <2>1. \A j \in Process : j + 1 # 0
    OBVIOUS
  <2> QED BY <1>1, <1>8, <1>10, <2>1 DEF IInv, ChainInv
<1>12. NInv'
  <2>1. /\ n'[0] >= 2
        /\ pc'[0] = "feed" => n'[0] < LIMIT
        /\ pc'[0] = "zero" => n'[0] = LIMIT
    BY <1>8
  <2> QED BY <1>1, <1>8, <2>1, SurvivesFrame DEF IInv, NInv
<1>13. NumInv'
  BY <1>1, <1>8, SurvivesFrame DEF IInv, NumInv
<1>14. PipeInv' /\ OrderInv'
  <2>1. \A j \in Process \ {0} : Got(j)' = Got(j) /\ Sent(j)' = Sent(j)
    BY <1>1, <1>8, Frame
  <2>2. Rank(v) = v
    BY DEF Rank
  <2>3. Survives(k + 1, Rank(v))
    BY <1>1 DEF Survives
  <2>4. Sent(k) = Rank(v) - 1
    BY <1>1, <1>2, <2>2 DEF Sent
  <2>5. Sent(k)' = Rank(v)
    <3>1. pc'[0] \notin {"wait", "exit"} /\ n'[0] - 1 = v
      BY <1>8
    <3> QED BY <1>1, <2>2, <3>1 DEF Sent
  <2>6. \A j \in Process : pc'[j] = "none" <=> pc[j] = "none"
    BY <1>1, <1>8
  <2>7. \A j \in Process \ {k} : Sent(j)' = Sent(j)
    BY <1>1, <2>1
  <2>8. Rank(v) \in 2 .. LIMIT
    BY <2>2
  <2>9. Forked(k)
    BY <1>1, <1>7
  <2> QED BY <1>1, <1>3, <1>6, <2>1, <2>3, <2>4, <2>5, <2>6, <2>7, <2>8, <2>9, SendPipes
<1>15. PrintedInv'
  BY <1>1, <1>8 DEF IInv, PrintedInv, HasPrinted
<1>16. FdsInv'
  BY <1>1, <1>8 DEF IInv, FdsInv
<1> QED BY <1>9, <1>11, <1>12, <1>13, <1>14, <1>15, <1>16 DEF IInv

(* The 0 is passed on after all the numbers.                               *)
LEMMA SendZeroStep ==
  ASSUME IInv, NEW k \in Process, SendZero(k)
  PROVE  IInv'
<1> USE Constants, ProcessFacts
<1>1. /\ pc[k] = "zero" /\ pc' = [pc EXCEPT ![k] = "wait"]
      /\ num' = num /\ n' = n /\ fds' = fds /\ printed' = printed
      /\ Send(k, 0)
  BY DEF SendZero, Goto
<1>2. /\ pc'[k] = "wait"
      /\ \A j \in Process \ {k} : pc'[j] = pc[j]
  BY <1>1 DEF IInv, TypeInv
<1>3. Forked(k) /\ k + 1 \in Process
  BY <1>1 DEF IInv, ChainInv, Forked, Parent
<1>4. 0 \in Number /\ Rank(0) = LIMIT
  BY DEF Number, Rank
<1>5. TypeInv'
  <2>1. pc' \in [Process -> Labels]
    BY <1>1 DEF IInv, TypeInv, Labels
  <2>2. /\ pipe' \in [Process -> Seq(Number)]
        /\ \A j \in Process : Len(pipe'[j]) <= PIPESIZE
    BY <1>1, <1>3, <1>4, SendType DEF IInv
  <2> QED BY <1>1, <2>1, <2>2 DEF IInv, TypeInv
<1>6. \A j \in Process : Forked(j)' <=> Forked(j)
  BY <1>1, <1>2, <1>3 DEF Forked, Parent
<1>7. ChainInv'
  <2>1. \A j \in Process : pc'[j] = "none" <=> pc[j] = "none"
    BY <1>1, <1>2
  <2>2. \A j \in Process : pc'[j] = "exit" <=> pc[j] = "exit"
    BY <1>1, <1>2
  <2>3. /\ pc'[0] \in {"pipe", "fork", "closeread", "feed", "zero", "wait", "exit"}
        /\ \A j \in Process \ {0} : pc'[j] # "feed"
    BY <1>2 DEF IInv, ChainInv
  <2> QED BY <1>6, <2>1, <2>2, <2>3 DEF IInv, ChainInv
<1>8. NInv'
  BY <1>1, <1>2, SurvivesFrame DEF IInv, NInv, Early
<1>9. NumInv'
  BY <1>1, <1>2, SurvivesFrame DEF IInv, NumInv, Early
<1>10. PipeInv' /\ OrderInv'
  <2>1. \A j \in Process \ {k} : Got(j)' = Got(j) /\ Sent(j)' = Sent(j)
    BY <1>1, <1>2, Frame
  <2>2. k # 0 => Got(k)' = Got(k)
    BY <1>1, <1>2 DEF Got
  <2>3. Sent(k) = LIMIT - 1
    BY <1>1 DEF Sent, Got, IInv, NInv
  <2>4. Sent(k)' = LIMIT
    BY <1>2 DEF Sent, Got
  <2>5. Survives(k + 1, LIMIT)
    BY DEF Survives
  <2>6. \A j \in Process : pc'[j] = "none" <=> pc[j] = "none"
    BY <1>1, <1>2
  <2>7. pipe' = [pipe EXCEPT ![k + 1] = Append(@, 0)]
    BY <1>1 DEF Send
  <2>8. \A j \in Process \ {0} : Got(j)' = Got(j)
    BY <2>1, <2>2
  <2>9. /\ Rank(0) \in 2 .. LIMIT /\ Survives(k + 1, Rank(0))
        /\ Sent(k) = Rank(0) - 1 /\ Sent(k)' = Rank(0)
    BY <1>4, <2>3, <2>4, <2>5
  <2> QED BY <1>1, <1>3, <1>4, <2>1, <2>6, <2>7, <2>8, <2>9, SendPipes
<1>11. PrintedInv'
  BY <1>1, <1>2 DEF IInv, PrintedInv, HasPrinted, Parent
<1>12. FdsInv'
  BY <1>1, <1>2 DEF IInv, FdsInv
<1> QED BY <1>5, <1>7, <1>8, <1>9, <1>10, <1>11, <1>12 DEF IInv

(* A number that num does not divide is passed on.                         *)
LEMMA PassStep ==
  ASSUME IInv, NEW k \in Process, Pass(k)
  PROVE  IInv'
<1> USE Constants, ProcessFacts
<1>1. /\ pc[k] = "test" /\ pc' = [pc EXCEPT ![k] = "read"]
      /\ num' = num /\ n' = n /\ fds' = fds /\ printed' = printed
      /\ Send(k, n[k]) /\ n[k] % num[k] # 0
  BY DEF Pass, Goto
<1>2. /\ pc'[k] = "read"
      /\ \A j \in Process \ {k} : pc'[j] = pc[j]
  BY <1>1 DEF IInv, TypeInv
<1>3. Forked(k) /\ k + 1 \in Process /\ k # 0
  BY <1>1 DEF IInv, ChainInv, Forked, Parent
<1>4. PICK v \in 2 .. LIMIT - 1 : v = n[k] /\ Survives(k, v)
  <2>1. num[k] \in Nat \ {0}
    BY <1>1, <1>3 DEF IInv, NumInv, Early
  <2>2. n[k] # 0
    BY <1>1, <2>1, ModSmall
  <2> QED BY <1>3, <2>2 DEF IInv, NInv
<1>5. v \in Number /\ Rank(v) = v
  BY DEF Number, Rank
<1>6. TypeInv'
  <2>1. pc' \in [Process -> Labels]
    BY <1>1 DEF IInv, TypeInv, Labels
  <2>2. /\ pipe' \in [Process -> Seq(Number)]
        /\ \A j \in Process : Len(pipe'[j]) <= PIPESIZE
    BY <1>1, <1>3, <1>4, <1>5, SendType DEF IInv
  <2> QED BY <1>1, <2>1, <2>2 DEF IInv, TypeInv
<1>7. \A j \in Process : Forked(j)' <=> Forked(j)
  BY <1>1, <1>2, <1>3 DEF Forked, Parent
<1>8. \A j \in Process : (pc'[j] = "none" <=> pc[j] = "none")
                         /\ (pc'[j] = "exit" <=> pc[j] = "exit")
  BY <1>1, <1>2
<1>9. ChainInv'
  <2>1. /\ pc'[0] \in {"pipe", "fork", "closeread", "feed", "zero", "wait", "exit"}
        /\ \A j \in Process \ {0} : pc'[j] # "feed"
    BY <1>2, <1>3 DEF IInv, ChainInv
  <2> QED BY <1>7, <1>8, <2>1 DEF IInv, ChainInv
<1>10. NInv'
  BY <1>1, <1>2, <1>3, SurvivesFrame DEF IInv, NInv, Early
<1>11. NumInv'
  BY <1>1, <1>2, SurvivesFrame DEF IInv, NumInv, Early
<1>12. PipeInv' /\ OrderInv'
  <2>1. \A j \in Process \ {k} : Got(j)' = Got(j) /\ Sent(j)' = Sent(j)
    BY <1>1, <1>2, Frame
  <2>2. Got(k) = v /\ Got(k)' = v
    BY <1>1, <1>2, <1>4, <1>5 DEF Got
  <2>3. Sent(k) = v - 1 /\ Sent(k)' = v
    BY <1>1, <1>2, <1>3, <2>2 DEF Sent
  <2>4. Survives(k + 1, v)
    <3>1. \A j \in 1 .. k : v % num[j] # 0
      <4>1. \A j \in 1 .. k : j \in 1 .. k - 1 \/ j = k
        OBVIOUS
      <4> QED BY <1>1, <1>4, <4>1 DEF Survives
    <3>2. 1 .. (k + 1) - 1 = 1 .. k
      OBVIOUS
    <3> QED BY <3>1, <3>2 DEF Survives
  <2>5. pipe' = [pipe EXCEPT ![k + 1] = Append(@, v)]
    BY <1>1, <1>4 DEF Send
  <2>6. \A j \in Process : Got(j)' = Got(j)
    BY <2>1, <2>2
  <2>7. /\ Rank(v) \in 2 .. LIMIT /\ Survives(k + 1, Rank(v))
        /\ Sent(k) = Rank(v) - 1 /\ Sent(k)' = Rank(v)
    BY <1>5, <2>3, <2>4
  <2>8. \A j \in Process \ {k} : Sent(j)' = Sent(j)
    BY <2>1
  <2>9. \A j \in Process : pc'[j] = "none" <=> pc[j] = "none"
    BY <1>8
  <2> QED BY <1>1, <1>3, <1>5, <2>5, <2>6, <2>7, <2>8, <2>9, SendPipes
<1>13. PrintedInv'
  BY <1>1, <1>2 DEF IInv, PrintedInv, HasPrinted, Parent
<1>14. FdsInv'
  BY <1>1, <1>2 DEF IInv, FdsInv
<1> QED BY <1>6, <1>9, <1>10, <1>11, <1>12, <1>13, <1>14 DEF IInv

(* A multiple of num is dropped: it does not survive the stage.  The 0 is  *)
(* for SendZero to pass on.                                                *)
LEMMA DropStep ==
  ASSUME IInv, NEW k \in Process, Drop(k)
  PROVE  IInv'
<1> USE Constants, ProcessFacts
<1>1. /\ pc[k] = "test"
      /\ pc' = [pc EXCEPT ![k] = IF n[k] = 0 THEN "zero" ELSE "read"]
      /\ num' = num /\ n' = n /\ fds' = fds /\ printed' = printed /\ pipe' = pipe
      /\ n[k] % num[k] = 0
  BY DEF Drop, Goto
<1>2. /\ pc'[k] = IF n[k] = 0 THEN "zero" ELSE "read"
      /\ \A j \in Process \ {k} : pc'[j] = pc[j]
  BY <1>1 DEF IInv, TypeInv
<1>3. Forked(k) /\ k + 1 \in Process /\ k # 0
  BY <1>1 DEF IInv, ChainInv, Forked, Parent
<1>4. TypeInv'
  <2>1. pc' \in [Process -> Labels]
    BY <1>1 DEF IInv, TypeInv, Labels
  <2> QED BY <1>1, <2>1 DEF IInv, TypeInv
<1>5. \A j \in Process : Forked(j)' <=> Forked(j)
  BY <1>1, <1>2, <1>3 DEF Forked, Parent
<1>6. \A j \in Process : (pc'[j] = "none" <=> pc[j] = "none")
                         /\ (pc'[j] = "exit" <=> pc[j] = "exit")
  BY <1>1, <1>2
<1>7. ChainInv'
  <2>1. /\ pc'[0] \in {"pipe", "fork", "closeread", "feed", "zero", "wait", "exit"}
        /\ \A j \in Process \ {0} : pc'[j] # "feed"
    BY <1>2, <1>3 DEF IInv, ChainInv
  <2> QED BY <1>5, <1>6, <2>1 DEF IInv, ChainInv
<1>8. NInv'
  BY <1>1, <1>2, <1>3, SurvivesFrame DEF IInv, NInv, Early
<1>9. NumInv'
  BY <1>1, <1>2, SurvivesFrame DEF IInv, NumInv, Early
<1>10. PipeInv' /\ OrderInv'
  <2>1. \A j \in Process \ {k} : Got(j)' = Got(j) /\ Sent(j)' = Sent(j)
    BY <1>1, <1>2, Frame
  <2>2. Got(k)' = Got(k)
    BY <1>1, <1>2 DEF Got, Rank
  <2>3. \A j \in Process : Got(j)' = Got(j)
    BY <2>1, <2>2
  <2>4. CASE n[k] = 0
    <3>1. Sent(k)' = Sent(k)
      BY <1>1, <1>2, <1>3, <2>2, <2>4 DEF Sent
    <3> QED BY <1>1, <1>6, <2>1, <2>3, <3>1, QuietPipes, QuietOrder DEF IInv
  <2>5. CASE n[k] # 0
    <3>1. PICK v \in 2 .. LIMIT - 1 : v = n[k]
      BY <1>3, <2>5 DEF IInv, NInv
    <3>2. Sent(k) = v - 1 /\ Sent(k)' = v
      BY <1>1, <1>2, <1>3, <2>5, <3>1 DEF Sent, Got, Rank
    <3>3. ~ Survives(k + 1, v)
      <4>1. k \in 1 .. (k + 1) - 1 /\ v # LIMIT
        BY <1>3
      <4> QED BY <1>1, <3>1, <4>1 DEF Survives
    <3>4. \A x \in 2 .. LIMIT : x <= v <=> x = v \/ x <= v - 1
      OBVIOUS
    <3>5. InFlight(k + 1)' = InFlight(k + 1)
      <4>1. Sent((k + 1) - 1) = v - 1 /\ Sent((k + 1) - 1)' = v
        BY <3>2
      <4>2. Got(k + 1)' = Got(k + 1)
        BY <1>3, <2>3
      <4> QED BY <1>1, <3>3, <3>4, <4>1, <4>2, SurvivesFrame DEF InFlight
    <3>6. ASSUME NEW j \in Process \ {0}, pc'[j] # "none"
          PROVE  Lists(pipe'[j], InFlight(j)') /\ Got(j)' <= Sent(j - 1)'
      <4>1. /\ j - 1 \in Process /\ pc[j] # "none" /\ pipe'[j] = pipe[j]
            /\ Lists(pipe[j], InFlight(j)) /\ Got(j) <= Sent(j - 1)
        BY <1>1, <1>6, <3>6 DEF IInv, PipeInv, OrderInv
      <4>2. CASE j = k + 1
        <5>1. Got(j) \in Nat /\ j - 1 = k
          BY <4>2, GotFacts
        <5>2. Got(j)' <= Sent(j - 1)'
          BY <2>3, <3>2, <4>1, <5>1
        <5> QED BY <3>5, <4>1, <4>2, <5>2
      <4>3. CASE j # k + 1
        <5>1. Sent(j - 1)' = Sent(j - 1)
          BY <2>1, <4>1, <4>3
        <5>2. Got(j)' = Got(j)
          BY <2>3
        <5>3. InFlight(j)' = InFlight(j)
          BY <1>1, <5>1, <5>2, SurvivesFrame DEF InFlight
        <5> QED BY <4>1, <5>1, <5>2, <5>3
      <4> QED BY <4>2, <4>3
    <3>7. \A j \in Process : j = 0 \/ pc'[j] = "none" => pipe'[j] = <<>>
      BY <1>1, <1>6 DEF IInv, PipeInv, ChainInv
    <3> QED BY <3>6, <3>7, PipesBack
  <2> QED BY <2>4, <2>5
<1>11. PrintedInv'
  BY <1>1, <1>2 DEF IInv, PrintedInv, HasPrinted, Parent
<1>12. FdsInv'
  BY <1>1, <1>2 DEF IInv, FdsInv
<1> QED BY <1>4, <1>7, <1>8, <1>9, <1>10, <1>11, <1>12 DEF IInv

(* The next number is taken from the pipe: all that survives the stage up  *)
(* to it has been sent on.                                                 *)
LEMMA ReadNextStep ==
  ASSUME IInv, NEW k \in Process, ReadNext(k)
  PROVE  IInv'
<1> USE Constants, ProcessFacts
<1>1. /\ pc[k] = "read" /\ pc' = [pc EXCEPT ![k] = "test"]
      /\ num' = num /\ fds' = fds /\ printed' = printed
  BY DEF ReadNext, Goto
<1>2. k \in Process \ {0} /\ k - 1 \in Process /\ pc[k - 1] # "exit"
  BY <1>1, NoEndOfFile
<1>3. /\ pipe[k] # <<>>
      /\ n' = [n EXCEPT ![k] = Head(pipe[k])]
      /\ pipe' = [pipe EXCEPT ![k] = Tail(@)]
  BY <1>2 DEF ReadNext, Receive
<1>4. /\ Head(pipe[k]) \in Number
      /\ Rank(Head(pipe[k])) \in InFlight(k)
      /\ \A x \in 2 .. LIMIT :
           Survives(k, x) /\ Got(k) < x => Rank(Head(pipe[k])) <= x
      /\ Lists(Tail(pipe[k]), {x \in InFlight(k) : Rank(Head(pipe[k])) < x})
  BY <1>1, <1>2, <1>3, ReadPipe
<1>5. PICK v \in Number : v = Head(pipe[k])
  BY <1>4
<1>6. PICK r \in 2 .. LIMIT : r = Rank(v)
  BY <1>4, <1>5 DEF InFlight
<1>7. Survives(k, r) /\ Got(k) < r /\ r <= Sent(k - 1)
  BY <1>4, <1>5, <1>6 DEF InFlight
<1>8. /\ pc'[k] = "test" /\ n'[k] = v /\ pipe'[k] = Tail(pipe[k])
      /\ \A j \in Process \ {k} :
           pc'[j] = pc[j] /\ n'[j] = n[j] /\ pipe'[j] = pipe[j]
  BY <1>1, <1>3, <1>5 DEF IInv, TypeInv
<1>9. Forked(k) /\ k + 1 \in Process
  BY <1>1 DEF IInv, ChainInv, Forked, Parent
<1>10. TypeInv'
  <2>1. pc' \in [Process -> Labels]
    BY <1>1 DEF IInv, TypeInv, Labels
  <2>2. n' \in [Process -> 0 .. LIMIT]
    <3>1. v \in 0 .. LIMIT
      BY DEF Number
    <3>2. n' = [n EXCEPT ![k] = v]
      BY <1>3, <1>5
    <3> QED BY <3>1, <3>2 DEF IInv, TypeInv
  <2>3. Tail(pipe[k]) \in Seq(Number) /\ Len(Tail(pipe[k])) <= PIPESIZE
    <3>1. PICK s \in Seq(Number) : s = pipe[k] /\ s # <<>> /\ Len(s) <= PIPESIZE
      BY <1>3 DEF IInv, TypeInv
    <3>2. Tail(s) \in Seq(Number) /\ Len(Tail(s)) = Len(s) - 1 /\ Len(s) \in Nat
      BY <3>1, HeadTailProperties
    <3> QED BY <3>1, <3>2
  <2>4. pipe' \in [Process -> Seq(Number)]
    BY <1>3, <2>3 DEF IInv, TypeInv
  <2>5. \A j \in Process : Len(pipe'[j]) <= PIPESIZE
    BY <1>8, <2>3 DEF IInv, TypeInv
  <2> QED BY <1>1, <2>1, <2>2, <2>4, <2>5 DEF IInv, TypeInv
<1>11. \A j \in Process : Forked(j)' <=> Forked(j)
  BY <1>1, <1>8, <1>9 DEF Forked, Parent
<1>12. \A j \in Process : (pc'[j] = "none" <=> pc[j] = "none")
                         /\ (pc'[j] = "exit" <=> pc[j] = "exit")
  BY <1>1, <1>8
<1>13. ChainInv'
  <2>1. /\ pc'[0] \in {"pipe", "fork", "closeread", "feed", "zero", "wait", "exit"}
        /\ \A j \in Process \ {0} : pc'[j] # "feed"
    BY <1>2, <1>8 DEF IInv, ChainInv
  <2> QED BY <1>11, <1>12, <2>1 DEF IInv, ChainInv
<1>14. NInv'
  <2>1. v # 0 => v \in 2 .. LIMIT - 1 /\ Survives(k, v)
    BY <1>6, <1>7, RankFacts
  <2> QED BY <1>1, <1>2, <1>8, <2>1, SurvivesFrame DEF IInv, NInv, Early
<1>15. NumInv'
  BY <1>1, <1>8, SurvivesFrame DEF IInv, NumInv, Early
<1>16. PipeInv' /\ OrderInv'
  <2>1. \A j \in Process \ {k} : Got(j)' = Got(j) /\ Sent(j)' = Sent(j)
    BY <1>1, <1>8, Frame
  <2>2. Got(k)' = r /\ Sent(k)' = r - 1
    <3>1. Got(k)' = r
      BY <1>6, <1>8 DEF Got, Rank
    <3> QED BY <1>2, <1>8, <3>1 DEF Sent
  <2>3. Sent(k) = Got(k) /\ Got(k) \in Nat
    BY <1>1, <1>2, GotFacts DEF Sent
  <2>4. InFlight(k)' = {x \in InFlight(k) : r < x}
    <3>1. Sent(k - 1)' = Sent(k - 1)
      BY <1>2, <2>1
    <3>2. \A x \in 2 .. LIMIT : r < x => Got(k) < x
      BY <1>7, <2>3
    <3> QED BY <1>1, <2>2, <3>1, <3>2, SurvivesFrame DEF InFlight
  <2>5. Lists(pipe'[k], InFlight(k)')
    BY <1>4, <1>5, <1>6, <1>8, <2>4
  <2>6. Got(k)' <= Sent(k - 1)'
    BY <1>2, <1>7, <2>1, <2>2
  <2>7. ASSUME NEW x \in 2 .. LIMIT, Survives(k + 1, x), Got(k) < x
        PROVE  r <= x
    <3>1. Survives(k, x)
      BY <2>7, SurvivesBefore
    <3> QED BY <1>4, <1>5, <1>6, <2>7, <3>1
  <2>8. InFlight(k + 1)' = InFlight(k + 1)
    <3>1. \A x \in 2 .. LIMIT : Survives(k + 1, x) => (x <= Got(k) <=> x <= r - 1)
      <4>1. ASSUME NEW x \in 2 .. LIMIT, Survives(k + 1, x)
            PROVE  x <= Got(k) <=> x <= r - 1
        BY <1>7, <2>3, <2>7, <4>1
      <4> QED BY <4>1
    <3>2. Sent((k + 1) - 1) = Got(k) /\ Sent((k + 1) - 1)' = r - 1
      BY <2>2, <2>3
    <3>3. Got(k + 1)' = Got(k + 1)
      BY <1>9, <2>1
    <3> QED BY <1>1, <3>1, <3>2, <3>3, SurvivesFrame DEF InFlight
  <2>9. ASSUME NEW j \in Process \ {0, k}, pc'[j] # "none"
        PROVE  Lists(pipe'[j], InFlight(j)') /\ Got(j)' <= Sent(j - 1)'
    <3>1. /\ j - 1 \in Process /\ pc[j] # "none" /\ pipe'[j] = pipe[j]
          /\ Lists(pipe[j], InFlight(j)) /\ Got(j) <= Sent(j - 1)
          /\ Got(j)' = Got(j)
      BY <1>8, <1>12, <2>1, <2>9 DEF IInv, PipeInv, OrderInv
    <3>2. CASE j = k + 1
      <4>1. Got(j) \in Nat /\ j - 1 = k
        BY <3>2, GotFacts
      <4>2. Got(j) <= Got(k)
        BY <2>3, <3>1, <4>1
      <4>3. Got(j)' <= Sent(j - 1)'
        BY <1>7, <2>2, <2>3, <3>1, <4>1, <4>2
      <4> QED BY <2>8, <3>1, <3>2, <4>3
    <3>3. CASE j # k + 1
      <4>1. Sent(j - 1)' = Sent(j - 1)
        <5>1. j - 1 # k
          BY <3>3
        <5> QED BY <2>1, <3>1, <5>1
      <4>2. InFlight(j)' = InFlight(j)
        BY <1>1, <3>1, <4>1, SurvivesFrame DEF InFlight
      <4> QED BY <3>1, <4>1, <4>2
    <3> QED BY <3>2, <3>3
  <2>10. \A j \in Process : j = 0 \/ pc'[j] = "none" => pipe'[j] = <<>>
    BY <1>2, <1>8, <1>12 DEF IInv, PipeInv
  <2>11. \A j \in Process \ {0} :
           pc'[j] # "none" => Lists(pipe'[j], InFlight(j)') /\ Got(j)' <= Sent(j - 1)'
    BY <2>5, <2>6, <2>9
  <2> QED BY <2>10, <2>11, PipesBack
<1>17. PrintedInv'
  BY <1>1, <1>8 DEF IInv, PrintedInv, HasPrinted, Parent
<1>18. FdsInv'
  BY <1>1, <1>8 DEF IInv, FdsInv
<1> QED BY <1>10, <1>13, <1>14, <1>15, <1>16, <1>17, <1>18 DEF IInv

(* The first number that a stage reads is the smallest that survives the   *)
(* stages before it; if it reads the 0 there is none.                      *)
LEMMA ReadFirstStep ==
  ASSUME IInv, NEW k \in Process, ReadFirst(k)
  PROVE  IInv'
<1> USE Constants, ProcessFacts
<1>1. /\ pc[k] = "first" /\ n' = n /\ fds' = fds /\ printed' = printed
      /\ pc' = [pc EXCEPT ![k] = IF num'[k] = 0 THEN "exit" ELSE "print"]
  BY DEF ReadFirst
<1>2. k \in Process \ {0} /\ k - 1 \in Process /\ pc[k - 1] # "exit"
  BY <1>1, NoEndOfFile
<1>3. /\ pipe[k] # <<>>
      /\ num' = [num EXCEPT ![k] = Head(pipe[k])]
      /\ pipe' = [pipe EXCEPT ![k] = Tail(@)]
  BY <1>2 DEF ReadFirst, Receive
<1>4. /\ Head(pipe[k]) \in Number
      /\ Rank(Head(pipe[k])) \in InFlight(k)
      /\ \A x \in 2 .. LIMIT :
           Survives(k, x) /\ Got(k) < x => Rank(Head(pipe[k])) <= x
      /\ Lists(Tail(pipe[k]), {x \in InFlight(k) : Rank(Head(pipe[k])) < x})
  BY <1>1, <1>2, <1>3, ReadPipe
<1>5. PICK v \in Number : v = Head(pipe[k])
  BY <1>4
<1>6. PICK r \in 2 .. LIMIT : r = Rank(v)
  BY <1>4, <1>5 DEF InFlight
<1>7. Survives(k, r) /\ Got(k) = 1 /\ r <= Sent(k - 1)
  BY <1>1, <1>4, <1>5, <1>6 DEF InFlight, Got
<1>8. /\ num'[k] = v /\ pipe'[k] = Tail(pipe[k])
      /\ pc'[k] = IF v = 0 THEN "exit" ELSE "print"
      /\ \A j \in Process \ {k} :
           pc'[j] = pc[j] /\ num'[j] = num[j] /\ pipe'[j] = pipe[j]
  BY <1>1, <1>3, <1>5 DEF IInv, TypeInv
<1>9. ~ Forked(k)
  BY <1>1 DEF Forked, Parent
<1>10. \A j \in Process : k < j => pc[j] = "none"
  BY <1>9 DEF IInv, ChainInv
<1>11. n[k] = 0 /\ num[k] = 0 /\ num[0] = 0 /\ num'[0] = 0
  BY <1>1, <1>2, <1>8 DEF IInv, NInv, NumInv, Early
<1>12. TypeInv'
  <2>1. num' \in [Process -> Number]
    BY <1>3, <1>5 DEF IInv, TypeInv
  <2>2. pc' \in [Process -> Labels]
    BY <1>1 DEF IInv, TypeInv, Labels
  <2>3. Tail(pipe[k]) \in Seq(Number) /\ Len(Tail(pipe[k])) <= PIPESIZE
    <3>1. PICK s \in Seq(Number) : s = pipe[k] /\ s # <<>> /\ Len(s) <= PIPESIZE
      BY <1>3 DEF IInv, TypeInv
    <3>2. Tail(s) \in Seq(Number) /\ Len(Tail(s)) = Len(s) - 1 /\ Len(s) \in Nat
      BY <3>1, HeadTailProperties
    <3> QED BY <3>1, <3>2
  <2>4. pipe' \in [Process -> Seq(Number)]
    BY <1>3, <2>3 DEF IInv, TypeInv
  <2>5. \A j \in Process : Len(pipe'[j]) <= PIPESIZE
    BY <1>8, <2>3 DEF IInv, TypeInv
  <2> QED BY <1>1, <2>1, <2>2, <2>4, <2>5 DEF IInv, TypeInv
<1>13. \A j \in Process : Forked(j)' <=> Forked(j)
  <2>1. ~ Forked(k)'
    BY <1>2, <1>8 DEF Forked, Parent
  <2>2. \A j \in Process \ {k} : Forked(j)' <=> Forked(j)
    BY <1>8 DEF Forked
  <2> QED BY <1>9, <2>1, <2>2
<1>14. \A j \in Process : pc'[j] = "none" <=> pc[j] = "none"
  BY <1>1, <1>8
<1>15. ChainInv'
  <2>1. /\ pc'[0] \in {"pipe", "fork", "closeread", "feed", "zero", "wait", "exit"}
        /\ \A j \in Process \ {0} : pc'[j] # "feed"
    BY <1>2, <1>8 DEF IInv, ChainInv
  <2>2. \A j \in Process : Forked(j)' => j + 1 \in Process /\ pc'[j + 1] # "none"
    BY <1>13, <1>14 DEF IInv, ChainInv
  <2>3. \A i, j \in Process : i < j /\ pc'[j] # "none" => Forked(i)'
    BY <1>13, <1>14 DEF IInv, ChainInv
  <2>4. ASSUME NEW j \in Process, Forked(j)', pc'[j] = "exit"
        PROVE  pc'[j + 1] = "exit"
    <3>1. Forked(j) /\ j # k /\ pc[j] = "exit"
      BY <1>8, <1>9, <1>13, <2>4
    <3>2. j + 1 \in Process /\ pc[j + 1] = "exit"
      BY <3>1 DEF IInv, ChainInv
    <3> QED BY <1>1, <1>8, <3>2
  <2> QED BY <2>1, <2>2, <2>3, <2>4 DEF ChainInv
<1>16. ASSUME NEW j \in Process \ {0}, j <= k, NEW x
       PROVE  Survives(j, x)' <=> Survives(j, x)
  <2>1. \A i \in 1 .. j - 1 : i \in Process \ {k}
    <3>1. \A i \in 1 .. j - 1 : i \in 0 .. j /\ i # k
      BY <1>16
    <3> QED BY <3>1
  <2>2. \A i \in 1 .. j - 1 : num'[i] = num[i]
    BY <1>8, <2>1
  <2> QED BY <2>2 DEF Survives
<1>17. \A j \in Process \ {0} : k < j =>
         pc'[j] = "none" /\ num'[j] = 0 /\ n'[j] = 0
  <2> SUFFICES ASSUME NEW j \in Process \ {0}, k < j
               PROVE  pc'[j] = "none" /\ num'[j] = 0 /\ n'[j] = 0
    OBVIOUS
  <2>1. pc[j] = "none" /\ j # k
    BY <1>10
  <2>2. num[j] = 0 /\ n[j] = 0
    BY <2>1 DEF IInv, NumInv, NInv, Early
  <2> QED BY <1>1, <1>8, <2>1, <2>2
<1>18. \A j \in Process \ {0} : j <= k \/ k < j
  OBVIOUS
<1>19. v # 0 => v \in 2 .. LIMIT - 1 /\ v = r
  BY <1>6, RankFacts
<1>20. NInv'
  <2> SUFFICES ASSUME NEW j \in Process \ {0}
               PROVE  /\ pc'[j] \in Early \cup {"print", "pipe", "fork", "closeread"}
                            => n'[j] = 0
                      /\ n'[j] # 0 => n'[j] \in 2 .. LIMIT - 1 /\ Survives(j, n[j])'
                      /\ pc'[j] = "zero" => n'[j] = 0
    BY <1>1, <1>2, <1>8 DEF IInv, NInv
  <2>1. CASE j = k
    BY <1>1, <1>11, <2>1
  <2>2. CASE k < j
    BY <1>17, <2>2
  <2>3. CASE j < k
    <3>1. pc'[j] = pc[j] /\ n'[j] = n[j] /\ j <= k
      BY <1>1, <1>8, <2>3
    <3>2. \A x : Survives(j, x)' <=> Survives(j, x)
      BY <1>16, <3>1
    <3>3. Survives(j, n[j])' <=> Survives(j, n[j])
      BY <3>1, <3>2 DEF Survives
    <3> QED BY <1>1, <3>1, <3>3 DEF IInv, NInv
  <2> QED BY <2>1, <2>2, <2>3
<1>21. NumInv'
  <2> SUFFICES ASSUME NEW j \in Process \ {0}
               PROVE  /\ pc'[j] \in Early => num'[j] = 0
                      /\ pc'[j] \notin Early \cup {"exit"} => num'[j] # 0
                      /\ pc'[j] = "exit" /\ num'[j] = 0 =>
                           \A x \in 2 .. LIMIT : Survives(j, x)' => x = LIMIT
                      /\ num'[j] # 0 =>
                           /\ num'[j] \in 2 .. LIMIT - 1
                           /\ Survives(j, num[j])'
                           /\ \A x \in 2 .. LIMIT : Survives(j, x)' => num'[j] <= x
    BY <1>11 DEF NumInv
  <2>1. CASE j = k
    <3>1. pc'[j] \notin Early /\ (pc'[j] # "exit" => num'[j] # 0)
      BY <1>8, <2>1 DEF Early
    <3>2. ASSUME v # 0
          PROVE  /\ v \in 2 .. LIMIT - 1 /\ Survives(k, v)'
                 /\ \A x \in 2 .. LIMIT : Survives(k, x)' => v <= x
      <4>1. v \in 2 .. LIMIT - 1 /\ v = r
        BY <1>19, <3>2
      <4>2. \A x : Survives(k, x)' <=> Survives(k, x)
        BY <1>2, <1>16
      <4>3. Survives(k, v)
        BY <1>7, <4>1
      <4>4. \A x \in 2 .. LIMIT : Survives(k, x) => v <= x
        BY <1>4, <1>5, <1>6, <1>7, <4>1
      <4>5. Survives(k, v)'
        BY <4>2, <4>3
      <4>6. \A x \in 2 .. LIMIT : Survives(k, x)' => v <= x
        BY <4>2, <4>4
      <4> QED BY <4>1, <4>5, <4>6
    <3>3. num'[j] = v
      BY <1>8, <2>1
    <3>5. ASSUME v = 0
          PROVE  \A x \in 2 .. LIMIT : Survives(k, x)' => x = LIMIT
      <4>1. \A x : Survives(k, x)' <=> Survives(k, x)
        BY <1>2, <1>16
      <4>2. r = LIMIT
        BY <1>6, <3>5 DEF Rank
      <4>3. \A x \in 2 .. LIMIT : Survives(k, x) => r <= x
        BY <1>4, <1>5, <1>6, <1>7
      <4>4. \A x \in 2 .. LIMIT : Survives(k, x) => x = LIMIT
        BY <4>2, <4>3
      <4> QED BY <4>1, <4>4
    <3>4. Survives(j, num[j])' <=> Survives(k, v)'
      BY <2>1, <3>3 DEF Survives
    <3> QED BY <2>1, <3>1, <3>2, <3>3, <3>4, <3>5
  <2>2. CASE k < j
    BY <1>17, <2>2 DEF Early
  <2>3. CASE j < k
    <3>1. pc'[j] = pc[j] /\ num'[j] = num[j] /\ j <= k
      BY <1>8, <2>3
    <3>2. \A x : Survives(j, x)' <=> Survives(j, x)
      BY <1>16, <3>1
    <3>3. Survives(j, num[j])' <=> Survives(j, num[j])
      BY <3>1, <3>2 DEF Survives
    <3> QED BY <3>1, <3>2, <3>3 DEF IInv, NumInv
  <2> QED BY <2>1, <2>2, <2>3
<1>22. PipeInv' /\ OrderInv'
  <2>1. \A j \in Process \ {k} : Got(j)' = Got(j) /\ Sent(j)' = Sent(j)
    BY <1>1, <1>8, Frame
  <2>2. Got(k)' = r
    <3>1. CASE v = 0
      <4>1. pc'[k] = "exit" /\ r = LIMIT
        BY <1>6, <1>8, <3>1 DEF Rank
      <4> QED BY <4>1 DEF Got
    <3>2. CASE v # 0
      <4>1. pc'[k] = "print" /\ r = v /\ n'[k] = 0 /\ num'[k] = v
        BY <1>1, <1>6, <1>8, <1>11, <3>2 DEF Rank
      <4> QED BY <4>1 DEF Got
    <3> QED BY <3>1, <3>2
  <2>3. ASSUME NEW j \in Process \ {0}, pc'[j] # "none"
        PROVE  Lists(pipe'[j], InFlight(j)') /\ Got(j)' <= Sent(j - 1)'
    <3>1. j <= k
      BY <1>17, <1>18, <2>3
    <3>2. j - 1 \in Process \ {k}
      <4>1. j - 1 # k /\ j - 1 \in 0 .. j
        BY <3>1
      <4> QED BY <4>1
    <3>3. Sent(j - 1)' = Sent(j - 1)
      BY <2>1, <3>2
    <3>4. \A x : Survives(j, x)' <=> Survives(j, x)
      BY <1>16, <3>1
    <3>5. CASE j = k
      <4>1. InFlight(k)' = {x \in InFlight(k) : r < x}
        <5>1. \A x \in 2 .. LIMIT : r < x => 1 < x
          OBVIOUS
        <5> QED BY <1>7, <2>2, <3>3, <3>4, <3>5, <5>1 DEF InFlight
      <4>2. Lists(pipe'[k], InFlight(k)')
        BY <1>4, <1>5, <1>6, <1>8, <4>1
      <4> QED BY <1>7, <2>2, <3>3, <3>5, <4>2
    <3>6. CASE j # k
      <4>1. /\ pc[j] # "none" /\ pipe'[j] = pipe[j] /\ Got(j)' = Got(j)
            /\ Lists(pipe[j], InFlight(j)) /\ Got(j) <= Sent(j - 1)
        BY <1>8, <1>14, <2>1, <2>3, <3>6 DEF IInv, PipeInv, OrderInv
      <4>2. InFlight(j)' = InFlight(j)
        BY <3>3, <3>4, <4>1 DEF InFlight
      <4> QED BY <3>3, <4>1, <4>2
    <3> QED BY <3>5, <3>6
  <2>4. \A j \in Process : j = 0 \/ pc'[j] = "none" => pipe'[j] = <<>>
    BY <1>1, <1>2, <1>8, <1>14 DEF IInv, PipeInv
  <2> QED BY <2>3, <2>4, PipesBack
<1>23. PrintedInv'
  <2>1. ~ HasPrinted(k) /\ ~ HasPrinted(k)'
    <3>1. ~ HasPrinted(k)
      BY <1>11 DEF HasPrinted
    <3>2. ~ HasPrinted(k)'
      BY <1>8 DEF HasPrinted, Parent
    <3> QED BY <3>1, <3>2
  <2>2. \A j \in Process : HasPrinted(j)' <=> HasPrinted(j)
    BY <1>8, <2>1 DEF HasPrinted
  <2>3. \A j \in 1 .. Len(printed) : j \in Process \ {0, k}
    <3>1. \A j \in 1 .. Len(printed) : j \in 0 .. Len(printed) /\ j # 0 /\ j <= Len(printed)
      BY DEF IInv, PrintedInv
    <3>2. \A j \in 1 .. Len(printed) : j \in Process \ {0}
      BY <3>1 DEF IInv, PrintedInv
    <3>3. ~ (k <= Len(printed))
      BY <1>2, <2>1 DEF IInv, PrintedInv
    <3> QED BY <3>1, <3>2, <3>3
  <2>4. \A j \in 1 .. Len(printed) : num'[j] = num[j]
    BY <1>8, <2>3
  <2> QED BY <1>1, <2>2, <2>4 DEF IInv, PrintedInv
<1>24. FdsInv'
  BY <1>1, <1>8 DEF IInv, FdsInv
<1> QED BY <1>12, <1>15, <1>20, <1>21, <1>22, <1>23, <1>24 DEF IInv

-----------------------------------------------------------------------------
(* A step that leaves every variable as it is.                             *)
LEMMA StutterIInv ==
  ASSUME IInv, UNCHANGED vars
  PROVE  IInv'
<1> USE DEF vars
<1>1. TypeInv' /\ ChainInv' /\ NInv' /\ NumInv'
  BY DEF IInv, TypeInv, ChainInv, NInv, NumInv, Forked, Survives
<1>2. \A k \in Process : Got(k)' = Got(k) /\ Sent(k)' = Sent(k)
  BY Frame
<1>3. PipeInv' /\ OrderInv'
  BY <1>2, QuietPipes, QuietOrder DEF IInv
<1>4. PrintedInv' /\ FdsInv'
  BY DEF IInv, PrintedInv, FdsInv, HasPrinted
<1> QED BY <1>1, <1>3, <1>4 DEF IInv

(* The invariant is inductive.                                             *)
THEOREM Invariance == Spec => []IInv
<1>1. Init => IInv
  BY InitIInv
<1>2. IInv /\ [Next]_vars => IInv'
  <2> SUFFICES ASSUME IInv, [Next]_vars PROVE IInv'
    OBVIOUS
  <2>1. CASE UNCHANGED vars
    BY <2>1, StutterIInv
  <2>2. ASSUME NEW k \in Process, Step(k) PROVE IInv'
    BY <2>2, MakePipeStep, ForkStep, CloseReadStep, CloseWriteStep, FeedStep,
       ReadFirstStep, PrintPrimeStep, ReadNextStep, PassStep, DropStep,
       SendZeroStep, WaitStep DEF Step
  <2> QED BY <2>1, <2>2 DEF Next
<1> QED BY <1>1, <1>2, PTL DEF Spec

(* Every variable keeps its type.                                          *)
THEOREM TypeCorrect == Spec => []TypeOK
<1>1. IInv => TypeOK
  <2> SUFFICES ASSUME IInv PROVE TypeOK
    OBVIOUS
  <2>1. ASSUME NEW k \in Process
        PROVE  pipe[k] \in BoundedSeq(Number, PIPESIZE)
    <3>1. PICK s \in Seq(Number) : s = pipe[k] /\ Len(s) <= PIPESIZE
      BY DEF IInv, TypeInv
    <3>2. s \in [1 .. Len(s) -> Number] /\ Len(s) \in 0 .. PIPESIZE
      BY <3>1, Constants, LenProperties
    <3> QED BY <3>1, <3>2 DEF BoundedSeq, SeqOf
  <2> QED BY <2>1 DEF IInv, TypeInv, TypeOK
<1> QED BY <1>1, Invariance, PTL

(* What has been printed is the smallest primes, each once and in order,   *)
(* whichever process runs when and however small the pipes are.            *)
THEOREM OutputIsPrimes == Spec => []PrintsPrimes
BY Invariance, IInvPrintsPrimes, PTL

(* The last stage holds the read ends of all the pipes before its own:     *)
(* with five descriptors more than there are primes no process runs out.   *)
THEOREM EnoughDescriptors ==
  ASSUME Cardinality(Primes) + 5 <= NOFILE
  PROVE  Spec => []DescriptorsSuffice
<1>1. IInv => DescriptorsSuffice
  <2> SUFFICES ASSUME IInv, NEW k \in Process PROVE fds[k] <= NOFILE
    BY DEF DescriptorsSuffice
  <2>1. Cardinality(Primes) \in Nat /\ fds[k] <= Cardinality(Primes) + 5
    BY ShownBound, IInvDescriptors
  <2>2. fds[k] \in Nat
    BY DEF IInv, TypeInv
  <2> QED BY <2>1, <2>2, Constants
<1> QED BY <1>1, Invariance, PTL

-----------------------------------------------------------------------------
(* The descriptors of the program                                          *)

(* Counting an enumerated set, an element at a time.                       *)
LEMMA OneMore ==
  ASSUME NEW S, IsFiniteSet(S), NEW c \in Nat, Cardinality(S) <= c, NEW x
  PROVE  /\ IsFiniteSet(S \cup {x})
         /\ c + 1 \in Nat
         /\ Cardinality(S \cup {x}) <= c + 1
<1>1. PICK k \in Nat : k = Cardinality(S) /\ k <= c
  BY FS_CardinalityType
<1>2. IsFiniteSet(S \cup {x})
  BY FS_AddElement
<1>3. Cardinality(S \cup {x}) = IF x \in S THEN k ELSE k + 1
  BY <1>1, FS_AddElement
<1> QED BY <1>1, <1>2, <1>3

(* Each number below 36 that is not one of these has the divisor 2, 3 or 5. *)
LEMMA PrimesBelow36 ==
  ASSUME LIMIT = 36
  PROVE  Primes \subseteq {2, 3, 5, 7, 11, 13, 17, 19, 23, 29, 31}
<1> SUFFICES ASSUME NEW m \in Primes,
                    m \notin {2, 3, 5, 7, 11, 13, 17, 19, 23, 29, 31}
             PROVE  FALSE
  OBVIOUS
<1>1. m \in 2 .. 35 /\ \A d \in 2 .. m - 1 : m % d # 0
  BY DEF Primes
<1>2. m % 2 = 0 \/ m % 3 = 0 \/ m % 5 = 0
  BY <1>1
<1>3. m > 5 \/ m = 4
  BY <1>1
<1>4. 2 \in 2 .. m - 1 /\ (m > 5 => 3 \in 2 .. m - 1 /\ 5 \in 2 .. m - 1)
  BY <1>1, <1>3
<1>5. m % 2 # 0
  BY <1>1, <1>4
<1>6. m # 4
  BY <1>5
<1> QED BY <1>1, <1>2, <1>3, <1>4, <1>5, <1>6

(* primes() up to 35 never asks for a descriptor more than the 16 that a   *)
(* process may have.                                                       *)
THEOREM ProgramHasDescriptors ==
  ASSUME LIMIT = 36, NOFILE = 16
  PROVE  Spec => []DescriptorsSuffice
<1>1. IsFiniteSet({2}) /\ Cardinality({2}) <= 1
  <2>1. IsFiniteSet({2}) /\ Cardinality({2}) = 1
    BY FS_Singleton, Zenon
  <2> QED BY <2>1
<1>2. IsFiniteSet({2, 3}) /\ Cardinality({2, 3}) <= 2
  <2>1. {2, 3} = {2} \cup {3}
    OBVIOUS
  <2>2. IsFiniteSet({2} \cup {3}) /\ Cardinality({2} \cup {3}) <= 1 + 1
    BY <1>1, OneMore
  <2> QED BY <2>1, <2>2
<1>3. IsFiniteSet({2, 3, 5}) /\ Cardinality({2, 3, 5}) <= 3
  <2>1. {2, 3, 5} = {2, 3} \cup {5}
    OBVIOUS
  <2>2. IsFiniteSet({2, 3} \cup {5}) /\ Cardinality({2, 3} \cup {5}) <= 2 + 1
    BY <1>2, OneMore
  <2> QED BY <2>1, <2>2
<1>4. IsFiniteSet({2, 3, 5, 7}) /\ Cardinality({2, 3, 5, 7}) <= 4
  <2>1. {2, 3, 5, 7} = {2, 3, 5} \cup {7}
    OBVIOUS
  <2>2. IsFiniteSet({2, 3, 5} \cup {7}) /\ Cardinality({2, 3, 5} \cup {7}) <= 3 + 1
    BY <1>3, OneMore
  <2> QED BY <2>1, <2>2
<1>5. IsFiniteSet({2, 3, 5, 7, 11}) /\ Cardinality({2, 3, 5, 7, 11}) <= 5
  <2>1. {2, 3, 5, 7, 11} = {2, 3, 5, 7} \cup {11}
    OBVIOUS
  <2>2. IsFiniteSet({2, 3, 5, 7} \cup {11}) /\ Cardinality({2, 3, 5, 7} \cup {11}) <= 4 + 1
    BY <1>4, OneMore
  <2> QED BY <2>1, <2>2
<1>6. IsFiniteSet({2, 3, 5, 7, 11, 13}) /\ Cardinality({2, 3, 5, 7, 11, 13}) <= 6
  <2>1. {2, 3, 5, 7, 11, 13} = {2, 3, 5, 7, 11} \cup {13}
    OBVIOUS
  <2>2. IsFiniteSet({2, 3, 5, 7, 11} \cup {13}) /\ Cardinality({2, 3, 5, 7, 11} \cup {13}) <= 5 + 1
    BY <1>5, OneMore
  <2> QED BY <2>1, <2>2
<1>7. IsFiniteSet({2, 3, 5, 7, 11, 13, 17}) /\ Cardinality({2, 3, 5, 7, 11, 13, 17}) <= 7
  <2>1. {2, 3, 5, 7, 11, 13, 17} = {2, 3, 5, 7, 11, 13} \cup {17}
    OBVIOUS
  <2>2. IsFiniteSet({2, 3, 5, 7, 11, 13} \cup {17}) /\ Cardinality({2, 3, 5, 7, 11, 13} \cup {17}) <= 6 + 1
    BY <1>6, OneMore
  <2> QED BY <2>1, <2>2
<1>8. IsFiniteSet({2, 3, 5, 7, 11, 13, 17, 19}) /\ Cardinality({2, 3, 5, 7, 11, 13, 17, 19}) <= 8
  <2>1. {2, 3, 5, 7, 11, 13, 17, 19} = {2, 3, 5, 7, 11, 13, 17} \cup {19}
    OBVIOUS
  <2>2. IsFiniteSet({2, 3, 5, 7, 11, 13, 17} \cup {19}) /\ Cardinality({2, 3, 5, 7, 11, 13, 17} \cup {19}) <= 7 + 1
    BY <1>7, OneMore
  <2> QED BY <2>1, <2>2
<1>9. IsFiniteSet({2, 3, 5, 7, 11, 13, 17, 19, 23}) /\ Cardinality({2, 3, 5, 7, 11, 13, 17, 19, 23}) <= 9
  <2>1. {2, 3, 5, 7, 11, 13, 17, 19, 23} = {2, 3, 5, 7, 11, 13, 17, 19} \cup {23}
    OBVIOUS
  <2>2. IsFiniteSet({2, 3, 5, 7, 11, 13, 17, 19} \cup {23}) /\ Cardinality({2, 3, 5, 7, 11, 13, 17, 19} \cup {23}) <= 8 + 1
    BY <1>8, OneMore
  <2> QED BY <2>1, <2>2
<1>10. IsFiniteSet({2, 3, 5, 7, 11, 13, 17, 19, 23, 29}) /\ Cardinality({2, 3, 5, 7, 11, 13, 17, 19, 23, 29}) <= 10
  <2>1. {2, 3, 5, 7, 11, 13, 17, 19, 23, 29} = {2, 3, 5, 7, 11, 13, 17, 19, 23} \cup {29}
    OBVIOUS
  <2>2. IsFiniteSet({2, 3, 5, 7, 11, 13, 17, 19, 23} \cup {29}) /\ Cardinality({2, 3, 5, 7, 11, 13, 17, 19, 23} \cup {29}) <= 9 + 1
    BY <1>9, OneMore
  <2> QED BY <2>1, <2>2
<1>11. IsFiniteSet({2, 3, 5, 7, 11, 13, 17, 19, 23, 29, 31}) /\ Cardinality({2, 3, 5, 7, 11, 13, 17, 19, 23, 29, 31}) <= 11
  <2>1. {2, 3, 5, 7, 11, 13, 17, 19, 23, 29, 31} = {2, 3, 5, 7, 11, 13, 17, 19, 23, 29} \cup {31}
    OBVIOUS
  <2>2. IsFiniteSet({2, 3, 5, 7, 11, 13, 17, 19, 23, 29} \cup {31}) /\ Cardinality({2, 3, 5, 7, 11, 13, 17, 19, 23, 29} \cup {31}) <= 10 + 1
    BY <1>10, OneMore
  <2> QED BY <2>1, <2>2
<1>12. Cardinality(Primes) <= 11 /\ Cardinality(Primes) \in Nat
  <2>1. PICK T : T = {2, 3, 5, 7, 11, 13, 17, 19, 23, 29, 31}
    OBVIOUS
  <2>2. IsFiniteSet(T) /\ Cardinality(T) <= 11 /\ Primes \in SUBSET T
    BY <1>11, <2>1, PrimesBelow36
  <2>3. IsFiniteSet(Primes) /\ Cardinality(Primes) <= Cardinality(T)
    BY <2>2, FS_Subset
  <2>4. Cardinality(Primes) \in Nat /\ Cardinality(T) \in Nat
    BY <2>2, <2>3, FS_CardinalityType
  <2> QED BY <2>2, <2>3, <2>4
<1>13. Cardinality(Primes) + 5 <= NOFILE
  BY <1>12
<1> QED BY <1>13, EnoughDescriptors

-----------------------------------------------------------------------------
(* The end of the program                                                  *)

(* The guards of process k's actions.                                      *)
Ready(k) ==
  \/ pc[k] \in {"pipe", "closeread", "closewrite", "print"}
  \/ pc[k] = "fork" /\ k + 1 \in Process
  \/ pc[k] \in {"first", "read"} /\ (pipe[k] # <<>> \/ pc[k - 1] = "exit")
  \/ pc[k] = "test" /\ n[k] % num[k] = 0
  \/ /\ pc[k] \in {"feed", "zero"} \/ (pc[k] = "test" /\ n[k] % num[k] # 0)
     /\ Len(pipe[k + 1]) < PIPESIZE
  \/ pc[k] = "wait" /\ pc[k + 1] = "exit"

(* As long as main() has not ended, some process can go on: they never all *)
(* wait for each other.                                                    *)
SomeProcessReady == pc[0] # "exit" => \E k \in Process : Ready(k)

(* When main() ends every process has ended, and all the primes have been  *)
(* printed.                                                                *)
EndsComplete ==
  pc[0] = "exit" =>
    /\ \A k \in Process : pc[k] \in {"none", "exit"}
    /\ Len(printed) = Cardinality(Primes)

(* How far process k has come: its place in the program and the numbers it *)
(* has received.                                                           *)
Position(k) ==
  CASE pc[k] = "none"       -> 0
    [] pc[k] = "closewrite" -> 1
    [] pc[k] = "first"      -> 2
    [] pc[k] = "print"      -> 3
    [] pc[k] = "pipe"       -> 4
    [] pc[k] = "fork"       -> 5
    [] pc[k] = "closeread"  -> 6
    [] pc[k] = "feed"       -> 6 + n[k]
    [] pc[k] = "read"       -> 7 + 2 * Got(k)
    [] pc[k] = "test"       -> 6 + 2 * Got(k)
    [] pc[k] = "zero"       -> 7 + 2 * LIMIT
    [] pc[k] = "wait"       -> 8 + 2 * LIMIT
    [] pc[k] = "exit"       -> 9 + 2 * LIMIT

(* Every step takes a process further, and none back: there are at most    *)
(* 9 + 2 * LIMIT steps of each.                                            *)
Advance ==
  /\ \A k \in Process : Position(k) \in 0 .. 9 + 2 * LIMIT
  /\ \A k \in Process : Position(k) <= Position(k)'
  /\ \E k \in Process : Position(k) < Position(k)'

(* A set of natural numbers that is not empty has a least element.         *)
LEMMA Least ==
  ASSUME NEW T \in SUBSET Nat, T # {}
  PROVE  \E m \in T : \A k \in T : m <= k
<1> DEFINE R == OpToRel(<, Nat)
<1>1. IsWellFoundedOn(R, Nat)
  BY NatLessThanWellFounded
<1>2. \A x, y \in Nat : <<y, x>> \in R <=> y < x
  BY DEF OpToRel
<1> HIDE DEF R
<1>3. PICK x \in T : \A y \in T : ~ (<<y, x>> \in R)
  BY <1>1, WFMin
<1>4. \A y \in T : ~ (y < x)
  BY <1>2, <1>3
<1> QED BY <1>4

(* The stages before one that has a number have theirs.                    *)
LEMMA StageNumbers ==
  ASSUME IInv, NEW k \in Process \ {0}, num[k] # 0, NEW j \in 1 .. k
  PROVE  /\ j \in Process \ {0}
         /\ num[j] \in 2 .. LIMIT - 1
         /\ Survives(j, num[j])
         /\ \A x \in 2 .. LIMIT : Survives(j, x) => num[j] <= x
<1>1. j \in Process \ {0}
  BY ProcessFacts
<1>2. CASE j = k
  BY <1>1, <1>2 DEF IInv, NumInv
<1>3. CASE j # k
  <2>1. j < k
    BY <1>3, ProcessFacts
  <2>2. pc[k] # "none"
    BY DEF IInv, NumInv, Early
  <2>3. Forked(j)
    BY <1>1, <2>1, <2>2 DEF IInv, ChainInv
  <2>4. num[j] # 0
    BY <1>1, <2>3 DEF IInv, NumInv, Forked, Early, Parent
  <2> QED BY <1>1, <2>4 DEF IInv, NumInv
<1> QED BY <1>2, <1>3

(* Two stages' numbers are at least 2 apart but for 2 and 3: the j-th is   *)
(* not less than 2 * j - 1.                                                *)
LEMMA StageBound ==
  ASSUME IInv, NEW k \in Process \ {0}, num[k] # 0
  PROVE  \A j \in 1 .. k : 2 * j - 1 <= num[j]
<1> DEFINE T == {j \in 1 .. k : num[j] < 2 * j - 1}
<1> SUFFICES ASSUME T # {} PROVE FALSE
  <2>1. \A j \in 1 .. k : num[j] \in Nat
    BY StageNumbers, Constants
  <2>2. k \in Nat
    BY ProcessFacts
  <2> QED BY <2>1, <2>2
<1>1. k \in Nat
  BY ProcessFacts
<1>2. T \in SUBSET Nat
  BY <1>1
<1>3. PICK j \in T : \A i \in T : j <= i
  BY <1>2, Least
<1>4. j \in 1 .. k /\ num[j] < 2 * j - 1 /\ num[j] \in 2 .. LIMIT - 1
      /\ Survives(j, num[j])
  BY StageNumbers
<1>5. j \in Nat /\ j >= 2
  BY <1>1, <1>4, Constants
<1>6. PICK i \in 1 .. k : i = j - 1
  BY <1>1, <1>4, <1>5
<1>7. /\ num[i] \in 2 .. LIMIT - 1
      /\ \A x \in 2 .. LIMIT : Survives(i, x) => num[i] <= x
      /\ 2 * i - 1 <= num[i]
  <2>1. i \notin T
    BY <1>3, <1>5, <1>6
  <2>2. num[i] \in 2 .. LIMIT - 1
    BY StageNumbers
  <2> QED BY <1>1, <2>1, <2>2, StageNumbers, Constants
<1>8. num[j] # LIMIT
  BY <1>4, Constants
<1>9. \A h \in 1 .. i : num[j] % num[h] # 0
  BY <1>4, <1>6, <1>8 DEF Survives
<1>10. Survives(i, num[j])
  BY <1>9 DEF Survives
<1>11. num[i] <= num[j] /\ num[i] # num[j]
  <2>1. num[i] <= num[j]
    BY <1>4, <1>7, <1>10, Constants
  <2>2. num[j] % num[i] # 0 /\ num[j] \in Nat \ {0}
    BY <1>4, <1>6, <1>9, Constants
  <2> QED BY <2>1, <2>2, ModSelf
<1>12. num[j] = 2 * i
  <2>1. PICK a \in Nat, b \in Nat : a = num[i] /\ b = num[j]
    BY <1>4, <1>7, Constants
  <2>2. /\ b < 2 * (i + 1) - 1 /\ 2 * i - 1 <= a /\ a <= b /\ a # b
    BY <1>4, <1>5, <1>6, <1>7, <1>11, <2>1
  <2>3. b = 2 * i
    BY <2>2
  <2> QED BY <2>1, <2>3
<1>13. num[1] = 2
  <2>1. 1 \in 1 .. k
    BY <1>1, <1>4, <1>5
  <2>2. num[1] \in 2 .. LIMIT - 1 /\ \A x \in 2 .. LIMIT : Survives(1, x) => num[1] <= x
    BY <2>1, StageNumbers
  <2>3. Survives(1, 2) /\ 2 \in 2 .. LIMIT
    BY Constants DEF Survives
  <2>4. num[1] <= 2
    BY <2>2, <2>3
  <2> QED BY <2>2, <2>4, Constants
<1>14. num[j] % 2 = 0
  BY <1>6, <1>12
<1>15. num[j] % num[1] # 0
  BY <1>6, <1>9
<1> QED BY <1>13, <1>14, <1>15

(* There are enough processes: a stage that forks has one left.            *)
LEMMA ChainFits ==
  ASSUME IInv, NEW k \in Process, pc[k] = "fork"
  PROVE  k + 1 \in Process
<1>1. CASE k = 0
  BY <1>1, ProcessFacts
<1>2. CASE k # 0
  <2>1. num[k] # 0
    BY <1>2 DEF IInv, NumInv, Early
  <2>2. k \in Nat /\ k \in 1 .. k
    BY <1>2, ProcessFacts
  <2>3. 2 * k - 1 <= num[k] /\ num[k] \in 2 .. LIMIT - 1
    BY <1>2, <2>1, <2>2, StageBound, StageNumbers
  <2>4. PICK a \in Nat : a = num[k]
    BY <2>3, Constants
  <2>5. 2 * k <= LIMIT
    BY <2>2, <2>3, <2>4, Constants
  <2>6. k <= LIMIT \div 2
    BY <2>2, <2>5, Constants
  <2> QED BY <2>2, <2>6, Constants DEF Process
<1> QED BY <1>1, <1>2

(* The last process of all has no child.                                   *)
LEMMA LastProcess ==
  \E last \in Process : last + 1 \notin Process
<1>1. PICK m \in Nat : m = LIMIT \div 2
  BY LIMITAssumption
<1>2. Process = 0 .. m + 1
  BY <1>1 DEF Process
<1>3. m + 1 \in Process /\ (m + 1) + 1 \notin Process
  BY <1>2
<1> QED BY <1>3

(* Nobody waits in a circle: a chain of processes that wait to write or    *)
(* for their child ends at one that can go on.                             *)
LEMMA IInvReady ==
  ASSUME IInv, pc[0] # "exit"
  PROVE  \E k \in Process : Ready(k)
<1> SUFFICES ASSUME \A k \in Process : ~ Ready(k) PROVE FALSE
  OBVIOUS
<1> USE ProcessFacts, Constants
<1> DEFINE Held == {"feed", "zero", "test", "wait"}
           T == {k \in Process : pc[k] \notin Held}
<1>1. T \in SUBSET Nat /\ T # {}
  <2>1. PICK last \in Process : last + 1 \notin Process
    BY LastProcess
  <2>2. ~ Forked(last)
    BY <2>1 DEF IInv, ChainInv
  <2>3. last \in T
    BY <2>2 DEF Forked, Parent
  <2> QED BY <2>3
<1>2. PICK b \in T : \A k \in T : b <= k
  BY <1>1, Least
<1>3. b # 0
  <2>1. pc[0] \in {"pipe", "fork", "closeread", "feed", "zero", "wait"}
    BY DEF IInv, ChainInv
  <2>2. ~ Ready(0)
    OBVIOUS
  <2>3. pc[0] \in Held
    BY <2>1, <2>2 DEF Ready
  <2> QED BY <2>3
<1>4. PICK a \in Process : b = a + 1
  <2>1. b - 1 \in Process /\ b = (b - 1) + 1
    BY <1>3
  <2> QED BY <2>1
<1>5. pc[a] \in Held
  <2>1. ~ (b <= a) /\ a \in Nat
    BY <1>4
  <2> QED BY <1>2, <2>1
<1>6. Forked(a) /\ pc[b] # "none" /\ b \in Process \ {0} /\ b - 1 = a
  <2>1. Forked(a)
    BY <1>5 DEF Forked, Parent
  <2> QED BY <1>3, <1>4, <2>1 DEF IInv, ChainInv
<1>7. ~ Ready(a) /\ ~ Ready(b)
  BY <1>6
<1>8. pc[b] \in {"first", "read", "exit"}
  <2>1. pc[b] \in Labels /\ pc[b] # "feed"
    BY <1>6 DEF IInv, TypeInv, ChainInv
  <2>2. pc[b] # "fork"
    BY <1>6, <1>7, ChainFits DEF Ready
  <2> QED BY <1>2, <1>6, <1>7, <2>1, <2>2 DEF Ready, Labels
<1>9. Lists(pipe[b], InFlight(b))
  BY <1>6 DEF IInv, PipeInv
<1>10. pipe[b] = <<>>
  <2>1. CASE pc[b] = "exit"
    <3>1. Got(b) = LIMIT
      BY <2>1 DEF Got
    <3>2. InFlight(b) = {}
      BY <3>1 DEF InFlight
    <3> QED BY <1>9, <3>2, ListsTail
  <2>2. CASE pc[b] # "exit"
    BY <1>7, <1>8, <2>2 DEF Ready
  <2> QED BY <2>1, <2>2
<1>11. Len(pipe[a + 1]) < PIPESIZE
  BY <1>4, <1>10, EmptySeq, PIPESIZEAssumption
<1>12. pc[a] = "wait"
  BY <1>5, <1>7, <1>11 DEF Ready
<1>13. pc[b] # "exit"
  BY <1>4, <1>7, <1>12 DEF Ready
<1>14. Got(b) < LIMIT
  <2>1. pc[b] \in {"first", "read"}
    BY <1>8, <1>13
  <2>2. CASE pc[b] = "first"
    BY <2>2 DEF Got
  <2>3. CASE pc[b] = "read"
    <3>1. num[b] \in 2 .. LIMIT - 1
      BY <1>6, <2>3 DEF IInv, NumInv, Early
    <3>2. n[b] # 0 => n[b] \in 2 .. LIMIT - 1
      BY <1>6 DEF IInv, NInv
    <3> QED BY <2>3, <3>1, <3>2 DEF Got
  <2> QED BY <2>1, <2>2, <2>3
<1>15. Sent(a) = LIMIT
  BY <1>12 DEF Sent, Got
<1>16. LIMIT \in InFlight(b)
  BY <1>6, <1>14, <1>15 DEF InFlight, Survives
<1>17. PICK j \in 1 .. Len(pipe[b]) : LIMIT = Rank(pipe[b][j])
  BY <1>9, <1>16 DEF Lists
<1>18. Len(pipe[b]) = 0
  BY <1>10, EmptySeq
<1> QED BY <1>17, <1>18

(* No number of pipes being full makes the processes wait for each other:  *)
(* until main() has ended one of them can read, write or end.              *)
THEOREM NoDeadlock == Spec => []SomeProcessReady
<1>1. IInv => SomeProcessReady
  BY IInvReady DEF SomeProcessReady
<1> QED BY <1>1, Invariance, PTL

(* Every descendant of main() ends before it does.                         *)
LEMMA AllEnded ==
  ASSUME IInv, pc[0] = "exit"
  PROVE  \E b \in Process \ {0} :
           /\ pc[b] = "exit" /\ num[b] = 0
           /\ \A k \in Process : IF k <= b THEN pc[k] = "exit" ELSE pc[k] = "none"
<1> USE ProcessFacts
<1> DEFINE T == {k \in Process : ~ Forked(k)}
<1>1. T \in SUBSET Nat /\ T # {}
  <2>1. PICK last \in Process : last + 1 \notin Process
    BY LastProcess
  <2>2. ~ Forked(last)
    BY <2>1 DEF IInv, ChainInv
  <2> QED BY <2>2
<1>2. PICK b \in T : \A k \in T : b <= k
  BY <1>1, Least
<1>3. b \in Process /\ b \in Nat /\ ~ Forked(b) /\ b # 0
  BY DEF Forked
<1>4. \A k \in 0 .. b : pc[k] = "exit"
  <2> DEFINE U == {k \in 0 .. b : pc[k] # "exit"}
  <2> SUFFICES ASSUME U # {} PROVE FALSE
    OBVIOUS
  <2>1. PICK u \in U : \A k \in U : u <= k
    <3>1. U \in SUBSET Nat
      BY <1>3
    <3> QED BY <3>1, Least
  <2>2. u \in 0 .. b /\ u # 0 /\ u \in Nat
    BY <1>3
  <2>3. PICK a \in 0 .. b : u = a + 1 /\ a < b
    <3>1. u - 1 \in 0 .. b /\ u = (u - 1) + 1 /\ u - 1 < b
      BY <1>3, <2>2
    <3> QED BY <3>1
  <2>4. a \notin U /\ a \in Process
    BY <1>3, <2>1, <2>3
  <2>5. Forked(a)
    BY <1>2, <1>3, <2>3, <2>4
  <2> QED BY <2>3, <2>4, <2>5 DEF IInv, ChainInv
<1>5. num[b] = 0
  BY <1>3, <1>4 DEF Forked
<1>6. \A k \in Process : ~ (k <= b) => pc[k] = "none"
  <2>1. \A k \in Process : ~ (k <= b) => b < k
    BY <1>3
  <2> QED BY <1>3, <2>1 DEF IInv, ChainInv
<1>7. \A k \in Process : k <= b => k \in 0 .. b
  BY <1>3
<1> QED BY <1>3, <1>4, <1>5, <1>6, <1>7

(* A prime that no stage has printed would be left for the last of them.   *)
LEMMA AllShown ==
  ASSUME IInv, pc[0] = "exit", NEW m \in Primes
  PROVE  \E j \in 1 .. Len(printed) : printed[j] = m
<1> USE ProcessFacts, Constants
<1>1. PICK b \in Process \ {0} :
        /\ pc[b] = "exit" /\ num[b] = 0
        /\ \A k \in Process : IF k <= b THEN pc[k] = "exit" ELSE pc[k] = "none"
  BY AllEnded
<1>2. m \in 2 .. LIMIT - 1 /\ \A d \in 2 .. m - 1 : m % d # 0
  BY DEF Primes
<1>3. ~ Survives(b, m)
  BY <1>1, <1>2 DEF IInv, NumInv
<1>4. PICK j \in 1 .. b - 1 : m % num[j] = 0
  BY <1>3 DEF Survives
<1>5. j \in Process \ {0} /\ pc[j] = "exit" /\ j < b
  <2>1. b \in Nat /\ j \in 0 .. b /\ j # 0 /\ j < b
    OBVIOUS
  <2> QED BY <1>1, <2>1
<1>6. num[j] # 0
  <2>1. Forked(j)
    BY <1>1, <1>5 DEF IInv, ChainInv
  <2> QED BY <1>5, <2>1 DEF Forked, Parent
<1>7. num[j] \in 2 .. LIMIT - 1
  BY <1>5, <1>6 DEF IInv, NumInv
<1>8. num[j] = m
  <2>1. ~ (num[j] < m)
    BY <1>2, <1>4, <1>7
  <2>2. ~ (m < num[j])
    <3>1. m \in Nat \ {0} /\ num[j] \in Nat \ {0}
      BY <1>2, <1>7
    <3> QED BY <1>4, <3>1, ModSmall
  <2> QED BY <1>2, <1>7, <2>1, <2>2
<1>9. j <= Len(printed)
  BY <1>5, <1>6 DEF IInv, PrintedInv, HasPrinted
<1>10. j \in 1 .. Len(printed)
  <2>1. Len(printed) \in Nat
    BY DEF IInv, PrintedInv
  <2> QED BY <1>9, <2>1
<1>11. printed[j] = m
  BY <1>8, <1>10 DEF IInv, PrintedInv
<1> QED BY <1>10, <1>11

(* main() is the last to end, and by then every prime has been printed.    *)
THEOREM MainEndsLast == Spec => []EndsComplete
<1>1. IInv => EndsComplete
  <2> SUFFICES ASSUME IInv, pc[0] = "exit"
               PROVE  /\ \A k \in Process : pc[k] \in {"none", "exit"}
                      /\ Len(printed) = Cardinality(Primes)
    BY DEF EndsComplete
  <2>1. \A k \in Process : pc[k] \in {"none", "exit"}
    BY AllEnded
  <2>2. PICK f \in Injection(1 .. Len(printed), Primes) :
          \A j \in 1 .. Len(printed) : f[j] = printed[j]
    BY ShownInjection
  <2>3. f \in Surjection(1 .. Len(printed), Primes)
    BY <2>2, AllShown DEF Injection, Surjection
  <2>4. /\ IsFiniteSet(Primes)
        /\ Cardinality(1 .. Len(printed)) = Len(printed)
    BY ShownInjection
  <2>5. Cardinality(1 .. Len(printed)) = Cardinality(Primes)
    BY <2>2, <2>3, <2>4, FS_Injection
  <2> QED BY <2>1, <2>4, <2>5
<1> QED BY <1>1, Invariance, PTL

-----------------------------------------------------------------------------
(* Nothing is done twice                                                   *)

(* Position() only looks at the process itself.                            *)
LEMMA PositionFrame ==
  ASSUME NEW j \in Process, pc'[j] = pc[j], num'[j] = num[j], n'[j] = n[j]
  PROVE  Position(j)' = Position(j)
BY Frame DEF Position

(* What it can be.                                                         *)
LEMMA PositionRange ==
  ASSUME IInv, NEW j \in Process
  PROVE  Position(j) \in 0 .. 9 + 2 * LIMIT
<1>1. pc[j] \in Labels
  BY DEF IInv, TypeInv
<1>2. n[j] \in 0 .. LIMIT
  BY DEF IInv, TypeInv
<1>3. Got(j) \in 0 .. LIMIT
  <2>1. num[j] \in 0 .. LIMIT
    BY Constants DEF IInv, TypeInv, Number
  <2> QED BY <1>2, <2>1, Constants DEF Got, Rank
<1>4. PICK g \in 0 .. LIMIT, v \in 0 .. LIMIT : g = Got(j) /\ v = n[j]
  BY <1>2, <1>3
<1>5. PICK c \in Nat : c = LIMIT
  BY Constants
<1>6. /\ 6 + v \in 0 .. 9 + 2 * c
      /\ 7 + 2 * g \in 0 .. 9 + 2 * c
      /\ 6 + 2 * g \in 0 .. 9 + 2 * c
      /\ 7 + 2 * c \in 0 .. 9 + 2 * c
      /\ 8 + 2 * c \in 0 .. 9 + 2 * c
      /\ 9 + 2 * c \in 0 .. 9 + 2 * c
      /\ \A m \in 0 .. 6 : m \in 0 .. 9 + 2 * c
  BY <1>4, <1>5
<1>7. Position(j) \in {0, 1, 2, 3, 4, 5, 6, 6 + v, 7 + 2 * g, 6 + 2 * g,
                      7 + 2 * c, 8 + 2 * c, 9 + 2 * c}
  BY <1>1, <1>4, <1>5 DEF Position, Labels
<1> QED BY <1>5, <1>6, <1>7

(* What one process does: it gets further itself, and so does a child that *)
(* it makes.                                                               *)
LEMMA StepAdvances ==
  ASSUME IInv, NEW k \in Process, Step(k)
  PROVE  /\ Position(k) < Position(k)'
         /\ \A j \in Process : Position(j) <= Position(j)'
<1> USE ProcessFacts, Constants
<1>1. Position(k) \in Nat /\ \A j \in Process : Position(j) \in Nat
  BY PositionRange
<1>2. pc \in [Process -> Labels] /\ n \in [Process -> 0 .. LIMIT]
      /\ num \in [Process -> Number]
  BY DEF IInv, TypeInv
<1>3. \A j \in Process : pc'[j] = pc[j] /\ num'[j] = num[j] /\ n'[j] = n[j]
        => Position(j) <= Position(j)'
  BY <1>1, PositionFrame
<1>4. Got(k) \in Nat
  BY GotFacts
<1>5. CASE MakePipe(k)
  <2>1. pc[k] = "pipe" /\ pc'[k] = "fork"
    BY <1>2, <1>5 DEF MakePipe, Goto
  <2>2. \A j \in Process \ {k} : pc'[j] = pc[j] /\ num'[j] = num[j] /\ n'[j] = n[j]
    BY <1>2, <1>5 DEF MakePipe, Goto
  <2>3. Position(k) = 4 /\ Position(k)' = 5
    BY <2>1 DEF Position
  <2> QED BY <1>3, <2>2, <2>3
<1>6. CASE Fork(k)
  <2>1. k \in Nat /\ k + 1 \in Process /\ k # k + 1 /\ pc[k] = "fork"
    BY <1>6 DEF Fork
  <2>2. pc'[k] = "closeread" /\ pc'[k + 1] = "closewrite"
    BY <1>2, <1>6, <2>1 DEF Fork
  <2>3. \A j \in Process \ {k, k + 1} : pc'[j] = pc[j] /\ num'[j] = num[j] /\ n'[j] = n[j]
    BY <1>2, <1>6 DEF Fork
  <2>4. pc[k + 1] = "none"
    <3>1. ~ Forked(k)
      BY <2>1 DEF Forked, Parent
    <3>2. k < k + 1
      BY <2>1
    <3> QED BY <2>1, <3>1, <3>2 DEF IInv, ChainInv
  <2>5. Position(k) < Position(k)' /\ Position(k) = 5 /\ Position(k)' = 6
    BY <2>1, <2>2 DEF Position
  <2>6. Position(k + 1) = 0 /\ Position(k + 1)' = 1
    BY <2>2, <2>4 DEF Position
  <2> QED BY <1>3, <2>3, <2>5, <2>6
<1>7. CASE CloseRead(k)
  <2>1. pc[k] = "closeread" /\ pc'[k] = IF k = 0 THEN "feed" ELSE "read"
    BY <1>2, <1>7 DEF CloseRead, Goto
  <2>2. \A j \in Process \ {k} : pc'[j] = pc[j] /\ num'[j] = num[j] /\ n'[j] = n[j]
    BY <1>2, <1>7 DEF CloseRead, Goto
  <2>3. n' = n /\ num' = num
    BY <1>7 DEF CloseRead
  <2>4. Position(k) = 6
    BY <2>1 DEF Position
  <2>5. CASE k = 0
    <3>1. n[0] = 2
      BY <2>1, <2>5 DEF IInv, NInv
    <3>2. Position(k)' = 8
      BY <2>1, <2>3, <2>5, <3>1 DEF Position
    <3> QED BY <1>3, <2>2, <2>4, <3>2
  <2>6. CASE k # 0
    <3>1. n[k] = 0 /\ num[k] \in Nat
      BY <2>1, <2>6 DEF IInv, NInv, TypeInv, Number
    <3>2. Got(k)' = num[k]
      BY <2>1, <2>3, <2>6, <3>1 DEF Got
    <3>3. Position(k)' = 7 + 2 * num[k]
      BY <2>1, <2>6, <3>2 DEF Position
    <3>4. Position(k) < Position(k)'
      BY <2>4, <3>1, <3>3
    <3>5. Position(k) <= Position(k)'
      BY <2>4, <3>1, <3>3
    <3> QED BY <1>3, <2>2, <3>4, <3>5
  <2> QED BY <2>5, <2>6
<1>8. CASE CloseWrite(k)
  <2>1. pc[k] = "closewrite" /\ pc'[k] = "first"
    BY <1>2, <1>8 DEF CloseWrite, Goto
  <2>2. \A j \in Process \ {k} : pc'[j] = pc[j] /\ num'[j] = num[j] /\ n'[j] = n[j]
    BY <1>2, <1>8 DEF CloseWrite, Goto
  <2>3. Position(k) = 1 /\ Position(k)' = 2
    BY <2>1 DEF Position
  <2> QED BY <1>3, <2>2, <2>3
<1>9. CASE Feed(k)
  <2>1. pc[k] = "feed" /\ pc'[k] \in {"zero", "feed"} /\ n'[k] = n[k] + 1
    BY <1>2, <1>9 DEF Feed, Goto
  <2>2. \A j \in Process \ {k} : pc'[j] = pc[j] /\ num'[j] = num[j] /\ n'[j] = n[j]
    BY <1>2, <1>9 DEF Feed, Goto
  <2>3. PICK v \in 0 .. LIMIT : v = n[k]
    BY <1>2
  <2>4. Position(k) = 6 + v
    BY <2>1, <2>3 DEF Position
  <2>5. Position(k)' = 7 + v \/ Position(k)' = 7 + 2 * LIMIT
    BY <2>1, <2>3 DEF Position
  <2>6. Position(k) < Position(k)' /\ Position(k) <= Position(k)'
    BY <2>3, <2>4, <2>5
  <2> QED BY <1>3, <2>2, <2>6
<1>10. CASE ReadFirst(k)
  <2>1. pc[k] = "first" /\ pc'[k] \in {"exit", "print"}
    BY <1>2, <1>10 DEF ReadFirst
  <2>2. \A j \in Process \ {k} : pc'[j] = pc[j] /\ num'[j] = num[j] /\ n'[j] = n[j]
    BY <1>2, <1>10 DEF ReadFirst, Receive
  <2>3. Position(k) = 2
    BY <2>1 DEF Position
  <2>4. Position(k)' = 3 \/ Position(k)' = 9 + 2 * LIMIT
    BY <2>1 DEF Position
  <2>5. Position(k) < Position(k)' /\ Position(k) <= Position(k)'
    BY <2>3, <2>4
  <2> QED BY <1>3, <2>2, <2>5
<1>11. CASE PrintPrime(k)
  <2>1. pc[k] = "print" /\ pc'[k] = "pipe"
    BY <1>2, <1>11 DEF PrintPrime, Goto
  <2>2. \A j \in Process \ {k} : pc'[j] = pc[j] /\ num'[j] = num[j] /\ n'[j] = n[j]
    BY <1>2, <1>11 DEF PrintPrime, Goto
  <2>3. Position(k) = 3 /\ Position(k)' = 4
    BY <2>1 DEF Position
  <2> QED BY <1>3, <2>2, <2>3
<1>12. CASE ReadNext(k)
  <2>1. pc[k] = "read" /\ pc'[k] = "test"
    BY <1>2, <1>12 DEF ReadNext, Goto
  <2>2. \A j \in Process \ {k} : pc'[j] = pc[j] /\ num'[j] = num[j] /\ n'[j] = n[j]
    BY <1>2, <1>12 DEF ReadNext, Receive, Goto
  <2>3. k # 0 /\ k \in Process \ {0} /\ pc[k] # "none"
    BY <2>1 DEF IInv, ChainInv
  <2>4. pipe[k] # <<>>
    BY <1>12, <2>1, NoEndOfFile DEF ReadNext, Receive
  <2>5. n'[k] = Head(pipe[k])
    BY <1>2, <1>12, <2>4 DEF ReadNext, Receive
  <2>6. Got(k)' = Rank(Head(pipe[k]))
    <3>1. Got(k)' = Rank(n'[k])
      BY <2>1 DEF Got, Rank
    <3> QED BY <2>5, <3>1
  <2>7. Head(pipe[k]) \in Number /\ Rank(Head(pipe[k])) \in InFlight(k)
    BY <2>3, <2>4, ReadPipe
  <2>8. Got(k) < Got(k)' /\ Got(k)' \in Nat
    BY <2>6, <2>7, RankFacts DEF InFlight
  <2>9. Position(k) = 7 + 2 * Got(k) /\ Position(k)' = 6 + 2 * Got(k)'
    BY <2>1 DEF Position
  <2>10. PICK a \in Nat, b \in Nat : a = Got(k) /\ b = Got(k)'
    BY <1>4, <2>8
  <2>11. Position(k) < Position(k)' /\ Position(k) <= Position(k)'
    BY <2>8, <2>9, <2>10
  <2> QED BY <1>3, <2>2, <2>11
<1>13. CASE Pass(k) \/ Drop(k)
  <2>1. pc[k] = "test" /\ pc'[k] \in {"read", "zero"}
    BY <1>2, <1>13 DEF Pass, Drop, Goto
  <2>2. \A j \in Process \ {k} : pc'[j] = pc[j] /\ num'[j] = num[j] /\ n'[j] = n[j]
    BY <1>2, <1>13 DEF Pass, Drop, Goto
  <2>3. n' = n /\ num' = num
    BY <1>13 DEF Pass, Drop
  <2>4. PICK g \in 0 .. LIMIT : g = Got(k)
    <3>1. n[k] \in 0 .. LIMIT
      BY <1>2
    <3>2. Got(k) \in 0 .. LIMIT
      BY <2>1, <3>1 DEF Got, Rank
    <3> QED BY <3>2
  <2>5. Position(k) = 6 + 2 * g
    BY <2>1, <2>4 DEF Position
  <2>6. CASE pc'[k] = "zero"
    <3>1. Position(k)' = 7 + 2 * LIMIT
      BY <2>6 DEF Position
    <3>2. Position(k) < Position(k)' /\ Position(k) <= Position(k)'
      BY <2>5, <3>1
    <3> QED BY <1>3, <2>2, <3>2
  <2>7. CASE pc'[k] = "read"
    <3>1. n[k] # 0
      <4>1. num[k] \in Nat \ {0}
        <5>1. k # 0
          BY <2>1 DEF IInv, ChainInv
        <5>2. num[k] # 0
          BY <2>1, <5>1 DEF IInv, NumInv, Early
        <5> QED BY <1>2, <5>2 DEF Number
      <4>2. 0 % num[k] = 0
        BY <4>1
      <4>3. Pass(k) => n[k] # 0
        BY <4>2 DEF Pass
      <4>4. Drop(k) => n[k] # 0
        BY <1>2, <2>1, <2>7 DEF Drop, Goto
      <4> QED BY <1>13, <4>3, <4>4
    <3>2. Got(k)' = n[k] /\ Got(k) = n[k]
      BY <2>1, <2>3, <2>7, <3>1 DEF Got, Rank
    <3>3. Position(k)' = 7 + 2 * g
      BY <2>4, <2>7, <3>2 DEF Position
    <3>4. Position(k) < Position(k)' /\ Position(k) <= Position(k)'
      BY <2>5, <3>3
    <3> QED BY <1>3, <2>2, <3>4
  <2> QED BY <2>1, <2>6, <2>7
<1>14. CASE SendZero(k)
  <2>1. pc[k] = "zero" /\ pc'[k] = "wait"
    BY <1>2, <1>14 DEF SendZero, Goto
  <2>2. \A j \in Process \ {k} : pc'[j] = pc[j] /\ num'[j] = num[j] /\ n'[j] = n[j]
    BY <1>2, <1>14 DEF SendZero, Goto
  <2>3. Position(k) = 7 + 2 * LIMIT /\ Position(k)' = 8 + 2 * LIMIT
    BY <2>1 DEF Position
  <2> QED BY <1>3, <2>2, <2>3
<1>15. CASE Wait(k)
  <2>1. pc[k] = "wait" /\ pc'[k] = "exit"
    BY <1>2, <1>15 DEF Wait, Goto
  <2>2. \A j \in Process \ {k} : pc'[j] = pc[j] /\ num'[j] = num[j] /\ n'[j] = n[j]
    BY <1>2, <1>15 DEF Wait, Goto
  <2>3. Position(k) = 8 + 2 * LIMIT /\ Position(k)' = 9 + 2 * LIMIT
    BY <2>1 DEF Position
  <2> QED BY <1>3, <2>2, <2>3
<1> QED
  BY <1>5, <1>6, <1>7, <1>8, <1>9, <1>10, <1>11, <1>12, <1>13, <1>14, <1>15 DEF Step

(* Each step of the program takes a process nearer to its end, and the     *)
(* steps that it takes have a bound that LIMIT gives: it cannot go on      *)
(* for ever.                                                               *)
THEOREM EveryStepAdvances == Spec => [][Advance]_vars
<1>1. IInv /\ [Next]_vars => [Advance]_vars
  <2> SUFFICES ASSUME IInv, NEW k \in Process, Step(k)
               PROVE  Advance
    BY DEF Next
  <2> QED BY PositionRange, StepAdvances DEF Advance
<1> QED BY <1>1, Invariance, PTL DEF Spec
=============================================================================
