------------------------------- MODULE Sieve --------------------------------
(***************************************************************************)
(* Lab1/primes.c: the sieve of primes as a chain of processes.  Process 0  *)
(* is main(); process k + 1 is the child that process k forks, and pipe    *)
(* k + 1 leads to it.                                                      *)
(*                                                                         *)
(* Pipes carry one byte of an int that the program does not initialise:    *)
(* its other bytes are taken to be 0.  pipe(), fork(), read(), write() and *)
(* wait() are modelled as the program uses them: read() waits while the    *)
(* pipe is empty and open for writing, write() while it is full.           *)
(***************************************************************************)
EXTENDS Integers, FiniteSets, SequencesExt

CONSTANTS
  LIMIT,     \* the numbers fed are 2 .. LIMIT - 1; 36 in the program
  PIPESIZE,  \* bytes that a pipe holds; 512 in the kernel
  NOFILE     \* descriptors that a process may have open; 16 in the kernel

(* A number is sent as one byte.                                           *)
ASSUME LIMITAssumption    == LIMIT \in 3 .. 256
ASSUME PIPESIZEAssumption == PIPESIZE \in Nat \ {0}
ASSUME NOFILEAssumption   == NOFILE \in Nat

(* main(), a process for each prime, and the one that finds no number.     *)
Process == 0 .. LIMIT \div 2 + 1

VARIABLES
  pc,      \* where each process is
  num,     \* primes()'s num
  n,       \* its n; main()'s i
  pipe,    \* the bytes in the pipe that leads to the process
  fds,     \* open descriptors of the process
  printed  \* what has been printed, in order

vars == <<pc, num, n, pipe, fds, printed>>

(* The shell has opened descriptors 0, 1 and 2.                            *)
Init ==
  /\ pc = [k \in Process |-> IF k = 0 THEN "pipe" ELSE "none"]
  /\ num = [k \in Process |-> 0]
  /\ n = [k \in Process |-> IF k = 0 THEN 2 ELSE 0]
  /\ pipe = [k \in Process |-> <<>>]
  /\ fds = [k \in Process |-> IF k = 0 THEN 3 ELSE 0]
  /\ printed = <<>>

Goto(k, from, to) ==
  /\ pc[k] = from
  /\ pc' = [pc EXCEPT ![k] = to]

Opened(k, m) == fds' = [fds EXCEPT ![k] = @ + m]

-----------------------------------------------------------------------------
(* Making the next process: main() and primes() alike                      *)

(* pipe(pp)                                                                *)
MakePipe(k) ==
  /\ Goto(k, "pipe", "fork")
  /\ Opened(k, 2)
  /\ UNCHANGED <<num, n, pipe, printed>>

(* fork(): the child has all the descriptors of its parent.                *)
Fork(k) ==
  /\ pc[k] = "fork" /\ k + 1 \in Process
  /\ pc' = [pc EXCEPT ![k] = "closeread", ![k + 1] = "closewrite"]
  /\ fds' = [fds EXCEPT ![k + 1] = fds[k]]
  /\ UNCHANGED <<num, n, pipe, printed>>

(* The parent: close(pp[0]).                                               *)
CloseRead(k) ==
  /\ Goto(k, "closeread", IF k = 0 THEN "feed" ELSE "read")
  /\ Opened(k, -1)
  /\ UNCHANGED <<num, n, pipe, printed>>

(* Mutant: the child keeps the write end.                                  *)
CloseWrite_Keep(k) ==
  /\ Goto(k, "closewrite", "first")
  /\ UNCHANGED <<num, n, pipe, fds, printed>>

(* The child, primes(p): close(p[1]).                                      *)
CloseWrite(k) ==
  /\ Goto(k, "closewrite", "first")
  /\ Opened(k, -1)
  /\ UNCHANGED <<num, n, pipe, printed>>

-----------------------------------------------------------------------------
(* Reading and writing                                                     *)

(* write(pp[1], &v, 1)                                                     *)
Send(k, v) ==
  /\ Len(pipe[k + 1]) < PIPESIZE
  /\ pipe' = [pipe EXCEPT ![k + 1] = Append(@, v)]

(* read(p[0], &x, 1): at the end of file x keeps its value.                *)
Receive(k, x) ==
  \/ /\ pipe[k] # <<>>
     /\ x' = [x EXCEPT ![k] = Head(pipe[k])]
     /\ pipe' = [pipe EXCEPT ![k] = Tail(@)]
  \/ /\ pipe[k] = <<>> /\ pc[k - 1] = "exit"
     /\ UNCHANGED <<x, pipe>>

(* main(): for(i = 2; i < 36; i++) write(p[1], &i, 1)                      *)
Feed(k) ==
  /\ Goto(k, "feed", IF n[k] = LIMIT - 1 THEN "zero" ELSE "feed")
  /\ Send(k, n[k])
  /\ n' = [n EXCEPT ![k] = @ + 1]
  /\ UNCHANGED <<num, fds, printed>>

(* read(p[0], &num, 1); if(num == 0) exit(0)                               *)
ReadFirst(k) ==
  /\ pc[k] = "first"
  /\ Receive(k, num)
  /\ pc' = [pc EXCEPT ![k] = IF num'[k] = 0 THEN "exit" ELSE "print"]
  /\ UNCHANGED <<n, fds, printed>>

PrintPrime(k) ==
  /\ Goto(k, "print", "pipe")
  /\ printed' = Append(printed, num[k])
  /\ UNCHANGED <<num, n, pipe, fds>>

ReadNext(k) ==
  /\ Goto(k, "read", "test")
  /\ Receive(k, n)
  /\ UNCHANGED <<num, fds, printed>>

(* Mutant: 1 is the only divisor looked for.                               *)
Pass_All(k) ==
  /\ pc[k] = "test" /\ n[k] # 0
  /\ Goto(k, "test", "read")
  /\ Send(k, n[k])
  /\ UNCHANGED <<num, n, fds, printed>>

(* n % num != 0                                                            *)
Pass(k) ==
  /\ pc[k] = "test" /\ n[k] % num[k] # 0
  /\ Goto(k, "test", "read")
  /\ Send(k, n[k])
  /\ UNCHANGED <<num, n, fds, printed>>

(* Mutant: while(1).                                                       *)
Drop_Forever(k) ==
  /\ pc[k] = "test" /\ n[k] % num[k] = 0
  /\ Goto(k, "test", "read")
  /\ UNCHANGED <<num, n, pipe, fds, printed>>

(* A multiple of num, or the 0 that ends the loop.                         *)
Drop(k) ==
  /\ pc[k] = "test" /\ n[k] % num[k] = 0
  /\ Goto(k, "test", IF n[k] = 0 THEN "zero" ELSE "read")
  /\ UNCHANGED <<num, n, pipe, fds, printed>>

(* The 0 is passed on.                                                     *)
SendZero(k) ==
  /\ Goto(k, "zero", "wait")
  /\ Send(k, 0)
  /\ UNCHANGED <<num, n, fds, printed>>

(* wait(0); exit(0)                                                        *)
Wait(k) ==
  /\ pc[k] = "wait" /\ pc[k + 1] = "exit"
  /\ Goto(k, "wait", "exit")
  /\ UNCHANGED <<num, n, pipe, fds, printed>>

-----------------------------------------------------------------------------
Step(k) ==
  \/ MakePipe(k) \/ Fork(k) \/ CloseRead(k) \/ CloseWrite(k)
  \/ Feed(k) \/ ReadFirst(k) \/ PrintPrime(k)
  \/ ReadNext(k) \/ Pass(k) \/ Drop(k) \/ SendZero(k) \/ Wait(k)

Next == \E k \in Process : Step(k)

Spec == Init /\ [][Next]_vars

(* The kernel runs some process as long as one can go on.                  *)
FairSpec == Spec /\ WF_vars(Next)

-----------------------------------------------------------------------------
Labels == {"none", "pipe", "fork", "closeread", "closewrite", "feed", "first",
           "print", "read", "test", "zero", "wait", "exit"}

Number == 0 .. LIMIT - 1

(* Every variable has its type.                                            *)
TypeOK ==
  /\ pc \in [Process -> Labels]
  /\ num \in [Process -> Number]
  /\ n \in [Process -> 0 .. LIMIT]
  /\ \A k \in Process : pipe[k] \in BoundedSeq(Number, PIPESIZE)
  /\ fds \in [Process -> Nat]
  /\ printed \in Seq(Number)

Primes == {m \in 2 .. LIMIT - 1 : \A d \in 2 .. m - 1 : m % d # 0}

(* What has been printed is the smallest primes, each once and in order,   *)
(* although every prime is printed by a process of its own.                *)
PrintsPrimes ==
  LET shown == {printed[j] : j \in DOMAIN printed} IN
  /\ \A j \in 1 .. Len(printed) - 1 : printed[j] < printed[j + 1]
  /\ shown \subseteq Primes
  /\ \A m \in Primes \ shown : \A p \in shown : p < m

(* No process needs more descriptors than it may have, so that pipe(),     *)
(* whose result is not tested, never fails: a process keeps the read ends  *)
(* of all the pipes before its own.                                        *)
DescriptorsSuffice == \A k \in Process : fds[k] <= NOFILE

(* The program ends, with all the primes printed.                          *)
EndsWithAll == <>(pc[0] = "exit" /\ Len(printed) = Cardinality(Primes))
=============================================================================
