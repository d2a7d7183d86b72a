------------------------------- MODULE Bcache -------------------------------
(***************************************************************************)
(* The buffer cache of Lab3/kernel/bio.c: NBUF buffers hashed by block     *)
(* number into NBUCKETS doubly linked lists, each with a spin lock.        *)
(* bget() looks in the bucket of the block, recycles an unused buffer of   *)
(* that bucket, and otherwise steals an unused buffer of another bucket.   *)
(*                                                                         *)
(* There is one device, so a block number names a block.  A critical       *)
(* section that takes no second lock is one step, guarded by the lock      *)
(* being free; one that a process can be caught inside is two.             *)
(***************************************************************************)
EXTENDS Integers, SequencesExt

CONSTANTS
  NBUF,     \* buffers
  NBUCKETS, \* hash buckets
  Proc,     \* processes in the file system
  Block,    \* disk block numbers
  MayUse,   \* MayUse[p]: the blocks p ever asks for
  Value,    \* the contents of a block, as far as two writes differ
  MAXPIN,   \* bound: outstanding bpin() calls on one buffer
  NULL      \* no process, no block, no buffer

ASSUME NBUFAssumption     == NBUF \in Nat \ {0}
ASSUME NBUCKETSAssumption == NBUCKETS \in Nat \ {0}
ASSUME ProcAssumption     == IsFiniteSet(Proc)
ASSUME BlockAssumption    == Block \subseteq Nat
ASSUME MayUseAssumption   == MayUse \in [Proc -> SUBSET Block]
ASSUME ValueAssumption    == 0 \in Value
ASSUME MAXPINAssumption   == MAXPIN \in Nat
ASSUME NULLAssumption     == NULL \notin Nat /\ NULL \notin Proc

Buf    == 0 .. NBUF - 1
Bucket == 0 .. NBUCKETS - 1

VARIABLES
  lock,   \* bcache.lock[h]: the process that holds it, or NULL
  chain,  \* the list of bcache.head[h], from head.next to head.prev
  block,  \* buf.blockno; NULL for the (dev 0, block 0) of an unused buffer
  valid,  \* buf.valid
  refcnt, \* buf.refcnt
  data,   \* buf.data
  slock,  \* buf.lock, a sleep lock: its holder, or NULL
  disk,   \* the blocks on the disk
  pc,     \* where each process is in bget(), bread(), brelse()
  want,   \* the argument blockno
  i,      \* bget()'s loop over the other buckets
  buf,    \* the local b
  num,    \* the local num of brelse(), bpin() and bunpin()
  pins    \* outstanding bpin() calls of the clients, per buffer

procvars == <<pc, want, i, buf>>
bufvars  == <<block, valid, refcnt, data>>
vars == <<lock, chain, bufvars, slock, disk, procvars, num, pins>>

(* The loop of binit(), after k rounds: each buffer has been pushed at the *)
(* head of the list of its number.                                         *)
binit[k \in 0 .. NBUF] ==
  IF k = 0 THEN [h \in Bucket |-> <<>>]
           ELSE [binit[k - 1] EXCEPT ![(k - 1) % NBUCKETS] = Cons(k - 1, @)]

Init ==
  /\ lock = [h \in Bucket |-> NULL]
  /\ chain = binit[NBUF]
  /\ block = [b \in Buf |-> NULL]
  /\ valid = [b \in Buf |-> FALSE]
  /\ refcnt = [b \in Buf |-> 0]
  /\ data = [b \in Buf |-> 0]
  /\ slock = [b \in Buf |-> NULL]
  /\ disk = [n \in Block |-> 0]
  /\ pc = [p \in Proc |-> "idle"]
  /\ want = [p \in Proc |-> NULL]
  /\ i = [p \in Proc |-> 0]
  /\ buf = [p \in Proc |-> NULL]
  /\ num = [p \in Proc |-> 0]
  /\ pins = [b \in Buf |-> 0]

Goto(p, from, to) ==
  /\ pc[p] = from
  /\ pc' = [pc EXCEPT ![p] = to]

acquire(h, p) ==
  /\ lock[h] = NULL
  /\ lock' = [lock EXCEPT ![h] = p]

release(h) == lock' = [lock EXCEPT ![h] = NULL]

-----------------------------------------------------------------------------
(* bget()                                                                  *)

Hash(n) == n % NBUCKETS
Own(p) == Hash(want[p])                     \* blockno % NBUCKETS
Victim(p) == (want[p] + i[p]) % NBUCKETS    \* blockno_to_get

(* Mutant: the search starts at the most recently used buffer.             *)
LastUnused_FromHead(h) == SelectInSeq(chain[h], LAMBDA b : refcnt[b] = 0)

(* The first match from head.next on, and the first from head.prev back:   *)
(* the position in the list, 0 if there is none.                           *)
CachedAt(h, n)   == SelectInSeq(chain[h], LAMBDA b : block[b] = n)
FirstUnused(h)   == SelectInSeq(chain[h], LAMBDA b : refcnt[b] = 0)
LastUnused(h)    == SelectLastInSeq(chain[h], LAMBDA b : refcnt[b] = 0)

(* Mutant: valid keeps the value it had for the old block.                 *)
Claim_KeepValid(b, n) ==
  /\ block' = [block EXCEPT ![b] = n]
  /\ refcnt' = [refcnt EXCEPT ![b] = 1]
  /\ UNCHANGED <<valid, data>>

(* b becomes the buffer of block n, referenced once, contents unknown.     *)
Claim(b, n) ==
  /\ block' = [block EXCEPT ![b] = n]
  /\ valid' = [valid EXCEPT ![b] = FALSE]
  /\ refcnt' = [refcnt EXCEPT ![b] = 1]
  /\ UNCHANGED data

(* bread(dev, n) is called.                                                *)
BgetEnter(p, n) ==
  /\ n \in MayUse[p]
  /\ Goto(p, "idle", "own")
  /\ want' = [want EXCEPT ![p] = n]
  /\ UNCHANGED <<lock, chain, bufvars, slock, disk, i, buf, num, pins>>

(* Lock the block's own bucket and look for the block, then for an unused  *)
(* buffer, least recently used first.                                      *)
BgetOwn(p) ==
  LET h == Own(p)
      hit == CachedAt(h, want[p])
      unused == LastUnused(h) IN
  /\ pc[p] = "own"
  /\ acquire(h, p)
  /\ \/ /\ hit # 0
        /\ Goto(p, "own", "hit")
        /\ buf' = [buf EXCEPT ![p] = chain[h][hit]]
     \/ /\ hit = 0 /\ unused # 0
        /\ Goto(p, "own", "recycle")
        /\ buf' = [buf EXCEPT ![p] = chain[h][unused]]
     \/ /\ hit = 0 /\ unused = 0
        /\ Goto(p, "own", "own_miss")
        /\ UNCHANGED buf
  /\ UNCHANGED <<chain, bufvars, slock, disk, want, i, num, pins>>

(* Mutant: a hit is not counted.                                           *)
BgetHit_NoRef(p) ==
  /\ Goto(p, "hit", "sleeplock")
  /\ release(Own(p))
  /\ UNCHANGED <<chain, bufvars, slock, disk, want, i, buf, num, pins>>

BgetHit(p) ==
  /\ Goto(p, "hit", "sleeplock")
  /\ refcnt' = [refcnt EXCEPT ![buf[p]] = @ + 1]
  /\ release(Own(p))
  /\ UNCHANGED <<chain, block, valid, data, slock, disk, want, i, buf, num,
                 pins>>

BgetRecycle(p) ==
  /\ Goto(p, "recycle", "sleeplock")
  /\ Claim(buf[p], want[p])
  /\ release(Own(p))
  /\ UNCHANGED <<chain, slock, disk, want, i, buf, num, pins>>

(* Mutant: the last bucket of the round is never searched.                 *)
TryNext_SkipLast(p, from) ==
  IF i[p] + 2 < NBUCKETS
  THEN /\ Goto(p, from, "victim")
       /\ i' = [i EXCEPT ![p] = @ + 1]
  ELSE /\ Goto(p, from, "panic")
       /\ UNCHANGED i

(* Go on to the next bucket, or give up: panic("bget: no buffers").        *)
TryNext(p, from) ==
  IF i[p] + 1 < NBUCKETS
  THEN /\ Goto(p, from, "victim")
       /\ i' = [i EXCEPT ![p] = @ + 1]
  ELSE /\ Goto(p, from, "panic")
       /\ UNCHANGED i

(* Nothing in the own bucket: its lock is released before the search of    *)
(* the others begins.                                                      *)
BgetOwnMiss(p) ==
  /\ TryNext(p, "own_miss")
  /\ release(Own(p))
  /\ UNCHANGED <<chain, bufvars, slock, disk, want, buf, num, pins>>

(* Mutant: the other bucket is searched without its lock.                  *)
BgetVictim_NoLock(p) ==
  LET h == Victim(p)
      unused == FirstUnused(h) IN
  /\ pc[p] = "victim"
  /\ \/ /\ unused # 0
        /\ Goto(p, "victim", "take")
        /\ buf' = [buf EXCEPT ![p] = chain[h][unused]]
     \/ /\ unused = 0
        /\ Goto(p, "victim", "victim_miss")
        /\ UNCHANGED buf
  /\ UNCHANGED <<lock, chain, bufvars, slock, disk, want, i, num, pins>>

(* Lock another bucket and look for an unused buffer, most recent first.   *)
BgetVictim(p) ==
  LET h == Victim(p)
      unused == FirstUnused(h) IN
  /\ pc[p] = "victim"
  /\ acquire(h, p)
  /\ \/ /\ unused # 0
        /\ Goto(p, "victim", "take")
        /\ buf' = [buf EXCEPT ![p] = chain[h][unused]]
     \/ /\ unused = 0
        /\ Goto(p, "victim", "victim_miss")
        /\ UNCHANGED buf
  /\ UNCHANGED <<chain, bufvars, slock, disk, want, i, num, pins>>

BgetVictimMiss(p) ==
  /\ TryNext(p, "victim_miss")
  /\ release(Victim(p))
  /\ UNCHANGED <<chain, bufvars, slock, disk, want, buf, num, pins>>

(* Claim the buffer and unlink it, still holding the victim's lock.        *)
BgetTake(p) ==
  /\ Goto(p, "take", "move")
  /\ Claim(buf[p], want[p])
  /\ chain' = [chain EXCEPT ![Victim(p)] = RemoveFirst(@, buf[p])]
  /\ UNCHANGED <<lock, slock, disk, want, i, buf, num, pins>>

(* acquire() of the own bucket while the victim's is held.                 *)
BgetMove(p) ==
  /\ Goto(p, "move", "insert")
  /\ acquire(Own(p), p)
  /\ UNCHANGED <<chain, bufvars, slock, disk, want, i, buf, num, pins>>

(* Mutant: the stolen buffer is put back in the bucket it came from.       *)
BgetInsert_VictimBucket(p) ==
  /\ Goto(p, "insert", "sleeplock")
  /\ chain' = [chain EXCEPT ![Victim(p)] = Cons(buf[p], @)]
  /\ lock' = [lock EXCEPT ![Own(p)] = NULL, ![Victim(p)] = NULL]
  /\ UNCHANGED <<bufvars, slock, disk, want, i, buf, num, pins>>

(* Insert at the head of the own bucket; release the own, then the victim. *)
BgetInsert(p) ==
  /\ Goto(p, "insert", "sleeplock")
  /\ chain' = [chain EXCEPT ![Own(p)] = Cons(buf[p], @)]
  /\ lock' = [lock EXCEPT ![Own(p)] = NULL, ![Victim(p)] = NULL]
  /\ UNCHANGED <<bufvars, slock, disk, want, i, buf, num, pins>>

(* acquiresleep(&b->lock); bget() returns b.                               *)
BgetSleeplock(p) ==
  /\ Goto(p, "sleeplock", "got")
  /\ slock[buf[p]] = NULL
  /\ slock' = [slock EXCEPT ![buf[p]] = p]
  /\ i' = [i EXCEPT ![p] = 0]
  /\ UNCHANGED <<lock, chain, bufvars, disk, want, buf, num, pins>>

(* bread(): read the block from the disk unless the buffer has it.         *)
Bread(p) ==
  LET b == buf[p] IN
  /\ Goto(p, "got", "using")
  /\ IF valid[b]
     THEN UNCHANGED <<valid, data>>
     ELSE /\ data' = [data EXCEPT ![b] = disk[block[b]]]
          /\ valid' = [valid EXCEPT ![b] = TRUE]
  /\ UNCHANGED <<lock, chain, block, refcnt, slock, disk, want, i, buf, num,
                 pins>>

-----------------------------------------------------------------------------
(* The other calls, by the process that has the buffer locked.             *)

(* The client changes the contents of the buffer it has locked.            *)
Modify(p, v) ==
  /\ pc[p] = "using"
  /\ data' = [data EXCEPT ![buf[p]] = v]
  /\ UNCHANGED <<lock, chain, block, valid, refcnt, slock, disk, procvars,
                 num, pins>>

(* virtio_disk_rw(b, 1): the contents reach the block the buffer is for.   *)
Bwrite(p) ==
  /\ pc[p] = "using"
  /\ disk' = [disk EXCEPT ![block[buf[p]]] = data[buf[p]]]
  /\ UNCHANGED <<lock, chain, bufvars, slock, procvars, num, pins>>

(* int num = b->blockno % NBUCKETS, read before any lock is taken.         *)
FindBucket(p, from, to) ==
  /\ Goto(p, from, to)
  /\ num' = [num EXCEPT ![p] = Hash(block[buf[p]])]
  /\ UNCHANGED <<lock, chain, bufvars, slock, disk, want, i, buf, pins>>

(* The critical section of that bucket, after which num is out of scope.   *)
InBucket(p, from, to) ==
  /\ Goto(p, from, to)
  /\ lock[num[p]] = NULL
  /\ num' = [num EXCEPT ![p] = 0]

(* bpin(): the log keeps the buffer in the cache until it is installed.    *)
BpinHash(p) == FindBucket(p, "using", "pin") /\ pins[buf[p]] < MAXPIN

(* Mutant: bpin() does not count its reference.                            *)
Bpin_NoRef(p) ==
  /\ InBucket(p, "pin", "using")
  /\ pins' = [pins EXCEPT ![buf[p]] = @ + 1]
  /\ UNCHANGED <<lock, chain, bufvars, slock, disk, want, i, buf>>

Bpin(p) ==
  /\ InBucket(p, "pin", "using")
  /\ refcnt' = [refcnt EXCEPT ![buf[p]] = @ + 1]
  /\ pins' = [pins EXCEPT ![buf[p]] = @ + 1]
  /\ UNCHANGED <<lock, chain, block, valid, data, slock, disk, want, i, buf>>

(* bunpin(): the log has installed the buffer.                             *)
BunpinHash(p) == FindBucket(p, "using", "unpin") /\ pins[buf[p]] > 0

Bunpin(p) ==
  /\ InBucket(p, "unpin", "using")
  /\ refcnt' = [refcnt EXCEPT ![buf[p]] = @ - 1]
  /\ pins' = [pins EXCEPT ![buf[p]] = @ - 1]
  /\ UNCHANGED <<lock, chain, block, valid, data, slock, disk, want, i, buf>>

(* brelse(): releasesleep() first.  A client gives up a buffer it changed  *)
(* only after bwrite() or with the buffer pinned.                          *)
Brelse(p) ==
  LET b == buf[p] IN
  /\ Goto(p, "using", "unlocked")
  /\ data[b] = disk[block[b]] \/ pins[b] > 0
  /\ slock' = [slock EXCEPT ![b] = NULL]
  /\ UNCHANGED <<lock, chain, bufvars, disk, want, i, buf, num, pins>>

(* The buffer, no longer locked, is asked for its block.                   *)
BrelseHash(p) == FindBucket(p, "unlocked", "release")

(* Under the bucket lock, drop the reference and, if it was the last, move *)
(* the buffer to the head of the list.                                     *)
BrelseRef(p) ==
  LET b == buf[p] IN
  /\ InBucket(p, "release", "idle")
  /\ refcnt' = [refcnt EXCEPT ![b] = @ - 1]
  /\ chain' = IF refcnt[b] = 1
              THEN [chain EXCEPT ![num[p]] = Cons(b, RemoveFirst(@, b))]
              ELSE chain
  /\ want' = [want EXCEPT ![p] = NULL]
  /\ buf' = [buf EXCEPT ![p] = NULL]
  /\ UNCHANGED <<lock, block, valid, data, slock, disk, i, pins>>

-----------------------------------------------------------------------------
(* The steps a process takes on its own inside a call.                     *)
CallStep(p) ==
  \/ BgetOwn(p) \/ BgetHit(p) \/ BgetRecycle(p) \/ BgetOwnMiss(p)
  \/ BgetVictim(p) \/ BgetVictimMiss(p)
  \/ BgetTake(p) \/ BgetMove(p) \/ BgetInsert(p)
  \/ BgetSleeplock(p) \/ Bread(p)
  \/ Bpin(p) \/ Bunpin(p)
  \/ BrelseHash(p) \/ BrelseRef(p)

UserStep(p) ==
  \/ \E v \in Value : Modify(p, v)
  \/ Bwrite(p) \/ BpinHash(p) \/ BunpinHash(p) \/ Brelse(p)

Next ==
  \E p \in Proc :
    \/ \E n \in Block : BgetEnter(p, n)
    \/ CallStep(p)
    \/ UserStep(p)

Spec == Init /\ [][Next]_vars

(* A process inside a call goes on, and a lock that is free again and      *)
(* again is granted at last: more than the spin lock itself gives.         *)
FairSpec == Spec /\ \A p \in Proc : SF_vars(CallStep(p))

-----------------------------------------------------------------------------
Labels == {"idle", "own", "hit", "recycle", "own_miss", "victim",
           "victim_miss", "take", "move", "insert", "sleeplock", "got",
           "using", "pin", "unpin", "unlocked", "release", "panic"}

(* Every variable has its type.                                            *)
TypeOK ==
  /\ lock \in [Bucket -> Proc \cup {NULL}]
  /\ chain \in [Bucket -> Seq(Buf)]
  /\ block \in [Buf -> Block \cup {NULL}]
  /\ valid \in [Buf -> BOOLEAN]
  /\ refcnt \in [Buf -> Nat]
  /\ data \in [Buf -> Value]
  /\ slock \in [Buf -> Proc \cup {NULL}]
  /\ disk \in [Block -> Value]
  /\ pc \in [Proc -> Labels]
  /\ want \in [Proc -> Block \cup {NULL}]
  /\ i \in [Proc -> Bucket]
  /\ buf \in [Proc -> Buf \cup {NULL}]
  /\ num \in [Proc -> Bucket]
  /\ pins \in [Buf -> Nat]

(* The processes that hold a counted reference to a buffer.                *)
Referers(b) ==
  {p \in Proc : buf[p] = b /\ pc[p] \in
     {"move", "insert", "sleeplock", "got", "using", "pin", "unpin",
      "unlocked", "release"}}

(* b->refcnt counts exactly the calls between bget() and brelse() and the  *)
(* pins: a buffer is neither recycled under a user nor lost to the cache.  *)
RefcntExact == \A b \in Buf : refcnt[b] = Cardinality(Referers(b)) + pins[b]

(* The process that carries a buffer from one list to another.             *)
Movers(b) == {p \in Proc : buf[p] = b /\ pc[p] \in {"move", "insert"}}

(* Where a buffer is on the lists: the bucket and the position.            *)
Positions(b) ==
  UNION {{<<h, k>> : k \in {j \in DOMAIN chain[h] : chain[h][j] = b}} :
         h \in Bucket}

(* Every buffer is in exactly one place: once in one list, or on its way   *)
(* between two lists in the hands of one stealer.  One that is referenced  *)
(* is in the list where the next bget() for its block, its brelse() and    *)
(* its bpin() will look for it.                                            *)
OnePlace ==
  \A b \in Buf :
    /\ Cardinality(Movers(b)) + Cardinality(Positions(b)) = 1
    /\ refcnt[b] > 0 /\ Movers(b) = {} => Contains(chain[Hash(block[b])], b)

(* No step changes the block of a buffer that is referenced or pinned.     *)
NeverStolen ==
  [][\A b \in Buf : refcnt[b] > 0 => block'[b] = block[b]]_vars

(* Data that no user holds is on the disk or pinned: recycling a buffer    *)
(* never loses a write.                                                    *)
NoWriteLost ==
  \A b \in Buf :
    refcnt[b] = 0 /\ valid[b] => data[b] = disk[block[b]]

(* Process p has its buffer locked and read, also while it pins it.        *)
Using(p) == pc[p] \in {"using", "pin", "unpin"}

(* "Only one process at a time can use a buffer": two processes that have  *)
(* the same block in use would each change a copy of their own.            *)
OneUserPerBlock ==
  \A p, q \in Proc :
    p # q /\ Using(p) /\ Using(q) => want[p] # want[q]

(* What bread(n) would return: the cached copy if there is one.            *)
Contents(n) ==
  LET copies == {b \in Buf : valid[b] /\ block[b] = n}
  IN IF copies = {} THEN disk[n] ELSE data[CHOOSE b \in copies : TRUE]

Store == INSTANCE BlockStore WITH
  Initial <- [n \in Block |-> 0],
  user <- [p \in Proc |-> IF Using(p) THEN want[p] ELSE NULL],
  contents <- [n \in Block |-> Contents(n)]

(* The cache is a store of blocks, each with one contents and one user:    *)
(* hits, recycling, reads and writes of the disk do not show.              *)
ImplementsBlockStore == Store!Spec

(* Every bucket lock that bget(), brelse(), bpin() or bunpin() waits for   *)
(* is granted.                                                             *)
LocksGranted ==
  LET waiting == {"own", "victim", "move", "release", "pin", "unpin"} IN
  \A p \in Proc : pc[p] \in waiting ~> pc[p] \notin waiting
=============================================================================
