--------------------------- MODULE BcacheRecency ----------------------------
(***************************************************************************)
(* Bcache with a history of the order in which the buffers were last       *)
(* released, to say which buffer bget() should recycle.                    *)
(***************************************************************************)
EXTENDS Bcache

VARIABLE recent \* the buffers, the most recently released first

hvars == <<vars, recent>>

HInit == Init /\ recent = [k \in 1 .. NBUF |-> NBUF - k]

Released(b) == refcnt[b] = 1 /\ refcnt'[b] = 0

HNext ==
  /\ Next
  /\ \/ \E b \in Buf : Released(b) /\ recent' = Cons(b, RemoveFirst(recent, b))
     \/ ~(\E b \in Buf : Released(b)) /\ UNCHANGED recent

HSpec == HInit /\ [][HNext]_hvars

(* a comes before b in the list s.                                         *)
Before(s, a, b) == \E j, k \in DOMAIN s : j < k /\ s[j] = a /\ s[k] = b

(* "Recycle the least recently used (LRU) unused buffer" (bio.c:120): of   *)
(* its own bucket, bget() takes the unused buffer that was released        *)
(* longest ago, whatever was stolen, hit or unpinned meanwhile.            *)
RecyclesLRU ==
  \A p \in Proc : pc[p] = "recycle" =>
    \A b \in Range(chain[Own(p)]) :
      refcnt[b] = 0 => b = buf[p] \/ Before(recent, b, buf[p])
=============================================================================
