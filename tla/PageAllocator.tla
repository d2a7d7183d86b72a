--------------------------- MODULE PageAllocator ---------------------------
(***************************************************************************)
(* What the physical page allocator promises its clients, whatever the     *)
(* layout of its free lists: a page that kalloc() picked for one caller is *)
(* picked for no other before kfree() gives it back.                       *)
(***************************************************************************)
CONSTANTS
  CPU,  \* the processors, each with at most one call in progress
  Page, \* the physical pages
  NULL  \* no page

VARIABLES
  hand, \* hand[c]: the page kalloc() picked for c and is about to return
  out   \* the pages the kernel's clients own

avars == <<hand, out>>

Init ==
  /\ hand = [c \in CPU |-> NULL]
  /\ out = {}

(* kalloc() picks a page that nobody owns or is about to own.              *)
Pick(c, p) ==
  /\ hand[c] = NULL
  /\ p \notin out
  /\ \A d \in CPU : hand[d] # p
  /\ hand' = [hand EXCEPT ![c] = p]
  /\ UNCHANGED out

(* kalloc() returns the page it picked.                                    *)
Return(c) ==
  /\ hand[c] # NULL
  /\ out' = out \cup {hand[c]}
  /\ hand' = [hand EXCEPT ![c] = NULL]

(* kfree() takes back a page its caller owns.                              *)
Free(p) ==
  /\ p \in out
  /\ out' = out \ {p}
  /\ UNCHANGED hand

Next ==
  \/ \E c \in CPU : Return(c)
  \/ \E p \in Page : Free(p)
  \/ \E c \in CPU, p \in Page : Pick(c, p)

Spec == Init /\ [][Next]_avars
=============================================================================
