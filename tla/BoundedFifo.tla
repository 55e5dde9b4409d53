----------------------------- MODULE BoundedFifo -----------------------------
(***************************************************************************)
(* The queue a user of CIRCQ (non-overwriting) may rely on: a sequence of  *)
(* at most Capacity objects, pushed at one end in one step and popped or   *)
(* peeked at the other in one step.                                        *)
(***************************************************************************)
EXTENDS Naturals, Sequences

CONSTANTS Item, Capacity

VARIABLES
  queue,   \* the objects, oldest first
  got      \* what the last pop or peek returned

Init == queue = <<>> /\ got = <<>>

Push ==
  /\ \E n \in 1 .. Capacity - Len(queue) : \E data \in [1 .. n -> Item] :
       queue' = queue \o data
  /\ got' = got

Front(n) == SubSeq(queue, 1, n)

Peek(n) == got' = Front(n) /\ queue' = queue

Pop(n) == got' = Front(n) /\ queue' = SubSeq(queue, n + 1, Len(queue))

Reset == queue' = <<>> /\ got' = got

Next == Push \/ Reset \/ (\E n \in 0 .. Len(queue) : Peek(n) \/ Pop(n))

Spec == Init /\ [][Next]_<<queue, got>>
=============================================================================
