---------------------------- MODULE BoundedFifo -----------------------------
(* What an interrupt queue promises: bytes come out in the order they went *)
(* in, and there are never more of them than the queue has room for.       *)
EXTENDS Naturals, Sequences

CONSTANTS
  Bytes,
  Capacity,
  Flushed    \* may the queue be emptied in one step?

VARIABLE queue

Init == queue = <<>>

Put(b) == Len(queue) < Capacity /\ queue' = Append(queue, b)

Get == queue # <<>> /\ queue' = Tail(queue)

(* A byte is sent to make room for another. *)
GetPut(b) == queue # <<>> /\ queue' = Append(Tail(queue), b)

Flush == Flushed /\ queue # <<>> /\ queue' = <<>>

Next == Get \/ Flush \/ \E b \in Bytes : Put(b) \/ GetPut(b)

Spec == Init /\ [][Next]_queue
=============================================================================
