-------------------------------- MODULE Fifo -------------------------------
(* A bounded byte queue: what a pipe promises to its two ends. *)
EXTENDS Naturals, Sequences

CONSTANTS Bytes, Capacity
VARIABLE queue

FInit == queue = <<>>

Put(b) == Len(queue) < Capacity /\ queue' = Append(queue, b)
Get == queue # <<>> /\ queue' = Tail(queue)

FNext == Get \/ \E b \in Bytes : Put(b)

FSpec == FInit /\ [][FNext]_queue
============================================================================
