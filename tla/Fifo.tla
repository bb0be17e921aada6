-------------------------------- MODULE Fifo --------------------------------
(***************************************************************************)
(* What a pipe promises to its users: a bounded queue of bytes.            *)
(***************************************************************************)
EXTENDS Naturals, Sequences

CONSTANTS Byte, Capacity

VARIABLE queue

FInit == queue = <<>>

Put(b) == Len(queue) < Capacity /\ queue' = Append(queue, b)

Get == queue # <<>> /\ queue' = Tail(queue)

FNext == Get \/ \E b \in Byte : Put(b)

FSpec == FInit /\ [][FNext]_queue
=============================================================================
