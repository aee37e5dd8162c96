--------------------------------- MODULE Fifo ---------------------------------
(***************************************************************************)
(* What the accept queue of a thread promises: a bounded first-in          *)
(* first-out queue to which a connection may always be refused.            *)
(***************************************************************************)
EXTENDS Naturals, Sequences

CONSTANTS Items, Capacity
VARIABLE queue

FifoInit == queue = <<>>
Put == \E x \in Items : Len(queue) < Capacity /\ queue' = Append(queue, x)
Get == queue # <<>> /\ queue' = Tail(queue)
FifoNext == Put \/ Get
FifoSpec == FifoInit /\ [][FifoNext]_queue
================================================================================
