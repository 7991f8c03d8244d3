---------------------------- MODULE BoundedQueue ----------------------------
(***************************************************************************)
(* What fifo.v promises: a queue of at most Depth entries that in one      *)
(* clock may give up its oldest entry, take a new one at its end, or both. *)
(* It may refuse either request; it never loses, duplicates, invents or    *)
(* reorders an entry.                                                      *)
(***************************************************************************)
EXTENDS Naturals, Sequences

CONSTANTS Depth, Data

VARIABLE queue

QueueInit == queue = << >>

Deq == queue # << >> /\ queue' = Tail(queue)

Enq(d) == Len(queue) < Depth /\ queue' = Append(queue, d)

EnqDeq(d) == queue # << >> /\ queue' = Append(Tail(queue), d)

QueueReset == queue' = << >>

QueueNext == Deq \/ QueueReset \/ \E d \in Data : Enq(d) \/ EnqDeq(d)

QueueSpec == QueueInit /\ [][QueueNext]_queue
=============================================================================
