------------------------------ MODULE AlpcRing ------------------------------
(***************************************************************************)
(* The ring inside an ALPC port (src/kernel/alpc.c:61-108): the tests and  *)
(* the updates that alpc_send and alpc_recv make under the port's lock.    *)
(***************************************************************************)
EXTENDS Naturals

CONSTANT QueueSize   \* port->queue_size

ASSUME PortAssumption == QueueSize \in Nat \ {0}

Index == 0 .. QueueSize - 1
Succ(i) == (i + 1) % QueueSize

\* Mutant: the free slot is used, so full looks like empty.
IsFullNever(p) == FALSE

IsFull(p) == Succ(p.queue_tail) = p.queue_head
IsEmpty(p) == p.queue_head = p.queue_tail

Enqueue(p, m) == [p EXCEPT !.msg_queue[p.queue_tail] = m,
                           !.queue_tail = Succ(p.queue_tail)]

Dequeue(p) == [p EXCEPT !.queue_head = Succ(p.queue_head)]
Front(p) == p.msg_queue[p.queue_head]
EmptyRing(none) == [queue_head |-> 0, queue_tail |-> 0, msg_queue |-> [i \in Index |-> none]]
=============================================================================
