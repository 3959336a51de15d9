------------------------------ MODULE AlpcPort ------------------------------
(***************************************************************************)
(* The message queue of one ALPC port (src/kernel/alpc.c): a ring indexed  *)
(* by queue_head and queue_tail that keeps one slot free.  Each locked     *)
(* section is one action; the stamping of a message is outside the lock.   *)
(* The handoff that ends a send changes nothing here (see Sched).          *)
(***************************************************************************)
EXTENDS AlpcRing, Sequences

CONSTANTS
  Client,     \* threads that send
  Receiver,   \* threads that receive
  Owner,      \* port->server_tid, the thread that made the port
  Body,       \* message contents
  None

VARIABLES
  port,       \* the ring: queue_head, queue_tail, msg_queue
  msg,        \* msg[c]: the message client c is trying to send
  got, ret    \* what a receiver took last; the outcome of the last call

vars == <<port, msg, got, ret>>

Message == [sender_tid : Client, receiver_tid : {Owner}, body : Body]
Ring == [queue_head : Index, queue_tail : Index, msg_queue : [Index -> Message \cup {None}]]

(* The indices stay inside the ring (alpc.c:78, 103). *)
PortTypeOK ==
  /\ port \in Ring
  /\ msg \in [Client -> Message \cup {None}]
  /\ got \in [Receiver -> Message \cup {None}]
  /\ ret \in {"none", "ok", "full", "empty"}

-----------------------------------------------------------------------------
(* alpc_create_port; the slots hold whatever the heap had. *)
Init ==
  /\ port = EmptyRing(None)
  /\ msg = [c \in Client |-> None]
  /\ got = [r \in Receiver |-> None]
  /\ ret = "none"

(* alpc_send up to the lock. *)
Stamp(c, b) ==
  /\ msg[c] = None
  /\ msg' = [msg EXCEPT ![c] = [sender_tid |-> c, receiver_tid |-> Owner, body |-> b]]
  /\ UNCHANGED <<port, got, ret>>

(* The locked section of alpc_send.  A client whose message is refused      *)
(* keeps it and tries again.                                                *)
Send(c) ==
  /\ msg[c] # None
  /\ IF IsFull(port)
     THEN ret' = "full" /\ UNCHANGED <<port, msg>>
     ELSE /\ port' = Enqueue(port, msg[c])
          /\ msg' = [msg EXCEPT ![c] = None]
          /\ ret' = "ok"
  /\ UNCHANGED got

Recv(r) ==
  /\ IF IsEmpty(port)
     THEN ret' = "empty" /\ UNCHANGED <<port, got>>
     ELSE /\ got' = [got EXCEPT ![r] = Front(port)]
          /\ port' = Dequeue(port)
          /\ ret' = "ok"
  /\ UNCHANGED msg

Next ==
  \/ \E c \in Client : (\E b \in Body : Stamp(c, b)) \/ Send(c)
  \/ \E r \in Receiver : Recv(r)

Spec == Init /\ [][Next]_vars

-----------------------------------------------------------------------------
(* The messages in the ring, oldest first. *)
Count(p) == IF p.queue_head <= p.queue_tail
            THEN p.queue_tail - p.queue_head
            ELSE p.queue_tail + QueueSize - p.queue_head
Slot(p, i) == IF p.queue_head + i < QueueSize
              THEN p.queue_head + i ELSE p.queue_head + i - QueueSize
Contents(p) == [i \in 1 .. Count(p) |-> p.msg_queue[Slot(p, i - 1)]]

F == INSTANCE Fifo WITH Value <- Message, Capacity <- QueueSize - 1, queue <- Contents(port)

(* A port is a first-in-first-out queue of queue_size - 1 messages: what    *)
(* alpc_recv returns is what alpc_send accepted, in that order and once,    *)
(* however the ring has wrapped; -1 means full or empty and nothing else    *)
(* (alpc.c:71-78, 96-103).                                                  *)
PortIsFifo == F!Spec

(* Every slot between head and tail has been written by a send. *)
Written == \A i \in 1 .. Count(port) : Contents(port)[i] \in Message

(* The inductive invariant of the ring (alpc.c:61-108). *)
PortInv == PortTypeOK /\ Written
=============================================================================
