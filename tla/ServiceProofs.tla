--------------------------- MODULE ServiceProofs ---------------------------
(***************************************************************************)
(* What threads get from the kernel, for any number of them and every      *)
(* interleaving.  Ports: the ring is a bounded first-in-first-out queue    *)
(* for every queue_size.  The clock: what has passed stays passed, and no  *)
(* sleep that began well is short.  System calls and interrupts: user code *)
(* goes on where it was, and stacks never mix.                             *)
(***************************************************************************)
EXTENDS AlpcPort, Clock, UserMode, TLAPS

(* The provers, in the order in which they are tried. *)
USE ZenonT(5), SMT

(* The ring's index step, (i + 1) % queue_size, without the division. *)
LEMMA SuccValue ==
  ASSUME NEW i \in Index
  PROVE  /\ Succ(i) \in Index
         /\ Succ(i) = IF i + 1 = QueueSize THEN 0 ELSE i + 1
BY SMT, PortAssumption DEF Succ, Index

(* The count is in range, and is what the two tests of the ring look at. *)
LEMMA CountFacts ==
  ASSUME NEW p \in Ring
  PROVE  /\ Count(p) \in 0 .. QueueSize - 1
         /\ IsFull(p) <=> Count(p) = QueueSize - 1
         /\ IsEmpty(p) <=> Count(p) = 0
<1> DEFINE h == p.queue_head
           t == p.queue_tail
<1>1. h \in Index /\ t \in Index
  BY DEF Ring
<1>2. Succ(t) = IF t + 1 = QueueSize THEN 0 ELSE t + 1
  BY <1>1, SuccValue
<1>3. Count(p) = IF h <= t THEN t - h ELSE t + QueueSize - h
  BY DEF Count
<1>4. IsFull(p) <=> Succ(t) = h
  BY DEF IsFull
<1>5. IsEmpty(p) <=> h = t
  BY DEF IsEmpty
<1> HIDE DEF h, t
<1> QED
  BY SMT, <1>1, <1>2, <1>3, <1>4, <1>5, PortAssumption DEF Index

(* The messages in the ring are a sequence as long as the count. *)
LEMMA ContentsSeq ==
  ASSUME NEW p \in Ring
  PROVE  /\ Contents(p) \in Seq(Message \cup {None})
         /\ Len(Contents(p)) = Count(p)
         /\ DOMAIN Contents(p) = 1 .. Count(p)
         /\ \A i \in 1 .. Count(p) :
              Slot(p, i - 1) \in Index /\ Contents(p)[i] = p.msg_queue[Slot(p, i - 1)]
<1>1. Count(p) \in Nat /\ Count(p) <= QueueSize - 1
  BY SMT, CountFacts, PortAssumption
<1>2. \A i \in 1 .. Count(p) : Slot(p, i - 1) \in Index
  <2> TAKE i \in 1 .. Count(p)
  <2>1. p.queue_head \in Index
    BY DEF Ring
  <2> QED
    BY SMT, <1>1, <2>1, PortAssumption DEF Slot, Index
<1>3. p.msg_queue \in [Index -> Message \cup {None}]
  BY DEF Ring
<1>4. Contents(p) = [i \in 1 .. Count(p) |-> p.msg_queue[Slot(p, i - 1)]]
  BY DEF Contents
<1>5. Contents(p) \in [1 .. Count(p) -> Message \cup {None}]
  BY <1>2, <1>3, <1>4
<1> QED
  BY SMT, <1>1, <1>2, <1>4, <1>5

(* Enqueue on a ring with a free slot appends (alpc.c:77-78). *)
LEMMA EnqueueAppends ==
  ASSUME NEW p \in Ring, NEW m \in Message, ~ IsFull(p)
  PROVE  /\ Enqueue(p, m) \in Ring
         /\ Contents(Enqueue(p, m)) = Append(Contents(p), m)
<1> DEFINE q == Enqueue(p, m)
           h == p.queue_head
           t == p.queue_tail
<1>1. h \in Index /\ t \in Index /\ p.msg_queue \in [Index -> Message \cup {None}]
  BY DEF Ring
<1>2. Succ(t) \in Index /\ Succ(t) = IF t + 1 = QueueSize THEN 0 ELSE t + 1
  BY <1>1, SuccValue
<1>3. /\ q.queue_head = h
      /\ q.queue_tail = Succ(t)
      /\ q.msg_queue = [p.msg_queue EXCEPT ![t] = m]
  BY DEF Ring, Enqueue
<1>4. q \in Ring
  BY <1>1, <1>2 DEF Ring, Enqueue
<1>5. Succ(t) # h
  BY DEF IsFull
<1>6. Count(p) = IF h <= t THEN t - h ELSE t + QueueSize - h
  BY DEF Count
<1>7. Count(q) = IF h <= Succ(t) THEN Succ(t) - h ELSE Succ(t) + QueueSize - h
  BY <1>3 DEF Count
<1>8. /\ Count(p) \in 0 .. QueueSize - 2
      /\ Count(q) = Count(p) + 1
  <2> HIDE DEF h, t, q
  <2> QED
    BY SMT, <1>1, <1>2, <1>5, <1>6, <1>7, PortAssumption DEF Index
<1>9. \A i \in 1 .. Count(p) : Slot(q, i - 1) = Slot(p, i - 1) /\ Slot(p, i - 1) # t
  <2> TAKE i \in 1 .. Count(p)
  <2>1. Slot(p, i - 1) = IF h + (i - 1) < QueueSize THEN h + (i - 1) ELSE h + (i - 1) - QueueSize
    BY DEF Slot
  <2>2. Slot(q, i - 1) = Slot(p, i - 1)
    BY <1>3 DEF Slot
  <2> HIDE DEF h, t, q
  <2> QED
    BY SMT, <1>1, <1>6, <1>8, <2>1, <2>2, PortAssumption DEF Index
<1>10. Slot(q, Count(p)) = t
  <2>1. Slot(q, Count(p)) = IF h + Count(p) < QueueSize THEN h + Count(p)
                            ELSE h + Count(p) - QueueSize
    BY <1>3 DEF Slot
  <2> HIDE DEF h, t, q
  <2> QED
    BY SMT, <1>1, <1>6, <1>8, <2>1, PortAssumption DEF Index
<1> HIDE DEF q, h, t
<1>11. /\ Contents(p) \in Seq(Message \cup {None})
       /\ Len(Contents(p)) = Count(p)
       /\ \A i \in 1 .. Count(p) : /\ Slot(p, i - 1) \in Index
                                   /\ Contents(p)[i] = p.msg_queue[Slot(p, i - 1)]
  BY ContentsSeq
<1>12. /\ Contents(q) \in Seq(Message \cup {None})
       /\ Len(Contents(q)) = Count(p) + 1
       /\ \A i \in 1 .. Count(p) + 1 : Contents(q)[i] = q.msg_queue[Slot(q, i - 1)]
  BY <1>4, <1>8, ContentsSeq
<1>13. \A i \in 1 .. Count(p) : Contents(q)[i] = Contents(p)[i]
  <2> TAKE i \in 1 .. Count(p)
  <2>1. i \in 1 .. Count(p) + 1
    BY SMT, <1>8
  <2>2. Contents(q)[i] = q.msg_queue[Slot(p, i - 1)]
    BY <1>9, <1>12, <2>1
  <2> QED
    BY <1>1, <1>3, <1>9, <1>11, <2>2
<1>14. Contents(q)[Count(p) + 1] = m
  <2>1. Contents(q)[Count(p) + 1] = q.msg_queue[t]
    <3>1. (Count(p) + 1) - 1 = Count(p) /\ Count(p) + 1 \in 1 .. Count(p) + 1
      BY SMT, <1>8
    <3> QED
      BY <1>10, <1>12, <3>1
  <2> QED
    BY <1>1, <1>3, <2>1
<1>15. Contents(q) = Append(Contents(p), m)
  BY SMT, <1>8, <1>11, <1>12, <1>13, <1>14
<1> QED
  BY <1>4, <1>15 DEF q

(* Dequeue on a ring that is not empty takes the head (alpc.c:102-103). *)
LEMMA DequeueTakes ==
  ASSUME NEW p \in Ring, ~ IsEmpty(p)
  PROVE  /\ Dequeue(p) \in Ring
         /\ Front(p) = Head(Contents(p))
         /\ Contents(Dequeue(p)) = Tail(Contents(p))
         /\ Contents(p) # <<>>
<1> DEFINE q == Dequeue(p)
           h == p.queue_head
           t == p.queue_tail
<1>1. h \in Index /\ t \in Index /\ p.msg_queue \in [Index -> Message \cup {None}]
  BY DEF Ring
<1>2. Succ(h) \in Index /\ Succ(h) = IF h + 1 = QueueSize THEN 0 ELSE h + 1
  BY <1>1, SuccValue
<1>3. /\ q.queue_head = Succ(h)
      /\ q.queue_tail = t
      /\ q.msg_queue = p.msg_queue
  BY DEF Ring, Dequeue
<1>4. q \in Ring
  BY <1>1, <1>2 DEF Ring, Dequeue
<1>5. h # t
  BY DEF IsEmpty
<1>6. Count(p) = IF h <= t THEN t - h ELSE t + QueueSize - h
  BY DEF Count
<1>7. Count(q) = IF Succ(h) <= t THEN t - Succ(h) ELSE t + QueueSize - Succ(h)
  BY <1>3 DEF Count
<1>8. /\ Count(p) \in 1 .. QueueSize - 1
      /\ Count(q) = Count(p) - 1
  <2> HIDE DEF h, t, q
  <2> QED
    BY SMT, <1>1, <1>2, <1>5, <1>6, <1>7, PortAssumption DEF Index
<1>9. \A i \in 1 .. Count(q) : Slot(q, i - 1) = Slot(p, i)
  <2> TAKE i \in 1 .. Count(q)
  <2>1. Slot(p, i) = IF h + i < QueueSize THEN h + i ELSE h + i - QueueSize
    BY DEF Slot
  <2>2. Slot(q, i - 1) = IF Succ(h) + (i - 1) < QueueSize THEN Succ(h) + (i - 1)
                         ELSE Succ(h) + (i - 1) - QueueSize
    BY <1>3 DEF Slot
  <2> HIDE DEF h, t, q
  <2> QED
    BY SMT, <1>1, <1>2, <1>8, <2>1, <2>2, PortAssumption DEF Index
<1>10. Slot(p, 0) = h
  <2>1. Slot(p, 0) = IF h + 0 < QueueSize THEN h + 0 ELSE h + 0 - QueueSize
    BY DEF Slot
  <2> HIDE DEF h
  <2> QED
    BY SMT, <1>1, <2>1, PortAssumption DEF Index
<1>11. Front(p) = p.msg_queue[h]
  BY DEF Front
<1> HIDE DEF q, h, t
<1>12. /\ Contents(p) \in Seq(Message \cup {None})
       /\ Len(Contents(p)) = Count(p)
       /\ \A i \in 1 .. Count(p) : Contents(p)[i] = p.msg_queue[Slot(p, i - 1)]
  BY ContentsSeq
<1>13. /\ Contents(q) \in Seq(Message \cup {None})
       /\ Len(Contents(q)) = Count(q)
       /\ \A i \in 1 .. Count(q) : Contents(q)[i] = q.msg_queue[Slot(q, i - 1)]
  BY <1>4, ContentsSeq
<1>14. Contents(p)[1] = Front(p)
  <2>1. 1 \in 1 .. Count(p) /\ 1 - 1 = 0
    BY SMT, <1>8
  <2> QED
    BY <1>10, <1>11, <1>12, <2>1
<1>15. \A i \in 1 .. Count(q) : Contents(q)[i] = Contents(p)[i + 1]
  <2> TAKE i \in 1 .. Count(q)
  <2>1. i + 1 \in 1 .. Count(p) /\ (i + 1) - 1 = i
    BY SMT, <1>8
  <2>2. Contents(p)[i + 1] = p.msg_queue[Slot(p, i)]
    BY <1>12, <2>1
  <2> QED
    BY <1>3, <1>9, <1>13, <2>2
<1>16. Contents(p) # <<>> /\ Head(Contents(p)) = Front(p)
  BY SMT, <1>8, <1>12, <1>14
<1>17. Contents(q) = Tail(Contents(p))
  BY SMT, <1>8, <1>12, <1>13, <1>15, <1>16
<1> QED
  BY <1>4, <1>16, <1>17 DEF q

(* Only sends fill slots, so no receive returns a slot nobody wrote. *)
LEMMA WrittenStep ==
  PortInv /\ [Next]_vars => PortInv'
<1> SUFFICES ASSUME PortInv, [Next]_vars PROVE PortInv'
  OBVIOUS
<1>1. /\ port \in Ring
      /\ msg \in [Client -> Message \cup {None}]
      /\ got \in [Receiver -> Message \cup {None}]
      /\ ret \in {"none", "ok", "full", "empty"}
      /\ \A i \in 1 .. Count(port) : Contents(port)[i] \in Message
  BY DEF PortInv, PortTypeOK, Written
<1>2. CASE UNCHANGED vars
  BY <1>1, <1>2 DEF PortInv, PortTypeOK, Written, vars
<1>3. ASSUME NEW c \in Client, NEW b \in Body, Stamp(c, b) PROVE PortInv'
  <2>1. [sender_tid |-> c, receiver_tid |-> Owner, body |-> b] \in Message
    BY DEF Message
  <2>2. msg' \in [Client -> Message \cup {None}]
    BY <1>1, <1>3, <2>1 DEF Stamp
  <2> QED
    BY <1>1, <1>3, <2>2 DEF Stamp, PortInv, PortTypeOK, Written
<1>4. ASSUME NEW c \in Client, Send(c) PROVE PortInv'
  <2>1. CASE IsFull(port)
    BY <1>1, <1>4, <2>1 DEF Send, PortInv, PortTypeOK, Written
  <2>2. CASE ~ IsFull(port)
    <3>1. /\ port' = Enqueue(port, msg[c]) /\ msg' = [msg EXCEPT ![c] = None]
          /\ ret' = "ok" /\ got' = got /\ msg[c] \in Message
      BY <1>1, <1>4, <2>2 DEF Send
    <3>2. port' \in Ring /\ Contents(port') = Append(Contents(port), msg[c])
      BY <1>1, <2>2, <3>1, EnqueueAppends
    <3>3. /\ Contents(port) \in Seq(Message \cup {None}) /\ Len(Contents(port)) = Count(port)
          /\ Len(Contents(port')) = Count(port')
      BY <1>1, <3>2, ContentsSeq
    <3>4. \A i \in 1 .. Count(port') : Contents(port')[i] \in Message
      BY SMT, <1>1, <3>1, <3>2, <3>3
    <3>5. msg' \in [Client -> Message \cup {None}]
      BY <1>1, <3>1
    <3> QED
      BY <1>1, <3>1, <3>2, <3>4, <3>5 DEF PortInv, PortTypeOK, Written
  <2> QED
    BY <2>1, <2>2
<1>5. ASSUME NEW r \in Receiver, Recv(r) PROVE PortInv'
  <2>1. CASE IsEmpty(port)
    BY <1>1, <1>5, <2>1 DEF Recv, PortInv, PortTypeOK, Written
  <2>2. CASE ~ IsEmpty(port)
    <3>1. /\ port' = Dequeue(port) /\ got' = [got EXCEPT ![r] = Front(port)]
          /\ ret' = "ok" /\ msg' = msg
      BY <1>5, <2>2 DEF Recv
    <3>2. /\ port' \in Ring /\ Contents(port') = Tail(Contents(port))
          /\ Front(port) = Head(Contents(port)) /\ Contents(port) # <<>>
      BY <1>1, <2>2, <3>1, DequeueTakes
    <3>3. /\ Contents(port) \in Seq(Message \cup {None}) /\ Len(Contents(port)) = Count(port)
          /\ Len(Contents(port')) = Count(port')
      BY <1>1, <3>2, ContentsSeq
    <3>4. \A i \in 1 .. Count(port') : Contents(port')[i] \in Message
      BY SMT, <1>1, <3>2, <3>3
    <3>5. Front(port) \in Message
      BY SMT, <1>1, <3>2, <3>3
    <3>6. got' \in [Receiver -> Message \cup {None}]
      BY <1>1, <3>1, <3>5
    <3> QED
      BY <1>1, <3>1, <3>2, <3>4, <3>6 DEF PortInv, PortTypeOK, Written
  <2> QED
    BY <2>1, <2>2
<1> QED
  BY <1>2, <1>3, <1>4, <1>5 DEF Next

(* alpc_create_port leaves an empty queue behind (alpc.c:23-42). *)
LEMMA InitPort ==
  Init => PortInv /\ Contents(port) = <<>>
<1> SUFFICES ASSUME Init PROVE PortInv /\ Contents(port) = <<>>
  OBVIOUS
<1>1. 0 \in Index
  BY SMT, PortAssumption DEF Index
<1>2. port \in Ring /\ Count(port) = 0
  BY SMT, <1>1 DEF Init, EmptyRing, Ring, Count
<1>3. Len(Contents(port)) = 0 /\ Contents(port) \in Seq(Message \cup {None})
  BY <1>2, ContentsSeq
<1>4. Contents(port) = <<>>
  BY SMT, <1>3
<1>5. \A i \in 1 .. Count(port) : Contents(port)[i] \in Message
  BY SMT, <1>2
<1> QED
  BY <1>2, <1>4, <1>5 DEF Init, PortInv, PortTypeOK, Written

(* In every reachable state the ring's indices are in range and every slot  *)
(* between head and tail holds a message some client sent (alpc.c:71-78,    *)
(* 96-103).                                                                 *)
THEOREM PortInvariance == Spec => []PortInv
<1>1. Init => PortInv
  BY InitPort
<1> QED
  BY <1>1, WrittenStep, PTL DEF Spec

(* Every step of the ring is a step of the bounded queue, or none. *)
LEMMA PortStep ==
  PortInv /\ [Next]_vars => [F!Next]_(F!fvars)
<1> SUFFICES ASSUME PortInv, [Next]_vars PROVE [F!Next]_(F!fvars)
  OBVIOUS
<1>1. /\ port \in Ring
      /\ msg \in [Client -> Message \cup {None}]
  BY DEF PortInv, PortTypeOK
<1>2. /\ Len(Contents(port)) = Count(port) /\ Count(port) \in 0 .. QueueSize - 1
      /\ IsFull(port) <=> Count(port) = QueueSize - 1
      /\ IsEmpty(port) <=> Count(port) = 0
      /\ Contents(port) \in Seq(Message \cup {None})
  BY <1>1, ContentsSeq, CountFacts
<1>3. CASE UNCHANGED vars
  BY <1>3 DEF F!fvars, vars
<1>4. ASSUME NEW c \in Client, NEW b \in Body, Stamp(c, b) PROVE [F!Next]_(F!fvars)
  BY <1>4 DEF Stamp, F!fvars
<1>5. ASSUME NEW c \in Client, Send(c) PROVE [F!Next]_(F!fvars)
  <2>1. msg[c] \in Message
    BY <1>1, <1>5 DEF Send
  <2>2. CASE IsFull(port)
    <3>1. ~ Len(Contents(port)) < QueueSize - 1
      BY SMT, <1>2, <2>2, PortAssumption
    <3>2. port' = port /\ ret' = "full" /\ got' = got
      BY <1>5, <2>2 DEF Send
    <3> QED
      BY <2>1, <3>1, <3>2 DEF F!Next, F!Put
  <2>3. CASE ~ IsFull(port)
    <3>1. Len(Contents(port)) < QueueSize - 1
      BY SMT, <1>2, <2>3, PortAssumption
    <3>2. port' = Enqueue(port, msg[c]) /\ ret' = "ok" /\ got' = got
      BY <1>5, <2>3 DEF Send
    <3>3. Contents(port') = Append(Contents(port), msg[c])
      BY <1>1, <2>1, <2>3, <3>2, EnqueueAppends
    <3> QED
      BY <2>1, <3>1, <3>2, <3>3 DEF F!Next, F!Put
  <2> QED
    BY <2>2, <2>3
<1>6. ASSUME NEW r \in Receiver, Recv(r) PROVE [F!Next]_(F!fvars)
  <2>1. CASE IsEmpty(port)
    <3>1. Contents(port) = <<>>
      BY SMT, <1>2, <2>1
    <3>2. port' = port /\ ret' = "empty" /\ got' = got
      BY <1>6, <2>1 DEF Recv
    <3> QED
      BY <3>1, <3>2 DEF F!Next, F!Get
  <2>2. CASE ~ IsEmpty(port)
    <3>1. /\ port' = Dequeue(port) /\ got' = [got EXCEPT ![r] = Front(port)]
          /\ ret' = "ok"
      BY <1>6, <2>2 DEF Recv
    <3>2. /\ Contents(port') = Tail(Contents(port))
          /\ Front(port) = Head(Contents(port)) /\ Contents(port) # <<>>
      BY <1>1, <2>2, <3>1, DequeueTakes
    <3> QED
      BY <3>1, <3>2 DEF F!Next, F!Get
  <2> QED
    BY <2>1, <2>2
<1> QED
  BY <1>3, <1>4, <1>5, <1>6 DEF Next

(* alpc_send and alpc_recv implement a bounded first-in-first-out queue of  *)
(* queue_size - 1 messages: order kept, nothing lost, doubled or made up,   *)
(* -1 returned exactly when full or empty (alpc.c:61-108).                  *)
THEOREM PortImplementsFifo == Spec => PortIsFifo
<1>1. Init => F!Init
  BY InitPort DEF Init, F!Init
<1>2. PortInv /\ [Next]_vars => [F!Next]_(F!fvars)
  BY PortStep
<1> QED
  BY <1>1, <1>2, PortInvariance, PTL DEF Spec, PortIsFifo, F!Spec

-----------------------------------------------------------------------------
(* The clock at boot (lib.c:1, apic.c:11). *)
LEMMA ClockInitInv == ClockInit => ClockInv
BY SMT, ClockAssumption DEF ClockInit, ClockInv, ClockTypeOK

(* The load of the handler keeps the invariant (apic.c:88). *)
LEMMA TickLoadInv ==
  ASSUME ClockInv, NEW c \in TickCpu, TickLoad(c)
  PROVE  ClockInv'
<1>1. ClockTypeOK'
  BY DEF TickLoad, ClockInv, ClockTypeOK
<1>2. \A d \in TickCpu : InHandler(d)' => \/ InHandler(d) /\ loaded'[d] = loaded[d]
                                          \/ loaded'[d] = global_ticks
  BY DEF TickLoad, ClockInv, ClockTypeOK, InHandler
<1>3. UNCHANGED <<sleep, global_ticks>>
  BY DEF TickLoad
<1> QED
  BY <1>1, <1>2, <1>3 DEF ClockInv, NotAhead

(* So does the store: it adds one to a value that was not ahead, and every  *)
(* sleeper hears it (apic.c:88).                                            *)
LEMMA TickStoreInv ==
  ASSUME ClockInv, NEW c \in TickCpu, TickStore(c)
  PROVE  ClockInv'
<1>t. ClockTypeOK /\ loaded[c] \in Nat /\ SleepTicks \in Nat
  BY ClockAssumption DEF ClockInv, ClockTypeOK, TickStore, InHandler
<1>1. ClockTypeOK'
  BY SMT, <1>t DEF TickStore, ClockTypeOK
<1>2. SUFFICES ASSUME NEW s \in Sleeper, sleep'[s].on, ~ sleep'[s].set_back,
                      sleep'[s].heard # SleepTicks
               PROVE  /\ NotAhead(s, global_ticks)'
                      /\ \A d \in TickCpu : InHandler(d)' => NotAhead(s, loaded[d])'
  BY <1>1 DEF ClockInv
<1>3. /\ sleep'[s].target = sleep[s].target /\ sleep[s].on /\ ~ sleep[s].set_back
      /\ sleep'[s].heard = sleep[s].heard + 1 /\ sleep[s].heard # SleepTicks
  BY SMT, <1>t, <1>2 DEF TickStore, ClockTypeOK
<1>4. sleep[s].target \in Nat /\ sleep[s].heard \in Nat
  BY SMT, <1>t DEF ClockTypeOK
<1>5. NotAhead(s, loaded[c])
  BY <1>3 DEF ClockInv, TickStore
<1>6. NotAhead(s, global_ticks)'
  BY SMT, <1>t, <1>3, <1>4, <1>5 DEF TickStore, NotAhead
<1>7. ASSUME NEW d \in TickCpu, InHandler(d)' PROVE NotAhead(s, loaded[d])'
  <2>1. InHandler(d) /\ loaded'[d] = loaded[d] /\ loaded[d] \in Nat
    BY <1>t, <1>7 DEF TickStore, ClockTypeOK, InHandler
  <2>2. NotAhead(s, loaded[d])
    BY <1>3, <2>1 DEF ClockInv
  <2> QED
    BY SMT, <1>t, <1>3, <1>4, <2>1, <2>2 DEF NotAhead
<1> QED
  BY <1>6, <1>7

(* A sleeper begins and ends (lib.c:84-89). *)
LEMMA SleeperInv ==
  ASSUME ClockInv, NEW s \in Sleeper, b_sleep(s) \/ Wake(s)
  PROVE  ClockInv'
<1>t. ClockTypeOK /\ SleepTicks \in Nat /\ UNCHANGED <<global_ticks, loaded>>
  BY ClockAssumption DEF ClockInv, b_sleep, Wake
<1>1. CASE b_sleep(s)
  <2>1. /\ sleep' = [sleep EXCEPT ![s] = sleep'[s]]
        /\ sleep'[s].target = global_ticks + SleepTicks /\ sleep'[s].heard = 0
        /\ sleep'[s].set_back \in BOOLEAN
    BY <1>1, <1>t DEF b_sleep, ClockTypeOK
  <2>2. ClockTypeOK'
    BY SMT, <1>1, <1>t DEF b_sleep, ClockTypeOK
  <2>3. ~ sleep'[s].set_back => \A c \in TickCpu : InHandler(c) => loaded[c] <= global_ticks
    BY SMT, <1>1, <1>t DEF b_sleep, ClockTypeOK, InHandler
  <2>4. ~ sleep'[s].set_back =>
          /\ NotAhead(s, global_ticks)'
          /\ \A c \in TickCpu : InHandler(c)' => NotAhead(s, loaded[c])'
    BY SMT, <1>t, <2>1, <2>3 DEF NotAhead, InHandler, ClockTypeOK
  <2>5. \A u \in Sleeper \ {s} : sleep'[u] = sleep[u]
    BY <1>t, <2>1 DEF ClockTypeOK
  <2> QED
    BY <1>t, <2>2, <2>4, <2>5 DEF ClockInv, NotAhead, InHandler
<1>2. CASE Wake(s)
  <2>1. ClockTypeOK' /\ ~ sleep'[s].on /\ \A u \in Sleeper \ {s} : sleep'[u] = sleep[u]
    BY <1>2, <1>t DEF Wake, ClockTypeOK
  <2> QED
    BY <1>t, <2>1 DEF ClockInv, NotAhead, InHandler
<1> QED
  BY <1>1, <1>2

(* ClockInv holds in every state. *)
THEOREM ClockInvariance == ClockSpec => []ClockInv
<1>1. ClockInv /\ [ClockNext]_clock_vars => ClockInv'
  <2> SUFFICES ASSUME ClockInv, [ClockNext]_clock_vars PROVE ClockInv'
    OBVIOUS
  <2>1. CASE ClockNext
    BY <2>1, TickLoadInv, TickStoreInv, SleeperInv DEF ClockNext
  <2>2. CASE UNCHANGED clock_vars
    BY <2>2 DEF clock_vars, ClockInv, ClockTypeOK, NotAhead, InHandler
  <2> QED
    BY <2>1, <2>2
<1> QED
  BY <1>1, ClockInitInv, PTL DEF ClockSpec

(* A sleep that began while the clock was not set back lasts as many timer  *)
(* interrupts as it asked for (lib.c:84-89).                                *)
THEOREM SleepNotShort == ClockSpec => []SleepsLongEnough
<1>1. ClockInv => SleepsLongEnough
  <2> SUFFICES ASSUME ClockInv, NEW s \in Sleeper, sleep[s].on, ~ sleep[s].set_back,
                      global_ticks >= sleep[s].target, sleep[s].heard # SleepTicks
               PROVE  FALSE
    BY DEF SleepsLongEnough
  <2>1. NotAhead(s, global_ticks)
    BY DEF ClockInv
  <2>2. /\ global_ticks \in Nat /\ sleep[s].target \in Nat /\ SleepTicks \in Nat
        /\ sleep[s].heard \in 0 .. SleepTicks
    BY ClockAssumption DEF ClockInv, ClockTypeOK
  <2> QED
    BY SMT, <2>1, <2>2 DEF NotAhead
<1> QED
  BY <1>1, ClockInvariance, PTL

(* What the clock and all handlers agree has passed stays passed, through   *)
(* lost increments and late stores (apic.c:87-88).                          *)
THEOREM NothingUnpasses == ClockSpec => PassedStays
<1> DEFINE Step == \A n \in 0 .. MaxTicks : Passed(n) => Passed(n)'
<1>1. ASSUME ClockInv, [ClockNext]_clock_vars PROVE [Step]_clock_vars
  <2> SUFFICES ASSUME ClockNext, NEW n \in 0 .. MaxTicks, Passed(n) PROVE Passed(n)'
    BY <1>1
  <2>t. n \in Nat /\ global_ticks \in Nat /\ \A c \in TickCpu : InHandler(c) => loaded[c] \in Nat
    BY SMT, <1>1, ClockAssumption DEF ClockInv, ClockTypeOK, InHandler
  <2>1. ASSUME NEW c \in TickCpu, TickLoad(c) PROVE Passed(n)'
    BY <1>1, <2>1, <2>t DEF TickLoad, Passed, InHandler, ClockInv, ClockTypeOK
  <2>2. ASSUME NEW c \in TickCpu, TickStore(c) PROVE Passed(n)'
    <3>1. global_ticks' >= n
      BY SMT, <2>2, <2>t DEF TickStore, Passed
    <3>2. \A d \in TickCpu : InHandler(d)' => InHandler(d) /\ loaded'[d] = loaded[d]
      BY <1>1, <2>2 DEF TickStore, InHandler, ClockInv, ClockTypeOK
    <3> QED
      BY <3>1, <3>2 DEF Passed
  <2>3. ASSUME NEW s \in Sleeper, b_sleep(s) \/ Wake(s) PROVE Passed(n)'
    BY <2>3 DEF b_sleep, Wake, Passed, InHandler
  <2> QED
    BY <2>1, <2>2, <2>3 DEF ClockNext
<1>2. ClockInv /\ [ClockNext]_clock_vars => [Step]_clock_vars
  BY <1>1
<1> QED
  BY <1>2, ClockInvariance, PTL DEF ClockSpec, PassedStays

-----------------------------------------------------------------------------
(* A stack pointer is a stack and a depth in it. *)
LEMMA AtFields ==
  ASSUME NEW s, NEW n
  PROVE  At(s, n).stack = s /\ At(s, n).at = n
BY DEF At

(* Every stack has one owner (sched.c:64, sched.c:110-111). *)
LEMMA StacksApart ==
  /\ \A t \in Thread : StackTop(t) \in KernelStacks /\ Home(t) \in KernelStacks
  /\ \A t, u \in Thread : t # u => Home(t) # Home(u)
  /\ \A t \in User : Home(t) = StackTop(t)
  /\ Home(Shell) = StackTop(Shell)
BY UserModeAssumption DEF StackTop, Home, KernelStacks, Thread

(* What a stack pointer and a frame may be. *)
LEMMA RspTypes ==
  /\ \A t \in Thread : At(Home(t), 0) \in Rsp /\ At(Home(t), 1) \in Rsp
  /\ \A t \in User, n \in 0 .. MaxUse : At(UserStack(t), n) \in Rsp
BY SMT, StacksApart DEF At, Rsp, MaxFrames

(* The context of a thread is a frame that fits on its stack. *)
LEMMA ContextType ==
  ASSUME UserModeTypeOK, NEW t \in Thread
  PROVE  /\ Context(t) \in Frame
         /\ Context(t).ring \in {0, 3} /\ Context(t).rsp \in Rsp /\ Context(t).pc = "code"
         /\ Context(t).regs = RegsOf(t) /\ RegsOf(t) \in Regs
<1>0. RegsOf(t) \in Regs
  BY DEF RegsOf, Regs, Value, UserModeTypeOK
<1>1. CASE t \in User
  <2>1. usp[t] \in 0 .. MaxUse
    BY <1>1 DEF UserModeTypeOK
  <2>2. At(UserStack(t), usp[t]) \in Rsp
    BY <1>1, <2>1, RspTypes
  <2> QED
    BY <1>0, <1>1, <2>2 DEF Context, Frame
<1>2. CASE t \notin User
  BY <1>0, <1>2, RspTypes DEF Context, Frame
<1> QED
  BY <1>1, <1>2

(* What a new thread finds in its registers. *)
LEMMA FreshType == \A t \in Thread : Fresh(t) \in Regs /\ t \in Value
BY DEF Fresh, Regs, Value

(* At boot (kernel.c:34-37). *)
LEMMA InitInv == UserInit => UserModeInv
<1> SUFFICES ASSUME UserInit PROVE UserModeInv
  OBVIOUS
<1>1. Boot \in Thread /\ Shell \in Thread /\ Boot # Shell /\ Boot \notin User /\ Shell \notin User
  BY UserModeAssumption DEF Thread
<1>2. FirstFrame(Shell) \in Frame
  BY <1>1, RspTypes, StacksApart, FreshType DEF FirstFrame, Frame
<1>r. \A t \in Thread : scratch[t] = t /\ RegsOf(t) = Fresh(t)
  BY DEF UserInit, RegsOf, Fresh
<1>3. UserModeTypeOK
  <2>1. mem \in [KernelStacks -> [1 .. MaxFrames -> Frame \cup {Unset}]]
    BY <1>2 DEF UserInit
  <2>2. saved \in [Thread -> [stack : KernelStacks, at : 1 .. MaxFrames] \cup {Unset}]
    BY SMT, <1>1, StacksApart DEF UserInit, At, MaxFrames
  <2>3. cpu \in [ring : {0, 3}, rsp : Rsp, pc : {"code", "entry", "handler", "return", "hlt"},
                 intr : BOOLEAN, regs : Regs]
    BY <1>1, RspTypes, FreshType DEF UserInit
  <2>4. usp \in [User -> 0 .. MaxUse]
    BY SMT, UserModeAssumption DEF UserInit
  <2>5. scratch \in [Thread -> Value]
    BY FreshType DEF UserInit
  <2> QED
    BY <1>1, <2>1, <2>2, <2>3, <2>4, <2>5 DEF UserInit, UserModeTypeOK
<1>4. InCode(sched_thread)
  BY <1>1, <1>r DEF UserInit, InCode, Context
<1>5. saved[Shell] = At(Home(Shell), 1) /\ mem[Home(Shell)][1] = Context(Shell)
  BY SMT, <1>1, <1>r, StacksApart DEF UserInit, Context, FirstFrame, MaxFrames
<1> QED
  BY <1>1, <1>3, <1>4, <1>5, <1>r DEF UserInit, UserModeInv

-----------------------------------------------------------------------------
(* A spawn writes only the stack of a thread that is neither current nor    *)
(* alive (sched.c:103-149).                                                 *)
LEMMA SpawnInv ==
  ASSUME UserModeInv, NEW t \in User, sched_spawn_user(t)
  PROVE  UserModeInv'
<1>1. /\ UserModeTypeOK /\ t \in Thread /\ sched_thread = Shell /\ t # Shell /\ t \notin alive
      /\ Shell \notin User /\ Shell \in Thread
  BY UserModeAssumption DEF UserModeInv, sched_spawn_user, Thread
<1>2. FirstFrame(t) \in Frame /\ FirstFrame(t) = Context(t)'
  <2>1. usp'[t] = 0 /\ 0 \in 0 .. MaxUse
    BY SMT, <1>1, UserModeAssumption DEF sched_spawn_user, UserModeTypeOK
  <2>2. At(UserStack(t), 0) \in Rsp
    BY <2>1, RspTypes
  <2>r. RegsOf(t)' = Fresh(t)
    BY <1>1 DEF sched_spawn_user, UserModeTypeOK, RegsOf, Fresh
  <2>3. FirstFrame(t) = Context(t)'
    BY <2>1, <2>r DEF FirstFrame, Context
  <2> QED
    BY <1>1, <2>2, <2>3, FreshType DEF FirstFrame, Frame
<1>r. \A u \in Thread : u # t => scratch'[u] = scratch[u] /\ RegsOf(u)' = RegsOf(u)
  BY <1>1 DEF sched_spawn_user, UserModeTypeOK, RegsOf
<1>3. /\ mem'[Home(t)][1] = FirstFrame(t)
      /\ \A u \in Thread : u # t => mem'[Home(u)] = mem[Home(u)]
  BY SMT, <1>1, StacksApart DEF sched_spawn_user, UserModeTypeOK, MaxFrames
<1>4. UserModeTypeOK'
  <2>1. mem' \in [KernelStacks -> [1 .. MaxFrames -> Frame \cup {Unset}]]
    BY <1>1, <1>2, StacksApart DEF sched_spawn_user, UserModeTypeOK, MaxFrames
  <2>2. saved' \in [Thread -> [stack : KernelStacks, at : 1 .. MaxFrames] \cup {Unset}]
    BY SMT, <1>1, StacksApart DEF sched_spawn_user, UserModeTypeOK, At, MaxFrames
  <2>3. scratch' \in [Thread -> Value]
    BY <1>1, FreshType DEF sched_spawn_user, UserModeTypeOK
  <2> QED
    BY SMT, <1>1, <2>1, <2>2, <2>3, UserModeAssumption DEF sched_spawn_user, UserModeTypeOK
<1>5. InCode(Shell)'
  <2>1. InCode(Shell)
    BY <1>1 DEF UserModeInv, InEntry, InService, InExit
  <2> QED
    BY <1>1, <1>r, <2>1 DEF sched_spawn_user, InCode, Context
<1>6. ASSUME NEW u \in alive' \ {sched_thread'}
      PROVE  saved'[u] = At(Home(u), 1) /\ mem'[Home(u)][1] = Context(u)'
  <2>1. CASE u = t
    BY <1>1, <1>2, <1>3, <2>1, StacksApart DEF sched_spawn_user, UserModeTypeOK
  <2>2. CASE u # t
    <3>1. u \in alive \ {sched_thread} /\ u \in Thread /\ saved'[u] = saved[u]
      BY <1>1, <1>6, <2>2 DEF sched_spawn_user, UserModeTypeOK
    <3>2. Context(u)' = Context(u)
      BY <1>1, <1>r, <2>2, <3>1 DEF sched_spawn_user, UserModeTypeOK, Context
    <3> QED
      BY <1>3, <2>2, <3>1, <3>2 DEF UserModeInv
  <2> QED
    BY <2>1, <2>2
<1>7. \A u \in Thread : scratch'[u] \in {u, LeftBy(u)}
  BY <1>1, <1>r DEF sched_spawn_user, UserModeInv, UserModeTypeOK
<1> QED
  BY <1>1, <1>4, <1>5, <1>6, <1>7 DEF UserModeInv, sched_spawn_user

(* In ring 3 the current thread is a user thread in its own code. *)
LEMMA RingThree ==
  ASSUME UserModeInv, cpu.ring = 3
  PROVE  /\ sched_thread \in User \cap alive /\ sched_thread \in Thread
         /\ InCode(sched_thread)
         /\ cpu = [ring |-> 3, rsp |-> At(UserStack(sched_thread), usp[sched_thread]),
                   pc |-> "code", intr |-> TRUE, regs |-> RegsOf(sched_thread)]
         /\ rsp0 = StackTop(sched_thread) /\ kernel_stack = rsp0
<1>1. InCode(sched_thread)
  BY SMT DEF UserModeInv, InEntry, InService, InExit
<1>2. sched_thread \in User
  BY SMT, <1>1 DEF InCode, Context
<1> QED
  BY <1>1, <1>2 DEF UserModeInv, UserModeTypeOK, InCode, Context

(* Nothing but the current thread's place changes: the others are as they   *)
(* were if their frames, their saved pointers and their own stack pointers  *)
(* and registers are.                                                       *)
LEMMA OthersIntact ==
  ASSUME UserModeInv, sched_thread' = sched_thread, alive' \subseteq alive,
         UNCHANGED saved,
         \A t \in Thread \ {sched_thread} : mem'[Home(t)] = mem[Home(t)],
         \A t \in User \ {sched_thread} : usp'[t] = usp[t],
         \A t \in Thread \ {sched_thread} : scratch'[t] = scratch[t]
  PROVE  \A t \in alive' \ {sched_thread'} :
           saved'[t] = At(Home(t), 1) /\ mem'[Home(t)][1] = Context(t)'
<1> SUFFICES ASSUME NEW t \in alive' \ {sched_thread'}
             PROVE  saved'[t] = At(Home(t), 1) /\ mem'[Home(t)][1] = Context(t)'
  OBVIOUS
<1>1. t \in alive \ {sched_thread} /\ t \in Thread
  BY DEF UserModeInv, UserModeTypeOK
<1>2. Context(t)' = Context(t)
  BY <1>1 DEF Context, RegsOf
<1> QED
  BY <1>1, <1>2 DEF UserModeInv

(* User code moves its own stack pointer. *)
LEMMA UserCodeInv ==
  ASSUME UserModeInv, NEW n \in 0 .. MaxUse, UserCode(n)
  PROVE  UserModeInv'
<1> DEFINE t == sched_thread
<1>1. /\ UserModeTypeOK /\ t \in User /\ t \in Thread /\ t \in alive
      /\ cpu.rsp = At(UserStack(t), usp[t])
      /\ rsp0 = StackTop(t) /\ kernel_stack = rsp0
      /\ cpu = [ring |-> 3, rsp |-> At(UserStack(t), usp[t]), pc |-> "code", intr |-> TRUE,
                regs |-> RegsOf(t)]
  BY SMT, RingThree DEF UserModeInv, UserCode
<1>2. usp'[t] = n /\ \A u \in User \ {t} : usp'[u] = usp[u]
  BY <1>1 DEF UserCode, UserModeTypeOK
<1>r. /\ scratch'[t] = t /\ \A u \in Thread \ {t} : scratch'[u] = scratch[u]
      /\ scratch' \in [Thread -> Value] /\ RegsOf(t)' = Fresh(t)
  BY <1>1, FreshType DEF UserCode, UserModeTypeOK, RegsOf, Fresh
<1>3. cpu' = [ring |-> 3, rsp |-> At(UserStack(t), n), pc |-> "code", intr |-> TRUE,
              regs |-> Fresh(t)]
  BY <1>1 DEF UserCode, At
<1>4. UserModeTypeOK'
  <2>1. At(UserStack(t), n) \in Rsp
    BY <1>1, RspTypes
  <2>2. cpu' \in [ring : {0, 3}, rsp : Rsp, pc : {"code", "entry", "handler", "return", "hlt"},
                  intr : BOOLEAN, regs : Regs]
    BY <1>1, <1>3, <2>1, FreshType
  <2> QED
    BY <1>1, <1>r, <2>2 DEF UserCode, UserModeTypeOK
<1>5. InCode(t)'
  BY ZenonT(30), <1>1, <1>2, <1>3, <1>r DEF UserCode, InCode, Context
<1>6. \A u \in alive' \ {sched_thread'} :
        saved'[u] = At(Home(u), 1) /\ mem'[Home(u)][1] = Context(u)'
  BY <1>2, <1>r, OthersIntact DEF UserCode
<1> QED
  BY <1>1, <1>4, <1>5, <1>6, <1>r DEF UserCode, UserModeInv

(* The syscall instruction leaves ring 3 with interrupts off                *)
(* (syscall.c:26-31).                                                       *)
LEMMA SyscallInv ==
  ASSUME UserModeInv, Syscall
  PROVE  UserModeInv'
<1> DEFINE t == sched_thread
<1>1. /\ UserModeTypeOK /\ t \in User /\ t \in Thread /\ t \in alive
      /\ rsp0 = StackTop(t) /\ kernel_stack = rsp0
      /\ cpu = [ring |-> 3, rsp |-> At(UserStack(t), usp[t]), pc |-> "code", intr |-> TRUE,
                regs |-> RegsOf(t)]
  BY RingThree DEF UserModeInv, Syscall
<1>2. cpu' = [ring |-> 0, rsp |-> At(UserStack(t), usp[t]), pc |-> "entry", intr |-> FALSE,
              regs |-> RegsOf(t)]
  BY <1>1 DEF Syscall, InterruptsInSyscall
<1>r. UNCHANGED own /\ RegsOf(t)' = RegsOf(t)
  BY DEF Syscall, own, RegsOf
<1>3. UserModeTypeOK'
  <2>1. At(UserStack(t), usp[t]) \in Rsp
    BY <1>1, RspTypes DEF UserModeTypeOK
  <2>2. cpu' \in [ring : {0, 3}, rsp : Rsp, pc : {"code", "entry", "handler", "return", "hlt"},
                  intr : BOOLEAN, regs : Regs]
    BY <1>1, <1>2, <2>1, ContextType
  <2> QED
    BY <1>1, <1>r, <2>2 DEF Syscall, UserModeTypeOK, own
<1>4. InEntry(t)'
  BY <1>1, <1>2, <1>r DEF Syscall, InEntry, own
<1>5. \A u \in alive' \ {sched_thread'} :
        saved'[u] = At(Home(u), 1) /\ mem'[Home(u)][1] = Context(u)'
  BY <1>r, OthersIntact DEF Syscall, own
<1> QED
  BY <1>1, <1>3, <1>4, <1>5, <1>r DEF Syscall, UserModeInv, own

(* syscall_entry finds its own thread's kernel stack in gs:0 and pushes the *)
(* only frame on it (syscall_entry.asm:7-29).                               *)
LEMMA EntryInv ==
  ASSUME UserModeInv, syscall_entry
  PROVE  UserModeInv'
<1> DEFINE t == sched_thread
           f == [kept |-> t]
<1>1. /\ UserModeTypeOK /\ InEntry(t) /\ t \in User /\ t \in Thread /\ t \in alive
      /\ rsp0 = StackTop(t) /\ kernel_stack = rsp0 /\ Home(t) = StackTop(t)
  <2>1. InEntry(t)
    BY SMT DEF syscall_entry, UserModeInv, InCode, InService, InExit
  <2> QED
    BY <2>1, StacksApart DEF UserModeInv, UserModeTypeOK, InEntry
<1>2. At(UserStack(t), usp[t]) \in Rsp /\ At(StackTop(t), 1) \in Rsp /\ StackTop(t) \in KernelStacks
  BY <1>1, RspTypes, StacksApart DEF UserModeTypeOK
<1>3. /\ cpu' = [ring |-> 0, rsp |-> At(StackTop(t), 1), pc |-> "handler", intr |-> FALSE,
                 regs |-> RegsOf(t)]
      /\ user_rsp' = At(UserStack(t), usp[t])
  BY <1>1 DEF syscall_entry, InEntry
<1>r. UNCHANGED own /\ RegsOf(t)' = RegsOf(t) /\ RegsOf(t).kept = t /\ RegsOf(t).scratch = scratch[t]
  BY DEF syscall_entry, own, RegsOf
<1>4. /\ mem' = [mem EXCEPT ![StackTop(t)][1] = f]
      /\ f \in Frame
  <2>1. cpu.regs.kept = t
    BY <1>1, <1>r DEF InEntry
  <2> QED
    BY <1>1, <2>1, FreshType DEF syscall_entry, Frame
<1>5. /\ mem' \in [KernelStacks -> [1 .. MaxFrames -> Frame \cup {Unset}]]
      /\ mem'[StackTop(t)][1] = f
      /\ \A u \in Thread \ {t} : mem'[Home(u)] = mem[Home(u)]
  BY SMT, <1>1, <1>2, <1>4, StacksApart DEF UserModeTypeOK, MaxFrames
<1>6. UserModeTypeOK'
  <2>1. cpu' \in [ring : {0, 3}, rsp : Rsp, pc : {"code", "entry", "handler", "return", "hlt"},
                  intr : BOOLEAN, regs : Regs]
    BY <1>1, <1>2, <1>3, ContextType
  <2> QED
    BY <1>1, <1>2, <1>3, <1>5, <1>r, <2>1 DEF syscall_entry, UserModeTypeOK, own
<1>7. InService(t)'
  BY <1>1, <1>3, <1>5, <1>r DEF syscall_entry, InService, InEntry, own
<1>8. \A u \in alive' \ {sched_thread'} :
        saved'[u] = At(Home(u), 1) /\ mem'[Home(u)][1] = Context(u)'
  BY <1>5, <1>r, OthersIntact DEF syscall_entry, own
<1> QED
  BY <1>1, <1>6, <1>7, <1>8, <1>r DEF syscall_entry, UserModeInv, own

(* The CPU on its way out of the handler, with whatever the handler has     *)
(* left in the registers (syscall.c:8-24).                                  *)
LEMMA HandlerRegs ==
  ASSUME NEW c, NEW d, NEW sp, NEW q, NEW r,
         c = [ring |-> 0, rsp |-> sp, pc |-> "handler", intr |-> FALSE, regs |-> q]
  PROVE  /\ d = [[c EXCEPT !.regs = r] EXCEPT !.pc = "return"]
             => d = [ring |-> 0, rsp |-> sp, pc |-> "return", intr |-> FALSE, regs |-> r]
         /\ d = [[c EXCEPT !.regs = r] EXCEPT !.pc = "hlt", !.intr = TRUE]
             => d = [ring |-> 0, rsp |-> sp, pc |-> "hlt", intr |-> TRUE, regs |-> r]
OBVIOUS

(* ... is a CPU of the right type. *)
LEMMA RunningType ==
  ASSUME NEW sp \in Rsp, NEW r \in Regs, NEW p \in {"return", "hlt"}, NEW i \in BOOLEAN
  PROVE  [ring |-> 0, rsp |-> sp, pc |-> p, intr |-> i, regs |-> r]
           \in [ring : {0, 3}, rsp : Rsp, pc : {"code", "entry", "handler", "return", "hlt"},
                intr : BOOLEAN, regs : Regs]
BY SMT

(* syscall_handler returns, or ends the thread, which nothing switches to   *)
(* any more (syscall.c:8-24, sched.c:257-265).                              *)
LEMMA HandlerInv ==
  ASSUME UserModeInv, syscall_handler
  PROVE  UserModeInv'
<1> DEFINE t == sched_thread
<1>1. /\ UserModeTypeOK /\ InService(t) /\ t \in User /\ t \in Thread /\ t \in alive
      /\ rsp0 = StackTop(t) /\ kernel_stack = rsp0
  <2>1. InService(t)
    BY SMT DEF syscall_handler, UserModeInv, InCode, InEntry, InExit
  <2> QED
    BY <2>1 DEF UserModeInv, UserModeTypeOK, InService
<1>2. PICK s :
        LET used == [cpu EXCEPT !.regs = [kept |-> LeftBy(t), scratch |-> s]] IN
        /\ s \in {cpu.regs.scratch, LeftBy(t)}
        /\ scratch' = [scratch EXCEPT ![t] = s]
        /\ \/ cpu' = [used EXCEPT !.pc = "return"] /\ UNCHANGED alive
           \/ cpu' = Exited(used) /\ alive' = alive \ {t}
  BY DEF syscall_handler
<1> DEFINE r == [kept |-> LeftBy(t), scratch |-> s]
<1>3. s \in {t, LeftBy(t)} /\ s \in Value /\ r \in Regs /\ r.scratch = s
  BY <1>1, <1>2, FreshType DEF InService, UserModeInv, Regs, Value
<1>4. /\ scratch'[t] = s /\ \A u \in Thread \ {t} : scratch'[u] = scratch[u]
      /\ scratch' \in [Thread -> Value]
  BY <1>1, <1>2, <1>3 DEF UserModeTypeOK
<1>5. PICK q : cpu = [ring |-> 0, rsp |-> At(StackTop(t), 1), pc |-> "handler", intr |-> FALSE,
                      regs |-> q]
  BY <1>1 DEF syscall_handler, InService
<1>6. \/ /\ cpu' = [ring |-> 0, rsp |-> At(StackTop(t), 1), pc |-> "return", intr |-> FALSE,
                    regs |-> r]
         /\ alive' = alive
      \/ /\ cpu' = [ring |-> 0, rsp |-> At(StackTop(t), 1), pc |-> "hlt", intr |-> TRUE,
                    regs |-> r]
         /\ alive' = alive \ {t}
  <2>1. \/ cpu' = [[cpu EXCEPT !.regs = r] EXCEPT !.pc = "return"] /\ alive' = alive
        \/ /\ cpu' = [[cpu EXCEPT !.regs = r] EXCEPT !.pc = "hlt", !.intr = TRUE]
           /\ alive' = alive \ {t}
    BY <1>2 DEF Exited
  <2> QED
    BY <1>5, <2>1, HandlerRegs
<1> HIDE DEF r
<1>7. UserModeTypeOK'
  <2>1. At(StackTop(t), 1) \in Rsp
    BY <1>1, RspTypes, StacksApart
  <2>2. cpu' \in [ring : {0, 3}, rsp : Rsp, pc : {"code", "entry", "handler", "return", "hlt"},
                  intr : BOOLEAN, regs : Regs]
    <3>1. PICK p \in {"return", "hlt"}, i \in BOOLEAN :
            cpu' = [ring |-> 0, rsp |-> At(StackTop(t), 1), pc |-> p, intr |-> i, regs |-> r]
      BY <1>6
    <3>2. r \in Regs
      BY <1>3
    <3> QED
      BY <2>1, <3>1, <3>2, RunningType
  <2>3. alive' \subseteq Thread
    BY <1>1, <1>6 DEF UserModeTypeOK
  <2> QED
    BY <1>1, <1>4, <2>2, <2>3 DEF syscall_handler, UserModeTypeOK
<1>8. InService(t)' \/ InExit(t)'
  <2>1. CASE /\ cpu' = [ring |-> 0, rsp |-> At(StackTop(t), 1), pc |-> "return", intr |-> FALSE,
                        regs |-> r]
             /\ alive' = alive
    BY <1>1, <1>3, <1>4, <2>1 DEF syscall_handler, InService
  <2>2. CASE /\ cpu' = [ring |-> 0, rsp |-> At(StackTop(t), 1), pc |-> "hlt", intr |-> TRUE,
                        regs |-> r]
             /\ alive' = alive \ {t}
    BY <1>1, <2>2 DEF syscall_handler, InExit
  <2> QED
    BY <1>6, <2>1, <2>2
<1>9. \A u \in alive' \ {sched_thread'} :
        saved'[u] = At(Home(u), 1) /\ mem'[Home(u)][1] = Context(u)'
  <2>1. alive' \subseteq alive
    BY <1>6
  <2> QED
    BY <1>4, <2>1, OthersIntact DEF syscall_handler
<1>10. \A u \in Thread : scratch'[u] \in {u, LeftBy(u)}
  BY <1>1, <1>3, <1>4 DEF UserModeInv
<1> QED
  BY <1>1, <1>7, <1>8, <1>9, <1>10 DEF syscall_handler, UserModeInv

(* The return: interrupts have been off since the entry, so gs:8 is still   *)
(* this thread's (syscall_entry.asm:30-54).                                 *)
LEMMA ReturnInv ==
  ASSUME UserModeInv, SyscallReturn
  PROVE  UserModeInv'
<1> DEFINE t == sched_thread
<1>1. /\ UserModeTypeOK /\ InService(t) /\ t \in User /\ t \in Thread /\ t \in alive
      /\ rsp0 = StackTop(t) /\ kernel_stack = rsp0
  <2>1. InService(t)
    <3>1. InCode(t) \/ InEntry(t) \/ InService(t) \/ InExit(t)
      BY DEF UserModeInv
    <3>2. cpu.pc = "return"
      BY DEF SyscallReturn
    <3> QED
      BY SMT, <3>1, <3>2 DEF InCode, InEntry, InExit
  <2> QED
    BY <2>1 DEF UserModeInv, UserModeTypeOK, InService
<1>2. /\ mem[cpu.rsp.stack][cpu.rsp.at].kept = t /\ cpu.regs.scratch = scratch[t]
      /\ user_rsp = At(UserStack(t), usp[t])
  BY SMT, <1>1 DEF InService, At
<1>3. cpu' = [ring |-> 3, rsp |-> At(UserStack(t), usp[t]), pc |-> "code", intr |-> TRUE,
              regs |-> RegsOf(t)]
  BY <1>2 DEF SyscallReturn, RegsOf
<1>r. UNCHANGED own /\ RegsOf(t)' = RegsOf(t)
  BY DEF SyscallReturn, own, RegsOf
<1>4. UserModeTypeOK'
  <2>1. At(UserStack(t), usp[t]) \in Rsp
    BY <1>1, RspTypes DEF UserModeTypeOK
  <2>2. cpu' \in [ring : {0, 3}, rsp : Rsp, pc : {"code", "entry", "handler", "return", "hlt"},
                  intr : BOOLEAN, regs : Regs]
    BY <1>1, <1>3, <2>1, ContextType
  <2> QED
    BY <1>1, <1>r, <2>2 DEF SyscallReturn, UserModeTypeOK, own
<1>5. InCode(t)'
  BY <1>1, <1>3, <1>r DEF SyscallReturn, InCode, Context, own
<1>6. \A u \in alive' \ {sched_thread'} :
        saved'[u] = At(Home(u), 1) /\ mem'[Home(u)][1] = Context(u)'
  BY <1>r, OthersIntact DEF SyscallReturn, own
<1> QED
  BY <1>1, <1>4, <1>5, <1>6, <1>r DEF SyscallReturn, UserModeInv, own

-----------------------------------------------------------------------------
(* An interrupt pushes its frame on the current thread's own kernel stack:  *)
(* the first from its code, the second only once it has ended.              *)
LEMMA PushedWhere ==
  ASSUME UserModeInv, cpu.intr
  PROVE  LET t == sched_thread IN
         /\ t \in Thread
         /\ \/ InCode(t) /\ Pushed = At(Home(t), 1) /\ Interrupted = Context(t)
            \/ InExit(t) /\ Pushed = At(Home(t), 2)
         /\ Interrupted \in Frame
         /\ Pushed.stack = Home(t) /\ Pushed.at \in 1 .. MaxFrames
<1> DEFINE t == sched_thread
<1>1. UserModeTypeOK /\ t \in Thread
  BY DEF UserModeInv, UserModeTypeOK
<1>2. InCode(t) \/ InExit(t)
  BY SMT DEF UserModeInv, InEntry, InService
<1>3. CASE InCode(t)
  <2>1. Interrupted = Context(t)
    BY <1>3 DEF InCode, Interrupted, Context
  <2>2. Pushed = At(Home(t), 1)
    <3>1. CASE t \in User
      BY <1>3, <3>1, StacksApart DEF InCode, Context, Pushed, UserModeInv
    <3>2. CASE t \notin User
      <4>1. cpu.ring = 0 /\ cpu.rsp = At(Home(t), 0)
        BY <1>3, <3>2 DEF InCode, Context
      <4>2. cpu.rsp.stack = Home(t) /\ cpu.rsp.at = 0
        BY SMT, <4>1, AtFields
      <4>3. Pushed = At(Home(t), 0 + 1)
        BY SMT, <4>1, <4>2 DEF Pushed
      <4> QED
        BY SMT, <4>3
    <3> QED
      BY <3>1, <3>2
  <2> QED
    BY SMT, <1>1, <1>3, <2>1, <2>2, ContextType DEF At, MaxFrames
<1>4. CASE InExit(t)
  <2>1. t \in User /\ Home(t) = StackTop(t)
    BY <1>4, StacksApart DEF InExit
  <2>2. Pushed = At(Home(t), 2)
    BY SMT, <1>4, <2>1 DEF InExit, Pushed, At
  <2>3. Interrupted \in Frame
    <3>1. At(Home(t), 1) \in Rsp /\ cpu.regs \in Regs
      BY <1>1, RspTypes DEF UserModeTypeOK
    <3> QED
      BY <1>1, <1>4, <2>1, <3>1 DEF InExit, Interrupted, Frame
  <2> QED
    BY SMT, <1>1, <1>4, <2>2, <2>3 DEF At, MaxFrames
<1> QED
  BY <1>2, <1>3, <1>4

(* A push changes the current thread's stack and no other. *)
LEMMA PushOnly ==
  ASSUME UserModeInv, cpu.intr, Push(Pushed)
  PROVE  /\ mem' \in [KernelStacks -> [1 .. MaxFrames -> Frame \cup {Unset}]]
         /\ mem'[Home(sched_thread)][Pushed.at] = Interrupted
         /\ \A u \in Thread \ {sched_thread} : mem'[Home(u)] = mem[Home(u)]
<1>1. UserModeTypeOK /\ sched_thread \in Thread /\ Home(sched_thread) \in KernelStacks
  BY StacksApart DEF UserModeInv, UserModeTypeOK
<1>2. /\ Interrupted \in Frame /\ Pushed.stack = Home(sched_thread)
      /\ Pushed.at \in 1 .. MaxFrames
  BY PushedWhere
<1>3. mem' = [mem EXCEPT ![Home(sched_thread)][Pushed.at] = Interrupted]
  BY <1>2 DEF Push
<1> QED
  BY <1>1, <1>2, <1>3, StacksApart DEF UserModeTypeOK

(* An exception of user code ends the thread on its kernel stack            *)
(* (idt.c:93-102).                                                          *)
LEMMA ExceptionInv ==
  ASSUME UserModeInv, UserException
  PROVE  UserModeInv'
<1> DEFINE t == sched_thread
<1>1. /\ UserModeTypeOK /\ t \in User /\ t \in Thread /\ t \in alive
      /\ rsp0 = StackTop(t) /\ kernel_stack = rsp0 /\ InCode(t)
      /\ cpu = [ring |-> 3, rsp |-> At(UserStack(t), usp[t]), pc |-> "code", intr |-> TRUE,
                regs |-> RegsOf(t)]
  BY RingThree DEF UserModeInv, UserException
<1>r. UNCHANGED own
  BY DEF UserException, own
<1>2. Pushed = At(StackTop(t), 1)
  BY <1>1 DEF Pushed
<1>3. cpu' = [ring |-> 0, rsp |-> At(StackTop(t), 1), pc |-> "hlt", intr |-> TRUE,
              regs |-> RegsOf(t)]
  BY <1>1, <1>2 DEF UserException, Exited
<1>4. /\ mem' \in [KernelStacks -> [1 .. MaxFrames -> Frame \cup {Unset}]]
      /\ \A u \in Thread \ {t} : mem'[Home(u)] = mem[Home(u)]
  BY <1>1, PushOnly DEF UserException
<1>5. UserModeTypeOK'
  <2>1. At(StackTop(t), 1) \in Rsp
    BY <1>1, RspTypes, StacksApart
  <2>2. cpu' \in [ring : {0, 3}, rsp : Rsp, pc : {"code", "entry", "handler", "return", "hlt"},
                  intr : BOOLEAN, regs : Regs]
    BY <1>1, <1>3, <2>1, ContextType
  <2> QED
    BY <1>1, <1>4, <1>r, <2>2 DEF UserException, UserModeTypeOK, own
<1>6. InExit(t)'
  <2>1. cpu'.regs = RegsOf(t)
    BY <1>3
  <2> QED
    BY <1>1, <1>3, <2>1 DEF UserException, InExit
<1>7. \A u \in alive' \ {sched_thread'} :
        saved'[u] = At(Home(u), 1) /\ mem'[Home(u)][1] = Context(u)'
  <2>1. alive' \subseteq alive
    BY DEF UserException
  <2> QED
    BY <1>4, <1>r, <2>1, OthersIntact DEF UserException, own
<1> QED
  BY <1>1, <1>5, <1>6, <1>7, <1>r DEF UserException, UserModeInv, own

(* The stub and the switch: what the chosen thread pops is its context, the *)
(* frame just pushed if it is the current one (interrupt.asm:20-67,         *)
(* sched.c:239-247).                                                        *)
LEMMA IsrInv ==
  ASSUME UserModeInv, NEW n \in Thread, isr_common_stub(n)
  PROVE  UserModeInv'
<1> DEFINE t == sched_thread
<1>1. UserModeTypeOK /\ t \in Thread /\ n \in alive /\ cpu.intr
  BY DEF isr_common_stub, UserModeInv, UserModeTypeOK
<1>2. /\ mem' \in [KernelStacks -> [1 .. MaxFrames -> Frame \cup {Unset}]]
      /\ mem'[Home(t)][Pushed.at] = Interrupted
      /\ \A u \in Thread \ {t} : mem'[Home(u)] = mem[Home(u)]
  BY <1>1, PushOnly DEF isr_common_stub
<1>3. Pushed \in [stack : KernelStacks, at : 1 .. MaxFrames]
  BY <1>1, PushedWhere, StacksApart DEF At, MaxFrames
<1>4. /\ saved'[t] = Pushed
      /\ \A u \in Thread \ {t} : saved'[u] = saved[u]
      /\ saved' \in [Thread -> [stack : KernelStacks, at : 1 .. MaxFrames] \cup {Unset}]
  BY <1>1, <1>3 DEF isr_common_stub, UserModeTypeOK
<1>r. UNCHANGED own
  BY DEF isr_common_stub, own
<1>5. \A u \in Thread : Context(u)' = Context(u) /\ RegsOf(u)' = RegsOf(u)
  BY <1>r DEF Context, RegsOf, own
<1>6. \A u \in alive : saved'[u] = At(Home(u), 1) /\ mem'[Home(u)][1] = Context(u)
  <2> TAKE u \in alive
  <2>1. CASE u = t
    <3>1. Pushed = At(Home(t), 1) /\ Interrupted = Context(t)
      BY <1>1, <2>1, PushedWhere DEF InExit
    <3> QED
      BY SMT, <1>2, <1>4, <2>1, <3>1 DEF At
  <2>2. CASE u # t
    BY <1>1, <1>2, <1>4, <2>2 DEF UserModeInv, UserModeTypeOK
  <2> QED
    BY <2>1, <2>2
<1>7. cpu' = [ring |-> Context(n).ring, rsp |-> Context(n).rsp, pc |-> "code", intr |-> TRUE,
              regs |-> RegsOf(n)]
  <2>0. saved'[n] = At(Home(n), 1) /\ mem'[Home(n)][1] = Context(n)
    BY <1>1, <1>6
  <2>1. mem'[saved'[n].stack][saved'[n].at] = Context(n)
    BY SMT, <2>0 DEF At
  <2> QED
    BY <1>1, <2>1, ContextType DEF isr_common_stub, Popped
<1>8. sched_thread' = n /\ alive' = alive
  BY DEF isr_common_stub
<1>9. /\ n \in User => rsp0' = StackTop(n) /\ kernel_stack' = rsp0'
      /\ rsp0' \in KernelStacks \cup {Unset} /\ kernel_stack' \in KernelStacks \cup {Unset}
  <2>1. CASE n = t
    BY <1>1, <2>1 DEF isr_common_stub, UserModeInv, UserModeTypeOK
  <2>2. CASE n # t
    BY <2>2, StacksApart DEF isr_common_stub, StackFrom
  <2> QED
    BY <2>1, <2>2
<1>10. UserModeTypeOK'
  <2>1. cpu' \in [ring : {0, 3}, rsp : Rsp, pc : {"code", "entry", "handler", "return", "hlt"},
                  intr : BOOLEAN, regs : Regs]
    BY <1>1, <1>7, ContextType
  <2> QED
    BY <1>1, <1>2, <1>4, <1>8, <1>9, <1>r, <2>1 DEF isr_common_stub, UserModeTypeOK, own
<1>11. InCode(n)'
  BY <1>1, <1>5, <1>7, <1>8 DEF InCode
<1>12. \A u \in alive' \ {sched_thread'} :
         saved'[u] = At(Home(u), 1) /\ mem'[Home(u)][1] = Context(u)'
  BY <1>1, <1>5, <1>6, <1>8 DEF UserModeTypeOK
<1> QED
  BY <1>8, <1>9, <1>10, <1>11, <1>12, <1>r DEF UserModeInv, own

-----------------------------------------------------------------------------
(* The invariant holds for ever: whatever the order of system calls,        *)
(* interrupts, exceptions, exits and spawns, the current thread's kernel    *)
(* stack is in the TSS and in gs:0, and each waiting thread has one frame   *)
(* (syscall_entry.asm:5-54, interrupt.asm:20-67, sched.c:239-247).          *)
THEOREM UserModeInductive == UserSpec => []UserModeInv
<1>1. UserModeInv /\ [UserNext]_user_vars => UserModeInv'
  <2> SUFFICES ASSUME UserModeInv, [UserNext]_user_vars PROVE UserModeInv'
    OBVIOUS
  <2>1. CASE \E t \in User : sched_spawn_user(t)
    BY <2>1, SpawnInv
  <2>2. CASE \E n \in 0 .. MaxUse : UserCode(n)
    BY <2>2, UserCodeInv
  <2>3. CASE Syscall
    BY <2>3, SyscallInv
  <2>4. CASE syscall_entry
    BY <2>4, EntryInv
  <2>5. CASE syscall_handler
    BY <2>5, HandlerInv
  <2>6. CASE SyscallReturn
    BY <2>6, ReturnInv
  <2>7. CASE UserException
    BY <2>7, ExceptionInv
  <2>8. CASE \E n \in Thread : isr_common_stub(n)
    BY <2>8, IsrInv
  <2>9. CASE UNCHANGED user_vars
    BY ZenonT(30), <2>9 DEF user_vars, own, UserModeInv, UserModeTypeOK, InCode, InEntry, InService, InExit,
                               Context, RegsOf
  <2> QED
    BY <2>1, <2>2, <2>3, <2>4, <2>5, <2>6, <2>7, <2>8, <2>9 DEF UserNext
<1> QED
  BY <1>1, InitInv, PTL DEF UserSpec

(* No kernel stack ever holds more than two frames (interrupt.asm:20-67,    *)
(* syscall_entry.asm:5-54).                                                 *)
THEOREM StacksBounded == UserSpec => []UserModeTypeOK
<1>1. UserModeInv => UserModeTypeOK
  BY DEF UserModeInv
<1> QED
  BY <1>1, UserModeInductive, PTL

(* Code goes on with what it had in its registers and with its own stack    *)
(* pointer; in r8, r9 and r10, which syscall_entry does not save, it finds  *)
(* its own values or those its own last system call left there              *)
(* (interrupt.asm:20-67, syscall_entry.asm:7, 10-22, 31-47).                *)
THEOREM UserCodeResumes == UserSpec => []ResumesWhereItLeft
<1>1. UserModeInv => ResumesWhereItLeft
  <2> SUFFICES ASSUME UserModeInv PROVE ResumesWhereItLeft
    OBVIOUS
  <2>1. cpu.pc = "code" => cpu.regs = RegsOf(sched_thread)
    BY SMT DEF UserModeInv, InCode, InEntry, InService, InExit
  <2>2. cpu.ring = 3 => cpu.rsp.at = usp[sched_thread]
    BY SMT, RingThree DEF At
  <2>3. scratch[sched_thread] \in {sched_thread, LeftBy(sched_thread)}
    BY DEF UserModeInv, UserModeTypeOK
  <2> QED
    BY <2>1, <2>2, <2>3 DEF ResumesWhereItLeft
<1> QED
  BY <1>1, UserModeInductive, PTL

(* The kernel works for a thread on that thread's own stack, and what a     *)
(* waiting thread has left there stays as it was (interrupt.asm:20-67).     *)
THEOREM StacksNeverMix == UserSpec => []ContextsIntact
<1>1. UserModeInv => ContextsIntact
  <2> SUFFICES ASSUME UserModeInv PROVE ContextsIntact
    OBVIOUS
  <2> DEFINE t == sched_thread
  <2>1. OnOwnStack
    <3>1. CASE InCode(t)
      BY SMT, <3>1 DEF OnOwnStack, InCode, Context, At
    <3>2. CASE InEntry(t)
      BY <3>2 DEF OnOwnStack, InEntry, At
    <3>3. CASE InService(t)
      <4>1. cpu.ring = 0 /\ cpu.pc # "entry" /\ cpu.rsp.stack = StackTop(t) /\ t \in User
        BY SMT, <3>3 DEF InService, At
      <4>2. Home(t) = StackTop(t) /\ ~ (cpu.ring = 3 \/ cpu.pc = "entry")
        BY SMT, <4>1, StacksApart
      <4> QED
        BY <4>1, <4>2 DEF OnOwnStack
    <3>4. CASE InExit(t)
      <4>1. cpu.ring = 0 /\ cpu.pc # "entry" /\ cpu.rsp.stack = StackTop(t) /\ t \in User
        BY <3>4 DEF InExit, At
      <4>2. Home(t) = StackTop(t) /\ ~ (cpu.ring = 3 \/ cpu.pc = "entry")
        BY SMT, <4>1, StacksApart
      <4> QED
        BY <4>1, <4>2 DEF OnOwnStack
    <3> QED
      BY <3>1, <3>2, <3>3, <3>4 DEF UserModeInv
  <2>2. ASSUME NEW u \in alive \ {sched_thread}
        PROVE  LET f == mem[saved[u].stack][saved[u].at] IN
               /\ saved[u].stack = Home(u)
               /\ f # Unset /\ f.regs = RegsOf(u)
               /\ f.ring = 3 => u \in User /\ f.rsp = At(UserStack(u), usp[u])
               /\ f.ring = 0 => f.rsp.stack = Home(u) /\ f.rsp.at < saved[u].at
    <3>1. saved[u] = At(Home(u), 1) /\ mem[Home(u)][1] = Context(u) /\ u \in Thread
      BY DEF UserModeInv, UserModeTypeOK
    <3>2. saved[u].stack = Home(u) /\ saved[u].at = 1
      BY SMT, <3>1, AtFields
    <3>4. mem[saved[u].stack][saved[u].at] = Context(u)
      BY <3>1, <3>2
    <3>3. Context(u) # Unset
      BY <3>1, ContextType, UnsetAssumption DEF UserModeInv
    <3>5. /\ Context(u).regs = RegsOf(u)
          /\ Context(u).ring = 3 => u \in User /\ Context(u).rsp = At(UserStack(u), usp[u])
          /\ Context(u).ring = 0 => Context(u).rsp = At(Home(u), 0)
      BY SMT DEF Context
    <3>6. At(Home(u), 0).stack = Home(u) /\ At(Home(u), 0).at = 0
      BY AtFields
    <3> QED
      BY SMT, <3>2, <3>3, <3>4, <3>5, <3>6
  <2> QED
    BY <2>1, <2>2 DEF ContextsIntact
<1> QED
  BY <1>1, UserModeInductive, PTL
=============================================================================
