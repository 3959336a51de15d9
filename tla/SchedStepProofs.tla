-------------------------- MODULE SchedStepProofs ---------------------------
(***************************************************************************)
(* The initial state satisfies the inductive invariant of SchedCore; every *)
(* call of the scheduler, the load of the new stack at the end of an       *)
(* interrupt, and an interrupt that stays with its thread preserve it.     *)
(***************************************************************************)
EXTENDS SchedCore, TLAPS

(* The provers, in the order in which they are tried. *)
USE ZenonT(5), SMT


-----------------------------------------------------------------------------
(* What a push on a run queue does to membership (sched.c:94-97, 410-415). *)
LEMMA InsertEffect ==
  ASSUME TypeOK, NEW c \in Cpu, NEW p \in Priority, NEW t \in Thread, Insert(c, p, t)
  PROVE  /\ ready_queues' \in [Cpu -> [Priority -> SUBSET Thread]]
         /\ \A d \in Cpu, r \in Priority, u \in Thread :
              u \in ready_queues'[d][r] <=>
                u \in ready_queues[d][r] \/ (d = c /\ r = p /\ u = t)
BY ZenonT(40) DEF TypeOK, Insert

(* Queued after such a push. *)
LEMMA InsertQueued ==
  ASSUME TypeOK, NEW c \in Cpu, NEW p \in Priority, NEW t \in Thread, Insert(c, p, t)
  PROVE  \A d \in Cpu, u \in Thread :
           Queued(d, u)' <=> Queued(d, u) \/ (d = c /\ u = t)
BY SMT, InsertEffect DEF Queued

-----------------------------------------------------------------------------
(* sched_init on every CPU establishes the invariant. *)
LEMMA InitIInv == Init => IInv
<1> SUFFICES ASSUME Init PROVE IInv
  OBVIOUS
<1> USE CoreAssumption DEF Init, Cpu, Priority, Idle
<1>1. TypeOK
  BY SMT DEF TypeOK, States, Points
<1>2. QueueMatches /\ StateTellsPlace
  BY DEF QueueMatches, StateTellsPlace
<1>3. Exclusive
  BY DEF Exclusive, Queued
<1>4. Somewhere /\ IdleAtHome
  BY DEF Somewhere, IdleAtHome
<1>5. LeakOnlyAtZero /\ StackAgrees /\ StackExclusive
  BY DEF LeakOnlyAtZero, StackAgrees, StackExclusive
<1> QED
  BY <1>1, <1>2, <1>3, <1>4, <1>5 DEF IInv

(* Where the elements of the state functions live. *)
Elem ==
  /\ \A c \in Cpu : sched_thread[c] \in Thread /\ stack[c] \in Thread
  /\ \A c \in Cpu : inflight[c] # None => inflight[c] \in Thread
  /\ \A c \in Cpu : IdleOf[c] \in Thread
  /\ \A c \in Cpu : \A t \in sleep_queue[c] : t \in Thread
  /\ \A c \in Cpu, p \in Priority : \A t \in ready_queues[c][p] : t \in Thread

(* The type invariant, read elementwise. *)
LEMMA Elements == TypeOK => Elem
BY SMTT(40), CoreAssumption DEF TypeOK, Elem

(* The first half of a spawn (sched.c:76-92). *)
LEMMA SpawnTidIInv ==
  ASSUME IInv, NEW c \in Cpu, NEW t \in Thread, NEW p \in 0 .. MaxPriority + 1,
         NEW d \in Cpu, SpawnTid(c, t, p, d)
  PROVE  IInv'
<1>t. TypeOK
  BY DEF IInv
<1>e. Elem
  BY <1>t, Elements
<1>st. state[t] = "NEW" /\ \A u \in Thread : state'[u] = IF u = t THEN "READY" ELSE state[u]
  BY <1>t DEF SpawnTid, TypeOK
<1>pr. \A u \in Thread : u # t => priority'[u] = priority[u]
  BY <1>t DEF SpawnTid, TypeOK
<1>in. inflight[c] = None /\ \A e \in Cpu : inflight'[e] = IF e = c THEN t ELSE inflight[e]
  BY ZenonT(40), <1>t DEF SpawnTid, TypeOK, StateTellsPlace, Executing, IInv
<1>pc. pc[c] = "run" /\ \A e \in Cpu : pc'[e] = IF e = c THEN "push" ELSE pc[e]
  BY <1>t DEF SpawnTid, TypeOK, Executing, Goto
<1>un. UNCHANGED <<sched_thread, ready_queues, sleep_queue, stack>>
  BY DEF SpawnTid
<1>1. TypeOK'
  <2>1. Clamp(p) \in Priority
    BY SMT, CoreAssumption DEF Clamp, Priority
  <2> QED
    BY SMTT(40), <1>t, <2>1 DEF TypeOK, SpawnTid, Goto, States, Points
<1>2. QueueMatches'
  BY SMT, <1>e, <1>st, <1>pr, <1>un DEF QueueMatches, IInv, Elem
<1>3. StateTellsPlace'
  BY SMT, CoreAssumption, <1>e, <1>st, <1>in, <1>pc, <1>un DEF StateTellsPlace, IInv, Elem
<1>4. Exclusive'
  BY SMT, <1>e, <1>st, <1>in, <1>un DEF Exclusive, StateTellsPlace, QueueMatches, Queued, IInv, Elem
<1>5. Somewhere'
  BY SMT, CoreAssumption, <1>e, <1>st, <1>in, <1>un DEF Somewhere, Queued, IInv, Elem
<1>6. IdleAtHome'
  BY <1>un DEF IdleAtHome, Queued, IInv
<1>7. LeakOnlyAtZero'
  BY <1>st, <1>pr, <1>un DEF LeakOnlyAtZero, IInv
<1>8. StackAgrees'
  BY SMT, <1>e, <1>st, <1>pc, <1>un DEF StackAgrees, StateTellsPlace, Queued, IInv, Elem
<1>9. StackExclusive'
  BY <1>un DEF StackExclusive, IInv
<1> QED
  BY <1>1, <1>2, <1>3, <1>4, <1>5, <1>6, <1>7, <1>8, <1>9 DEF IInv

(* The push of a spawn (sched.c:94-97). *)
LEMMA SpawnPushIInv ==
  ASSUME IInv, NEW c \in Cpu, SpawnPush(c)
  PROVE  IInv'
<1> DEFINE t == inflight[c]
           d == core_affinity[t]
           p == priority[t]
<1>t. TypeOK
  BY DEF IInv
<1>e. Elem
  BY <1>t, Elements
<1>g. pc[c] = "push" /\ t # None /\ t \in Thread /\ state[t] = "READY" /\ d \in Cpu /\ p \in Priority
  BY <1>t, <1>e DEF SpawnPush, StateTellsPlace, IInv, TypeOK, Elem
<1>in. \A e \in Cpu : inflight'[e] = IF e = c THEN None ELSE inflight[e]
  BY <1>t DEF SpawnPush, TypeOK
<1>pc. \A e \in Cpu : pc'[e] = IF e = c THEN "run" ELSE pc[e]
  BY <1>t DEF SpawnPush, TypeOK, Goto
<1>un. UNCHANGED <<state, priority, core_affinity, sched_thread, sleep_queue, stack>>
  BY DEF SpawnPush
<1>rq. /\ ready_queues' \in [Cpu -> [Priority -> SUBSET Thread]]
       /\ \A e \in Cpu, r \in Priority, u \in Thread :
            u \in ready_queues'[e][r] <=>
              u \in ready_queues[e][r] \/ (e = d /\ r = p /\ u = t)
  <2> HIDE DEF t, d, p
  <2>1. Insert(d, p, t)
    BY DEF SpawnPush, t, d, p
  <2> QED
    BY <1>t, <1>g, <2>1, InsertEffect
<1>q. \A e \in Cpu, u \in Thread :
        (\E r \in Priority : u \in ready_queues'[e][r]) <=> Queued(e, u) \/ (e = d /\ u = t)
  BY <1>g, <1>rq DEF Queued
<1>el. \A e \in Cpu, r \in Priority : \A u \in ready_queues'[e][r] : u \in Thread
  BY SMT, <1>rq
<1> HIDE DEF t, d, p
<1>1. TypeOK'
  BY ZenonT(40), <1>t, <1>rq DEF TypeOK, SpawnPush, Goto, Points
<1>2. QueueMatches'
  BY SMT, <1>e, <1>g, <1>rq, <1>el, <1>un DEF QueueMatches, IInv, Elem, p
<1>3. StateTellsPlace'
  BY SMT, <1>e, <1>g, <1>in, <1>pc, <1>un DEF StateTellsPlace, IInv, Elem
<1>4. Exclusive'
  BY SMTT(40), <1>e, <1>g, <1>in, <1>q, <1>un DEF Exclusive, IInv, Elem, Queued, t
<1>5. Somewhere'
  BY SMT, <1>g, <1>in, <1>q, <1>un DEF Somewhere, IInv, Queued, t
<1>6. IdleAtHome'
  BY <1>e, <1>q, <1>un DEF IdleAtHome, IInv, Elem, Queued
<1>7. LeakOnlyAtZero'
  BY <1>un DEF LeakOnlyAtZero, IInv
<1>8. StackAgrees'
  BY SMT, <1>e, <1>g, <1>q, <1>pc, <1>un DEF StackAgrees, IInv, Elem, Queued
<1>9. StackExclusive'
  BY <1>un DEF StackExclusive, IInv
<1> QED
  BY <1>1, <1>2, <1>3, <1>4, <1>5, <1>6, <1>7, <1>8, <1>9 DEF IInv

(* sched_sleep and sched_exit mark the current thread (sched.c:257-265,     *)
(* 271-278).                                                                *)
LEMMA MarkIInv ==
  ASSUME IInv, NEW c \in Cpu, NEW s \in {"SLEEPING", "DEAD"}, Mark(c, s)
  PROVE  IInv'
<1> DEFINE t == sched_thread[c]
<1>t. TypeOK
  BY DEF IInv
<1>e. Elem
  BY <1>t, Elements
<1>g. pc[c] = "run" /\ state[t] = "RUNNING" /\ t \in Thread /\ t \notin Idle
  BY <1>e DEF Mark, Executing, Elem
<1>st. \A u \in Thread : state'[u] = IF u = t THEN s ELSE state[u]
  BY <1>t DEF Mark, TypeOK
<1>un. UNCHANGED <<priority, core_affinity, sched_thread, ready_queues,
                   sleep_queue, inflight, stack, pc>>
  BY DEF Mark
<1>1. TypeOK'
  BY <1>t DEF TypeOK, Mark, States
<1>2. QueueMatches'
  BY SMT, <1>e, <1>g, <1>st, <1>un DEF QueueMatches, IInv, Elem
<1>3. StateTellsPlace'
  BY SMT, <1>e, <1>g, <1>st, <1>un DEF StateTellsPlace, IInv, Elem, Idle
<1>4. Exclusive'
  BY <1>un DEF Exclusive, IInv, Queued
<1>5. Somewhere'
  BY <1>e, <1>g, <1>st, <1>un DEF Somewhere, IInv, Elem, Queued
<1>6. IdleAtHome'
  BY <1>un DEF IdleAtHome, IInv, Queued
<1>7. LeakOnlyAtZero'
  BY <1>e, <1>g, <1>st, <1>un DEF LeakOnlyAtZero, IInv, Elem
<1>8. StackAgrees'
  <2> SUFFICES ASSUME NEW e \in Cpu, pc[e] = "switch"
               PROVE  /\ state'[sched_thread[e]] = "RUNNING"
                      /\ stack[e] \notin Servers =>
                           \/ Queued(e, stack[e])
                           \/ stack[e] \in sleep_queue[e]
                           \/ /\ state'[stack[e]] \in {"DEAD", "FREED"}
                              /\ \A d \in Cpu : sched_thread[d] # stack[e]
    BY SMT, <1>un DEF StackAgrees, IInv, Queued
  <2>1. sched_thread[e] # t
    BY <1>g DEF Exclusive, IInv
  <2> QED
    BY <2>1, <1>e, <1>g, <1>st DEF StackAgrees, IInv, Elem
<1>9. StackExclusive'
  BY <1>un DEF StackExclusive, IInv
<1> QED
  BY <1>1, <1>2, <1>3, <1>4, <1>5, <1>6, <1>7, <1>8, <1>9 DEF IInv

(* The scan of sched_handoff unlinks the server it looked for               *)
(* (sched.c:387-407).                                                       *)
LEMMA HandoffTakeIInv ==
  ASSUME IInv, NEW c \in Cpu, NEW d \in Cpu, NEW p \in Priority, NEW t \in Thread,
         HandoffTake(c, d, p, t)
  PROVE  IInv'
<1>t. TypeOK
  BY DEF IInv
<1>e. Elem
  BY <1>t, Elements
<1>g. /\ t \in Servers /\ t \in ready_queues[d][p] /\ t \notin Idle
      /\ state[t] = "READY" /\ priority[t] = p
      /\ pc[c] = "run" /\ state[sched_thread[c]] = "RUNNING" /\ inflight[c] = None
  BY SMT, CoreAssumption DEF HandoffTake, Executing, QueueMatches, StateTellsPlace, IInv
<1>in. \A e \in Cpu : inflight'[e] = IF e = c THEN t ELSE inflight[e]
  BY <1>t DEF HandoffTake, TypeOK
<1>pc. \A e \in Cpu : pc'[e] = IF e = c THEN "insert" ELSE pc[e]
  BY <1>t DEF HandoffTake, TypeOK, Goto
<1>un. UNCHANGED <<state, priority, core_affinity, sched_thread, sleep_queue, stack>>
  BY DEF HandoffTake
<1>rq. /\ ready_queues' \in [Cpu -> [Priority -> SUBSET Thread]]
       /\ \A e \in Cpu, r \in Priority, u \in Thread :
            u \in ready_queues'[e][r] <=>
              u \in ready_queues[e][r] /\ ~ (e = d /\ r = p /\ u = t)
  BY ZenonT(40), <1>t DEF HandoffTake, TypeOK
<1>q. \A e \in Cpu, u \in Thread :
        (\E r \in Priority : u \in ready_queues'[e][r]) <=> Queued(e, u) /\ u # t
  <2>1. \A e \in Cpu, r \in Priority : t \in ready_queues[e][r] => e = d /\ r = p
    BY SMT, <1>g DEF Exclusive, QueueMatches, IInv, Queued
  <2> QED
    BY SMT, <1>g, <1>rq, <2>1 DEF Queued
<1>el. \A e \in Cpu, r \in Priority : \A u \in ready_queues'[e][r] : u \in Thread
  BY <1>rq
<1>1. TypeOK'
  BY ZenonT(40), <1>t, <1>rq DEF TypeOK, HandoffTake, Goto, Points
<1>2. QueueMatches'
  BY SMT, <1>rq, <1>el, <1>un DEF QueueMatches, IInv
<1>3. StateTellsPlace'
  BY SMT, CoreAssumption, <1>e, <1>g, <1>in, <1>pc, <1>un DEF StateTellsPlace, IInv, Elem
<1>4. Exclusive'
  BY SMTT(40), <1>e, <1>g, <1>in, <1>q, <1>un DEF Exclusive, IInv, Elem, Queued
<1>5. Somewhere'
  BY SMTT(40), CoreAssumption, <1>g, <1>in, <1>q, <1>un DEF Somewhere, IInv, Queued
<1>6. IdleAtHome'
  BY <1>e, <1>g, <1>q, <1>un DEF IdleAtHome, IInv, Elem, Queued, Idle
<1>7. LeakOnlyAtZero'
  BY <1>un DEF LeakOnlyAtZero, IInv
<1>8. StackAgrees'
  BY SMT, <1>e, <1>g, <1>q, <1>pc, <1>un DEF StackAgrees, IInv, Elem, Queued
<1>9. StackExclusive'
  BY <1>un DEF StackExclusive, IInv
<1> QED
  BY <1>1, <1>2, <1>3, <1>4, <1>5, <1>6, <1>7, <1>8, <1>9 DEF IInv

(* The second half of sched_handoff (sched.c:409-416). *)
LEMMA HandoffInsertIInv ==
  ASSUME IInv, NEW c \in Cpu, HandoffInsert(c)
  PROVE  IInv'
<1> DEFINE t == inflight[c]
<1>t. TypeOK
  BY DEF IInv
<1>e. Elem
  BY <1>t, Elements
<1>m. MaxPriority \in Priority
  BY SMT, CoreAssumption DEF Priority
<1>g. pc[c] = "insert" /\ t # None /\ t \in Thread /\ state[t] = "READY"
  BY <1>t, <1>e DEF HandoffInsert, StateTellsPlace, IInv, Elem
<1>pr. \A u \in Thread : priority'[u] = IF u = t THEN MaxPriority ELSE priority[u]
  BY <1>t DEF HandoffInsert, TypeOK
<1>in. \A e \in Cpu : inflight'[e] = IF e = c THEN None ELSE inflight[e]
  BY <1>t DEF HandoffInsert, TypeOK
<1>pc. \A e \in Cpu : pc'[e] = IF e = c THEN "yield" ELSE pc[e]
  BY <1>t DEF HandoffInsert, TypeOK, Goto
<1>un. UNCHANGED <<state, sched_thread, sleep_queue, stack>>
  BY DEF HandoffInsert
<1>rq. /\ ready_queues' \in [Cpu -> [Priority -> SUBSET Thread]]
       /\ \A e \in Cpu, r \in Priority, u \in Thread :
            u \in ready_queues'[e][r] <=>
              u \in ready_queues[e][r] \/ (e = c /\ r = MaxPriority /\ u = t)
  <2> HIDE DEF t
  <2>1. Insert(c, MaxPriority, t)
    BY DEF HandoffInsert, t
  <2> QED
    BY <1>t, <1>g, <1>m, <2>1, InsertEffect
<1>q. \A e \in Cpu, u \in Thread :
        (\E r \in Priority : u \in ready_queues'[e][r]) <=> Queued(e, u) \/ (e = c /\ u = t)
  BY <1>g, <1>m, <1>rq DEF Queued
<1>nq. \A e \in Cpu : ~ Queued(e, t)
  BY <1>g DEF Exclusive, IInv
<1>el. \A e \in Cpu, r \in Priority : \A u \in ready_queues'[e][r] : u \in Thread
  BY SMT, <1>rq
<1> HIDE DEF t
<1>1. TypeOK'
  BY ZenonT(40), <1>t, <1>g, <1>m, <1>rq DEF TypeOK, HandoffInsert, Goto, Points, t
<1>2. QueueMatches'
  BY SMT, <1>g, <1>nq, <1>pr, <1>rq, <1>el, <1>un DEF QueueMatches, IInv, Queued
<1>3. StateTellsPlace'
  BY SMT, <1>e, <1>g, <1>in, <1>pc, <1>un DEF StateTellsPlace, IInv, Elem
<1>4. Exclusive'
  BY SMT, <1>e, <1>g, <1>in, <1>q, <1>un DEF Exclusive, IInv, Elem, Queued, t
<1>5. Somewhere'
  BY SMT, <1>g, <1>in, <1>q, <1>un DEF Somewhere, IInv, Queued, t
<1>6. IdleAtHome'
  BY <1>e, <1>q, <1>un DEF IdleAtHome, IInv, Elem, Queued
<1>7. LeakOnlyAtZero'
  BY <1>g, <1>pr, <1>un DEF LeakOnlyAtZero, IInv
<1>8. StackAgrees'
  BY SMT, <1>e, <1>g, <1>q, <1>pc, <1>un DEF StackAgrees, IInv, Elem, Queued
<1>9. StackExclusive'
  BY <1>un DEF StackExclusive, IInv
<1> QED
  BY <1>1, <1>2, <1>3, <1>4, <1>5, <1>6, <1>7, <1>8, <1>9 DEF IInv

(* The load of rsp at the end of the interrupt (interrupt.asm:44). *)
LEMMA SwitchStackIInv ==
  ASSUME IInv, NEW c \in Cpu, SwitchStack(c)
  PROVE  IInv'
<1>t. TypeOK
  BY DEF IInv
<1>e. Elem
  BY <1>t, Elements
<1>g. pc[c] = "switch" /\ state[sched_thread[c]] = "RUNNING"
  BY DEF SwitchStack, StackAgrees, IInv
<1>sk. \A e \in Cpu : stack'[e] = IF e = c THEN sched_thread[c] ELSE stack[e]
  BY <1>t DEF SwitchStack, TypeOK
<1>pc. \A e \in Cpu : pc'[e] = IF e = c THEN "run" ELSE pc[e]
  BY <1>t DEF SwitchStack, TypeOK, Goto
<1>un. UNCHANGED <<state, priority, core_affinity, sched_thread, ready_queues,
                   sleep_queue, inflight>>
  BY DEF SwitchStack
<1>1. TypeOK'
  BY <1>t DEF TypeOK, SwitchStack, Goto, Points
<1>2. QueueMatches' /\ Exclusive' /\ Somewhere' /\ IdleAtHome' /\ LeakOnlyAtZero'
  BY SMT, <1>un DEF QueueMatches, Exclusive, Somewhere, IdleAtHome, LeakOnlyAtZero, IInv, Queued
<1>3. StateTellsPlace'
  BY SMT, <1>g, <1>pc, <1>un DEF StateTellsPlace, IInv
<1>4. StackAgrees'
  BY SMT, <1>g, <1>sk, <1>pc, <1>un DEF StackAgrees, IInv, Queued
<1>5. StackExclusive'
  <2>1. \A d \in Cpu : d # c /\ stack[d] = sched_thread[c] => stack[d] \in Servers
    <3> SUFFICES ASSUME NEW d \in Cpu, d # c, stack[d] = sched_thread[c],
                        stack[d] \notin Servers
                 PROVE  FALSE
      OBVIOUS
    <3>1. sched_thread[d] # sched_thread[c]
      BY DEF Exclusive, IInv
    <3>2. \/ Queued(d, stack[d])
          \/ stack[d] \in sleep_queue[d]
          \/ \A e \in Cpu : sched_thread[e] # stack[d]
      BY <3>1 DEF StackAgrees, IInv
    <3>3. ~ Queued(d, stack[d])
      BY <1>g DEF QueueMatches, IInv, Queued
    <3> QED
      BY <3>2, <3>3 DEF Exclusive, IInv
  <2> QED
    BY <2>1, <1>sk DEF StackExclusive, IInv
<1> QED
  BY <1>1, <1>2, <1>3, <1>4, <1>5 DEF IInv

-----------------------------------------------------------------------------

-----------------------------------------------------------------------------
(* What the wake-up and ageing passes leave behind: the threads that were   *)
(* ready or have been woken, each in the queue of its new priority, and     *)
(* nobody else's priority touched (sched.c:151-177, 189-208).               *)
LEMMA AgedEffect ==
  ASSUME IInv, NEW c \in Cpu, NEW W \in SUBSET sleep_queue[c],
         NEW A \in SUBSET Ageable(c, W)
  PROVE  /\ Bumped(A) \in [Thread -> Priority]
         /\ Aged(c, W, A) \in [Priority -> SUBSET Thread]
         /\ \A u \in Thread : Queued(c, u) \/ u \in W \/ Bumped(A)[u] = priority[u]
         /\ \A r \in Priority, u \in Thread :
              u \in Aged(c, W, A)[r] <=> (Queued(c, u) \/ u \in W) /\ Bumped(A)[u] = r
<1>t. TypeOK
  BY DEF IInv
<1>w. \A u \in W : u \in Thread
  BY <1>t DEF TypeOK
<1>1. \A r \in Priority, u \in Thread :
        u \in Woken(c, W)[r] <=> (Queued(c, u) \/ u \in W) /\ priority[u] = r
  <2>1. \A r \in Priority, u \in Thread :
          u \in Woken(c, W)[r] <=> u \in ready_queues[c][r] \/ (u \in W /\ priority[u] = r)
    BY DEF Woken
  <2>2. \A u \in Thread : priority[u] \in Priority
    BY <1>t DEF TypeOK
  <2> QED
    BY SMT, <2>1, <2>2 DEF Queued, QueueMatches, IInv
<1>2. \A u \in A : u \in Thread /\ priority[u] < MaxPriority /\ (Queued(c, u) \/ u \in W)
  BY SMT, <1>1 DEF Ageable
<1>3. \A u \in Thread : Bumped(A)[u] = IF u \in A THEN priority[u] + 1 ELSE priority[u]
  BY <1>2 DEF Bumped
<1>4. Bumped(A) \in [Thread -> Priority]
  <2>1. \A u \in Thread : priority[u] \in Priority
    BY <1>t DEF TypeOK
  <2>2. \A u \in Thread : Bumped(A)[u] \in Priority
    BY SMT, <1>2, <1>3, <2>1, CoreAssumption DEF Priority
  <2> QED
    BY <2>2 DEF Bumped
<1>5. \A r \in Priority, u \in Thread :
        u \in Aged(c, W, A)[r] <=> (u \in Woken(c, W)[r] /\ u \notin A) \/ (u \in A /\ Bumped(A)[u] = r)
  BY DEF Aged
<1>6. Aged(c, W, A) \in [Priority -> SUBSET Thread]
  BY SMT, <1>t, <1>w, <1>2 DEF Aged, Woken, TypeOK
<1>7. \A r \in Priority, u \in Thread :
        u \in Aged(c, W, A)[r] <=> (Queued(c, u) \/ u \in W) /\ Bumped(A)[u] = r
  <2> SUFFICES ASSUME NEW r \in Priority, NEW u \in Thread
               PROVE  u \in Aged(c, W, A)[r] <=> (Queued(c, u) \/ u \in W) /\ Bumped(A)[u] = r
    OBVIOUS
  <2>1. CASE u \in A
    BY <2>1, <1>2, <1>5
  <2>2. CASE u \notin A
    BY <2>2, <1>1, <1>3, <1>5
  <2> QED
    BY <2>1, <2>2
<1> QED
  BY <1>2, <1>3, <1>4, <1>6, <1>7

(* The interrupt keeps the current thread (sched.c:248-254). *)
LEMMA StayIInv ==
  ASSUME IInv, NEW c \in Cpu, pc[c] \in {"run", "yield"},
         NEW W \in SUBSET sleep_queue[c], NEW A \in SUBSET Ageable(c, W),
         priority' = Bumped(A), Stay(c, W, Aged(c, W, A)),
         UNCHANGED <<core_affinity, inflight, stack>>
  PROVE  IInv' /\ state'[sched_thread'[c]] = "RUNNING"
<1> DEFINE q == Aged(c, W, A)
<1>t. TypeOK
  BY DEF IInv
<1>e. Elem
  BY <1>t, Elements
<1>w. \A u \in W : u \in Thread /\ u \in sleep_queue[c] /\ state[u] = "SLEEPING"
  BY <1>e DEF Elem, StateTellsPlace, IInv
<1>a. /\ priority' \in [Thread -> Priority]
      /\ q \in [Priority -> SUBSET Thread]
      /\ \A u \in Thread : Queued(c, u) \/ u \in W \/ priority'[u] = priority[u]
      /\ \A r \in Priority, u \in Thread :
           u \in q[r] <=> (Queued(c, u) \/ u \in W) /\ priority'[u] = r
  BY SMT, AgedEffect
<1> HIDE DEF q
<1>st. \A u \in Thread : state'[u] = IF u \in W THEN "READY" ELSE state[u]
  BY <1>t DEF Stay, TypeOK
<1>sl. \A e \in Cpu, u \in Thread :
         u \in sleep_queue'[e] <=> u \in sleep_queue[e] /\ ~ (e = c /\ u \in W)
  BY SMTT(40), <1>t DEF Stay, TypeOK
<1>pc. \A e \in Cpu : pc'[e] = IF e = c THEN "run" ELSE pc[e]
  BY <1>t DEF Stay, TypeOK, Goto
<1>un. UNCHANGED <<core_affinity, sched_thread, inflight, stack>>
  BY DEF Stay
<1>rq. \A e \in Cpu, r \in Priority, u \in Thread :
         u \in ready_queues'[e][r] <=>
           IF e = c THEN (Queued(c, u) \/ u \in W) /\ priority'[u] = r
                    ELSE u \in ready_queues[e][r]
  BY SMTT(40), <1>t, <1>a DEF Stay, TypeOK, q
<1>q. \A e \in Cpu, u \in Thread :
        (\E r \in Priority : u \in ready_queues'[e][r]) <=> Queued(e, u) \/ (e = c /\ u \in W)
  BY <1>a, <1>rq DEF Queued
<1>1. TypeOK'
  BY SMTT(40), <1>t, <1>a DEF TypeOK, Stay, Goto, Points, States, q
<1>el. /\ \A e \in Cpu : \A u \in sleep_queue'[e] : u \in Thread
       /\ \A e \in Cpu, r \in Priority : \A u \in ready_queues'[e][r] : u \in Thread
  BY SMT, <1>1 DEF TypeOK
<1>n. state[sched_thread[c]] = "RUNNING"
  <2> SUFFICES ASSUME \A r \in Priority : q[r] = {}
               PROVE  state[sched_thread[c]] = "RUNNING"
    BY DEF Stay, q
  <2>1. ~ Queued(c, IdleOf[c])
    BY SMT, <1>a, <1>e DEF Elem
  <2> QED
    BY <2>1 DEF IdleAtHome, StateTellsPlace, IInv
<1>2. QueueMatches'
  <2> SUFFICES ASSUME NEW e \in Cpu, NEW r \in Priority, NEW u \in ready_queues'[e][r]
               PROVE  state'[u] = "READY" /\ priority'[u] = r
    BY DEF QueueMatches
  <2>1. u \in Thread
    BY <1>el
  <2>2. CASE e = c
    BY SMT, <2>1, <2>2, <1>rq, <1>st DEF QueueMatches, IInv, Queued
  <2>3. CASE e # c
    <3>1. u \in ready_queues[e][r] /\ Queued(e, u)
      BY <2>1, <2>3, <1>rq DEF Queued
    <3>2. ~ Queued(c, u) /\ state[u] = "READY" /\ priority[u] = r
      BY SMT, <2>1, <2>3, <3>1 DEF Exclusive, QueueMatches, IInv
    <3> QED
      BY <2>1, <3>2, <1>a, <1>st, <1>w
  <2> QED
    BY <2>2, <2>3
<1>x. Exclusive
  BY DEF IInv
<1>3. StateTellsPlace'
  <2>s. StateTellsPlace
    BY DEF IInv
  <2>1. \A e \in Cpu : state'[sched_thread'[e]] \in {"RUNNING", "SLEEPING", "DEAD"}
    BY <2>s, <1>x, <1>e, <1>w, <1>st, <1>un DEF StateTellsPlace, Exclusive, Elem
  <2>2. \A e \in Cpu : \A u \in sleep_queue'[e] : state'[u] = "SLEEPING"
    BY SMT, <2>s, <1>x, <1>el, <1>w, <1>st, <1>sl DEF StateTellsPlace, Exclusive
  <2>3. \A e \in Cpu : inflight'[e] # None => state'[inflight'[e]] = "READY"
    BY SMT, <2>s, <1>e, <1>w, <1>st, <1>un DEF StateTellsPlace, Elem
  <2>4. \A e \in Cpu : state'[IdleOf[e]] \in {"READY", "RUNNING"}
    BY <2>s, <1>e, <1>w, <1>st DEF StateTellsPlace, Elem
  <2>5. \A e \in Cpu : inflight'[e] # None <=> pc'[e] \in {"push", "insert"}
    BY SMT, <2>s, <1>pc, <1>un DEF StateTellsPlace
  <2> QED
    BY <2>1, <2>2, <2>3, <2>4, <2>5 DEF StateTellsPlace
<1>qs. \A e \in Cpu, u \in Thread : Queued(e, u) => state[u] = "READY"
  BY SMT DEF QueueMatches, IInv, Queued
<1>4. Exclusive'
  <2>1. \A e, f \in Cpu : sched_thread'[e] = sched_thread'[f] => e = f
    BY <1>x, <1>un DEF Exclusive
  <2>2. \A e, f \in Cpu : inflight'[e] = inflight'[f] /\ inflight'[e] # None => e = f
    BY <1>x, <1>un DEF Exclusive
  <2>3. \A e, f \in Cpu, u \in Thread : Queued(e, u)' /\ Queued(f, u)' => e = f
    <3>1. \A e \in Cpu, u \in Thread : Queued(e, u)' => IF u \in W THEN e = c ELSE Queued(e, u)
      BY <1>q, <1>qs, <1>w DEF Queued
    <3>2. \A e, f \in Cpu, u \in Thread : Queued(e, u) /\ Queued(f, u) => e = f
      BY <1>x DEF Exclusive
    <3> QED
      BY <3>1, <3>2
  <2>4. \A e, f \in Cpu, u \in Thread : u \in sleep_queue'[e] /\ u \in sleep_queue'[f] => e = f
    BY <1>x, <1>sl DEF Exclusive
  <2>5. \A e, f \in Cpu : sched_thread'[e] \notin sleep_queue'[f]
    BY <1>x, <1>e, <1>sl, <1>un DEF Exclusive, Elem
  <2>6. \A e, f \in Cpu : inflight'[e] # None =>
          ~ \E r \in Priority : inflight'[e] \in ready_queues'[f][r]
    <3> SUFFICES ASSUME NEW e \in Cpu, NEW f \in Cpu, inflight[e] # None
                 PROVE  ~ \E r \in Priority : inflight[e] \in ready_queues'[f][r]
      BY <1>un
    <3>1. inflight[e] \in Thread /\ state[inflight[e]] = "READY" /\ ~ Queued(f, inflight[e])
      BY <1>x, <1>e DEF Exclusive, StateTellsPlace, IInv, Elem
    <3> QED
      BY <3>1, <1>q, <1>w
  <2> QED
    BY <2>1, <2>2, <2>3, <2>4, <2>5, <2>6 DEF Exclusive, Queued
<1>5. Somewhere'
  <2> SUFFICES ASSUME NEW u \in Thread
               PROVE  /\ state'[u] = "RUNNING" => \E e \in Cpu : sched_thread[e] = u
                      /\ state'[u] = "READY" => \E e \in Cpu :
                           (\E r \in Priority : u \in ready_queues'[e][r]) \/ inflight[e] = u
                      /\ state'[u] = "SLEEPING" => \E e \in Cpu :
                           sched_thread[e] = u \/ u \in sleep_queue'[e]
    BY <1>un DEF Somewhere, Queued
  <2>s. Somewhere
    BY DEF IInv
  <2>1. CASE u \in W
    BY <2>1, <1>st, <1>q
  <2>2. CASE u \notin W
    BY <2>2, <2>s, <1>st, <1>q, <1>sl DEF Somewhere
  <2> QED
    BY <2>1, <2>2
<1>6. IdleAtHome'
  BY <1>e, <1>q, <1>un DEF IdleAtHome, IInv, Elem, Queued
<1>7. LeakOnlyAtZero'
  BY SMT, <1>w, <1>a, <1>st, <1>un DEF LeakOnlyAtZero, QueueMatches, IInv, Queued
<1>8. StackAgrees'
  <2> SUFFICES ASSUME NEW e \in Cpu
               PROVE  IF pc'[e] = "switch"
                      THEN /\ state'[sched_thread[e]] = "RUNNING"
                           /\ stack[e] \notin Servers =>
                                \/ \E r \in Priority : stack[e] \in ready_queues'[e][r]
                                \/ stack[e] \in sleep_queue'[e]
                                \/ /\ state'[stack[e]] \in {"DEAD", "FREED"}
                                   /\ \A d \in Cpu : sched_thread[d] # stack[e]
                      ELSE stack[e] = sched_thread[e]
    BY <1>un DEF StackAgrees, Queued
  <2>1. CASE e = c
    BY <2>1, <1>pc DEF StackAgrees, IInv
  <2>2. CASE e # c
    <3>1. pc'[e] = pc[e]
      BY <2>2, <1>pc
    <3>2. /\ sched_thread[e] \in Thread /\ stack[e] \in Thread
          /\ sched_thread[e] \notin W
      BY <1>x, <1>e, <1>w DEF Exclusive, Elem
    <3>3. stack[e] \in sleep_queue[e] => stack[e] \in sleep_queue'[e]
      BY <2>2, <3>2, <1>sl
    <3>4. Queued(e, stack[e]) => \E r \in Priority : stack[e] \in ready_queues'[e][r]
      BY <3>2, <1>q
    <3>5. state[stack[e]] \in {"DEAD", "FREED"} => state'[stack[e]] = state[stack[e]]
      BY <3>2, <1>st, <1>w
    <3>6. state'[sched_thread[e]] = state[sched_thread[e]]
      BY <3>2, <1>st
    <3> QED
      BY <3>1, <3>3, <3>4, <3>5, <3>6 DEF StackAgrees, IInv
  <2> QED
    BY <2>1, <2>2
<1>9. StackExclusive'
  BY <1>un DEF StackExclusive, IInv
<1>10. state'[sched_thread'[c]] = "RUNNING"
  BY <1>e, <1>n, <1>w, <1>st, <1>un DEF Elem
<1> QED
  BY <1>1, <1>2, <1>3, <1>4, <1>5, <1>6, <1>7, <1>8, <1>9, <1>10 DEF IInv
=============================================================================
