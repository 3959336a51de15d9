---------------------------- MODULE SchedProofs -----------------------------
(***************************************************************************)
(* An interrupt that switches threads preserves the inductive invariant of *)
(* SchedCore, and with the steps of SchedStepProofs it holds for any       *)
(* number of CPUs, threads and priorities; the safety properties follow    *)
(* from it.  And sched_is_alive can be trusted: an answer 0 about a thread *)
(* that owns no port means that it has exited.                             *)
(***************************************************************************)
EXTENDS SchedAlive, SchedStepProofs

(* The provers, in the order in which they are tried. *)
USE ZenonT(5), SMT


(* The interrupt switches from the current thread m to n (sched.c:216-246). *)
LEMMA SwitchIInv ==
  ASSUME IInv, NEW c \in Cpu, pc[c] \in {"run", "yield"},
         NEW W \in SUBSET sleep_queue[c], NEW A \in SUBSET Ageable(c, W),
         NEW p \in Priority, NEW n \in Thread,
         priority' = Bumped(A), Switch(c, W, Aged(c, W, A), p, n),
         UNCHANGED <<core_affinity, inflight, stack>>
  PROVE  IInv' /\ state'[sched_thread'[c]] = "RUNNING"
<1> DEFINE q == Aged(c, W, A)
           m == sched_thread[c]
<1>t. TypeOK
  BY DEF IInv
<1>e. Elem
  BY <1>t, Elements
<1>w. \A u \in W : u \in Thread /\ u \in sleep_queue[c] /\ state[u] = "SLEEPING"
  BY <1>e DEF Elem, StateTellsPlace, IInv
<1>a. /\ priority' \in [Thread -> Priority]
      /\ q \in [Priority -> SUBSET Thread]
      /\ \A u \in Thread : Queued(c, u) \/ u \in W \/ priority'[u] = priority[u]
      /\ \A r \in Priority, u \in Thread :
           u \in q[r] <=> (Queued(c, u) \/ u \in W) /\ priority'[u] = r
  BY SMT, AgedEffect
<1> HIDE DEF q
<1>n. (Queued(c, n) \/ n \in W) /\ priority'[n] = p
  BY <1>a DEF Switch, q
<1>qs. \A e \in Cpu, u \in Thread : Queued(e, u) => state[u] = "READY"
  BY SMT DEF QueueMatches, IInv, Queued
<1>m. /\ m \in Thread /\ m # n /\ m \notin W /\ ~ Queued(c, m)
      /\ state[m] \in {"RUNNING", "SLEEPING", "DEAD"}
      /\ priority'[m] = priority[m] /\ priority[m] \in Priority
  <2>1. m \in Thread /\ m \notin sleep_queue[c] /\ state[m] \in {"RUNNING", "SLEEPING", "DEAD"}
    BY <1>e DEF Exclusive, StateTellsPlace, IInv, Elem
  <2>2. priority[m] \in Priority
    BY <1>t, <2>1 DEF TypeOK
  <2> QED
    BY SMT, <2>1, <2>2, <1>qs, <1>n, <1>a
<1>no. \A e \in Cpu : sched_thread[e] # n /\ sched_thread[e] \notin W
  BY SMT, <1>e, <1>n, <1>qs, <1>w DEF Exclusive, StateTellsPlace, IInv, Elem
<1>rt. /\ Retired(m) \in {"READY", "SLEEPING", "DEAD", "FREED"}
       /\ Retired(m) = "READY" <=> state[m] = "RUNNING"
       /\ Retired(m) = "SLEEPING" <=> state[m] = "SLEEPING"
       /\ Retired(m) = "DEAD" => state[m] = "DEAD" /\ priority[m] = 0
  BY <1>m DEF Retired
<1> HIDE DEF m
<1>st. \A u \in Thread : state'[u] = IF u = n THEN "RUNNING"
                                     ELSE IF u = m THEN Retired(m)
                                     ELSE IF u \in W THEN "READY" ELSE state[u]
  BY <1>m DEF Switch, m
<1>sl. \A e \in Cpu, u \in Thread :
         u \in sleep_queue'[e] <=>
           \/ u \in sleep_queue[e] /\ ~ (e = c /\ u \in W)
           \/ e = c /\ u = m /\ state[m] = "SLEEPING"
  BY ZenonT(40), <1>t DEF Switch, TypeOK, m
<1>cu. \A e \in Cpu : sched_thread'[e] = IF e = c THEN n ELSE sched_thread[e]
  BY <1>t DEF Switch, TypeOK
<1>pc. \A e \in Cpu : pc'[e] = IF e = c THEN "switch" ELSE pc[e]
  BY <1>t DEF Switch, TypeOK, Goto
<1>un. UNCHANGED <<core_affinity, inflight, stack>>
  OBVIOUS
<1>rq. \A e \in Cpu, r \in Priority, u \in Thread :
         u \in ready_queues'[e][r] <=>
           IF e = c THEN \/ (Queued(c, u) \/ u \in W) /\ priority'[u] = r /\ u # n
                         \/ u = m /\ state[m] = "RUNNING" /\ priority[m] = r
                    ELSE u \in ready_queues[e][r]
  <2>1. \A e \in Cpu, r \in Priority, u \in Thread :
          u \in ready_queues'[e][r] <=>
            IF e = c THEN \/ u \in q[r] /\ ~ (r = p /\ u = n)
                          \/ u = m /\ state[m] = "RUNNING" /\ priority[m] = r
                     ELSE u \in ready_queues[e][r]
    BY SMTT(40), <1>t DEF Switch, TypeOK, q, m
  <2> QED
    BY SMT, <2>1, <1>a, <1>n
<1>q. \A e \in Cpu, u \in Thread :
        (\E r \in Priority : u \in ready_queues'[e][r]) <=>
          \/ Queued(e, u) /\ ~ (e = c /\ u = n)
          \/ e = c /\ u \in W /\ u # n
          \/ e = c /\ u = m /\ state[m] = "RUNNING"
  BY SMT, <1>a, <1>m, <1>rq DEF Queued
<1>1. TypeOK'
  <2>1. ready_queues' \in [Cpu -> [Priority -> SUBSET Thread]]
    BY SMTT(40), <1>t, <1>a, <1>m DEF TypeOK, Switch, q, m
  <2>2. state' \in [Thread -> States]
    <3>1. \A u \in Thread : state'[u] \in States
      BY SMTT(40), <1>t, <1>st, <1>rt DEF TypeOK, States
    <3> QED
      BY <3>1 DEF Switch
  <2>3. sleep_queue' \in [Cpu -> SUBSET Thread]
    BY SMTT(40), <1>t, <1>m DEF TypeOK, Switch, m
  <2> QED
    BY ZenonT(40), <2>1, <2>2, <2>3, <1>t, <1>a DEF TypeOK, Switch, Goto, Points
<1>el. /\ \A e \in Cpu : \A u \in sleep_queue'[e] : u \in Thread
       /\ \A e \in Cpu, r \in Priority : \A u \in ready_queues'[e][r] : u \in Thread
  BY SMTT(40), <1>1 DEF TypeOK
<1>2. QueueMatches'
  <2> SUFFICES ASSUME NEW e \in Cpu, NEW r \in Priority, NEW u \in ready_queues'[e][r]
               PROVE  state'[u] = "READY" /\ priority'[u] = r
    BY DEF QueueMatches
  <2>1. u \in Thread
    BY <1>el
  <2>2. CASE e = c
    BY SMT, <2>1, <2>2, <1>rq, <1>st, <1>qs, <1>m, <1>rt
  <2>3. CASE e # c
    <3>1. u \in ready_queues[e][r] /\ Queued(e, u)
      BY <2>1, <2>3, <1>rq DEF Queued
    <3>2. ~ Queued(c, u) /\ state[u] = "READY" /\ priority[u] = r
      BY SMT, <2>1, <2>3, <3>1 DEF Exclusive, QueueMatches, IInv
    <3>3. u \notin W /\ u # n /\ u # m
      BY <3>2, <1>w, <1>n, <1>m
    <3> QED
      BY <2>1, <3>2, <3>3, <1>a, <1>st
  <2> QED
    BY <2>2, <2>3
<1>3. StateTellsPlace'
  <2>1. \A e \in Cpu : state'[sched_thread'[e]] \in {"RUNNING", "SLEEPING", "DEAD"}
    <3>1. \A e \in Cpu : e # c => sched_thread[e] # m
      BY DEF Exclusive, IInv, m
    <3> QED
      BY SMT, <3>1, <1>e, <1>st, <1>cu, <1>no DEF StateTellsPlace, IInv, Elem
  <2>2. \A e \in Cpu : \A u \in sleep_queue'[e] : state'[u] = "SLEEPING"
    <3> SUFFICES ASSUME NEW e \in Cpu, NEW u \in sleep_queue'[e]
                 PROVE  state'[u] = "SLEEPING"
      OBVIOUS
    <3>1. u \in Thread
      BY <1>el
    <3>2. CASE u = m
      BY <3>1, <3>2, <1>sl, <1>st, <1>m, <1>rt DEF Exclusive, IInv, m
    <3>3. CASE u # m
      <4>1. u \in sleep_queue[e] /\ ~ (e = c /\ u \in W)
        BY <3>1, <3>3, <1>sl
      <4>2. state[u] = "SLEEPING" /\ u \notin W
        BY SMT, <3>1, <4>1, <1>w DEF StateTellsPlace, Exclusive, IInv
      <4>3. u # n
        BY <3>1, <4>2, <1>n, <1>qs
      <4> QED
        BY <3>1, <3>3, <4>2, <4>3, <1>st
    <3> QED
      BY <3>2, <3>3
  <2>3. \A e \in Cpu : inflight'[e] # None => state'[inflight'[e]] = "READY"
    BY SMTT(40), <1>e, <1>st, <1>un, <1>w, <1>m, <1>n DEF StateTellsPlace, Exclusive, IInv, Elem
  <2>4. \A e \in Cpu : state'[IdleOf[e]] \in {"READY", "RUNNING"}
    BY SMT, <1>e, <1>st, <1>m, <1>rt DEF StateTellsPlace, IInv, Elem
  <2>5. \A e \in Cpu : inflight'[e] # None <=> pc'[e] \in {"push", "insert"}
    BY SMT, <1>pc, <1>un DEF StateTellsPlace, IInv
  <2> QED
    BY <2>1, <2>2, <2>3, <2>4, <2>5 DEF StateTellsPlace
<1>5. Somewhere'
  <2> SUFFICES ASSUME NEW u \in Thread
               PROVE  /\ state'[u] = "RUNNING" => \E e \in Cpu : sched_thread'[e] = u
                      /\ state'[u] = "READY" =>
                           \E e \in Cpu : \/ \E r \in Priority : u \in ready_queues'[e][r]
                                          \/ inflight'[e] = u
                      /\ state'[u] = "SLEEPING" =>
                           \E e \in Cpu : sched_thread'[e] = u \/ u \in sleep_queue'[e]
    BY DEF Somewhere, Queued
  <2>1. CASE u = n
    BY <2>1, <1>st, <1>cu
  <2>2. CASE u = m
    BY <2>2, <1>m, <1>st, <1>rt, <1>q, <1>sl
  <2>3. CASE u # n /\ u # m /\ u \in W
    BY <2>3, <1>st, <1>q
  <2>4. CASE u # n /\ u # m /\ u \notin W
    <3>1. state'[u] = state[u]
      BY <2>4, <1>st
    <3>2. \A e \in Cpu : sched_thread[e] = u => sched_thread'[e] = u
      BY <2>4, <1>cu DEF m
    <3> QED
      BY SMT, <2>4, <3>1, <3>2, <1>q, <1>sl, <1>un DEF Somewhere, IInv
  <2> QED
    BY <2>1, <2>2, <2>3, <2>4
<1>4. Exclusive'
  <2>0. \A e \in Cpu, u \in Thread : Queued(e, u) => e = c \/ (u # n /\ u # m /\ u \notin W)
    BY SMT, <1>qs, <1>n, <1>m, <1>w DEF Exclusive, IInv
  <2>1. \A e, f \in Cpu : sched_thread'[e] = sched_thread'[f] => e = f
    BY <1>cu, <1>no DEF Exclusive, IInv
  <2>2. \A e, f \in Cpu : inflight'[e] = inflight'[f] /\ inflight'[e] # None => e = f
    BY <1>un DEF Exclusive, IInv
  <2>3. \A e, f \in Cpu, u \in Thread :
          /\ \E r \in Priority : u \in ready_queues'[e][r]
          /\ \E r \in Priority : u \in ready_queues'[f][r]
          => e = f
    BY SMT, <2>0, <1>q DEF Exclusive, IInv
  <2>4. \A e, f \in Cpu, u \in Thread : u \in sleep_queue'[e] /\ u \in sleep_queue'[f] => e = f
    BY SMT, <1>sl DEF Exclusive, IInv, m
  <2>5. \A e, f \in Cpu : sched_thread'[e] \notin sleep_queue'[f]
    <3>1. \A e, f \in Cpu : e # c => sched_thread[e] \notin sleep_queue'[f]
      <4>1. \A e \in Cpu : e # c => sched_thread[e] # m
        BY DEF Exclusive, IInv, m
      <4> QED
        BY SMT, <4>1, <1>e, <1>sl DEF Exclusive, IInv, Elem
    <3>2. \A f \in Cpu : n \notin sleep_queue'[f]
      <4>1. \A f \in Cpu : n \in sleep_queue[f] => f = c /\ n \in W
        BY <1>n, <1>qs, <1>w DEF Exclusive, StateTellsPlace, IInv
      <4> QED
        BY <4>1, <1>sl, <1>m
    <3> QED
      BY <3>1, <3>2, <1>cu
  <2>6. \A e, f \in Cpu : inflight'[e] # None => ~ \E r \in Priority : inflight'[e] \in ready_queues'[f][r]
    <3>1. \A e \in Cpu : inflight[e] # None => inflight[e] # m /\ inflight[e] \notin W
      BY SMT, <1>m, <1>w DEF StateTellsPlace, IInv
    <3> QED
      BY SMT, <3>1, <1>e, <1>q, <1>un DEF Exclusive, IInv, Elem
  <2> QED
    BY <2>1, <2>2, <2>3, <2>4, <2>5, <2>6 DEF Exclusive, Queued
<1>6. IdleAtHome'
  <2>1. \A e \in Cpu : IdleOf[e] \in Thread /\ (IdleOf[e] = m => e = c)
    <3>1. \A e \in Cpu : IdleOf[e] = m => e = c
      BY SMT, <1>e, <1>m, <1>qs DEF IdleAtHome, Exclusive, IInv, Elem, StateTellsPlace, m
    <3> QED
      BY <3>1, <1>e DEF Elem
  <2>2. state[IdleOf[c]] \in {"READY", "RUNNING"}
    BY DEF StateTellsPlace, IInv
  <2>3. sched_thread'[c] = IdleOf[c] \/ \E r \in Priority : IdleOf[c] \in ready_queues'[c][r]
    BY <2>1, <2>2, <1>cu, <1>q, <1>m DEF IdleAtHome, IInv, m
  <2>4. \A e \in Cpu : e # c =>
          sched_thread'[e] = IdleOf[e] \/ \E r \in Priority : IdleOf[e] \in ready_queues'[e][r]
    BY <2>1, <1>cu, <1>q DEF IdleAtHome, IInv
  <2> QED
    BY <2>3, <2>4 DEF IdleAtHome, Queued
<1>7. LeakOnlyAtZero'
  <2> SUFFICES ASSUME NEW u \in Thread, state'[u] = "DEAD"
               PROVE  priority'[u] = 0 \/ \E e \in Cpu : sched_thread'[e] = u
    BY DEF LeakOnlyAtZero
  <2>1. CASE u = m
    BY <2>1, <1>st, <1>rt, <1>m
  <2>2. CASE u # m
    <3>1. state[u] = "DEAD" /\ priority'[u] = priority[u]
      BY <2>2, <1>st, <1>a, <1>qs, <1>w
    <3>2. \A e \in Cpu : sched_thread[e] = u => sched_thread'[e] = u
      BY <2>2, <1>cu DEF m
    <3> QED
      BY <3>1, <3>2 DEF LeakOnlyAtZero, IInv
  <2> QED
    BY <2>1, <2>2
<1>8. StackAgrees'
  <2> SUFFICES ASSUME NEW e \in Cpu
               PROVE  IF pc'[e] = "switch"
                      THEN /\ state'[sched_thread'[e]] = "RUNNING"
                           /\ stack[e] \notin Servers =>
                                \/ \E r \in Priority : stack[e] \in ready_queues'[e][r]
                                \/ stack[e] \in sleep_queue'[e]
                                \/ /\ state'[stack[e]] \in {"DEAD", "FREED"}
                                   /\ \A d \in Cpu : sched_thread'[d] # stack[e]
                      ELSE stack[e] = sched_thread'[e]
    BY <1>un DEF StackAgrees, Queued
  <2>1. CASE e = c
    <3>1. stack[e] = m
      BY <2>1 DEF StackAgrees, IInv, m
    <3>2. \A d \in Cpu : sched_thread'[d] # m
      BY <1>cu, <1>m DEF Exclusive, IInv, m
    <3> QED
      BY SMT, <2>1, <3>1, <3>2, <1>pc, <1>cu, <1>st, <1>m, <1>rt, <1>q, <1>sl
  <2>2. CASE e # c
    <3>0. sched_thread'[e] = sched_thread[e] /\ pc'[e] = pc[e] /\ sched_thread[e] # m
      BY <2>2, <1>cu, <1>pc DEF Exclusive, IInv, m
    <3>1. CASE pc[e] = "switch"
      <4>1. state'[sched_thread[e]] = "RUNNING"
        BY <3>0, <3>1, <1>e, <1>st, <1>no DEF StackAgrees, IInv, Elem
      <4> SUFFICES ASSUME stack[e] \notin Servers
                   PROVE  \/ \E r \in Priority : stack[e] \in ready_queues'[e][r]
                          \/ stack[e] \in sleep_queue'[e]
                          \/ /\ state'[stack[e]] \in {"DEAD", "FREED"}
                             /\ \A d \in Cpu : sched_thread'[d] # stack[e]
        BY <3>0, <3>1, <4>1
      <4>2. CASE Queued(e, stack[e])
        BY <2>2, <4>2, <1>e, <1>q DEF Elem
      <4>3. CASE stack[e] \in sleep_queue[e]
        BY <2>2, <4>3, <1>e, <1>sl DEF Elem
      <4>4. CASE /\ state[stack[e]] \in {"DEAD", "FREED"}
                 /\ \A d \in Cpu : sched_thread[d] # stack[e]
        <5>1. stack[e] \in Thread /\ stack[e] # n /\ stack[e] # m /\ stack[e] \notin W
          BY <4>4, <1>e, <1>n, <1>qs, <1>w DEF Elem, m
        <5> QED
          BY <4>4, <5>1, <1>st, <1>cu
      <4> QED
        BY <3>1, <4>2, <4>3, <4>4 DEF StackAgrees, IInv
    <3>2. CASE pc[e] # "switch"
      BY <3>0, <3>2 DEF StackAgrees, IInv
    <3> QED
      BY <3>1, <3>2
  <2> QED
    BY <2>1, <2>2
<1>9. StackExclusive'
  BY <1>un DEF StackExclusive, IInv
<1>10. state'[sched_thread'[c]] = "RUNNING"
  BY <1>st, <1>cu
<1> QED
  BY <1>1, <1>2, <1>3, <1>4, <1>5, <1>6, <1>7, <1>8, <1>9, <1>10 DEF IInv

-----------------------------------------------------------------------------

(* Interrupt 0x20 as a whole (sched.c:179-255). *)
LEMMA RescheduleIInv ==
  ASSUME IInv, NEW c \in Cpu, Reschedule(c)
  PROVE  IInv' /\ state'[sched_thread'[c]] = "RUNNING"
<1>0. PICK W \in SUBSET sleep_queue[c] : \E A \in SUBSET Ageable(c, W) :
        /\ priority' = Bumped(A)
        /\ \/ \E p \in Priority, n \in Thread : Switch(c, W, Aged(c, W, A), p, n)
           \/ Stay(c, W, Aged(c, W, A))
  BY DEF Reschedule
<1>1. PICK A \in SUBSET Ageable(c, W) :
        /\ priority' = Bumped(A)
        /\ \/ \E p \in Priority, n \in Thread : Switch(c, W, Aged(c, W, A), p, n)
           \/ Stay(c, W, Aged(c, W, A))
  BY <1>0
<1>2. pc[c] \in {"run", "yield"} /\ UNCHANGED <<core_affinity, inflight, stack>>
  BY DEF Reschedule
<1>3. CASE \E p \in Priority, n \in Thread : Switch(c, W, Aged(c, W, A), p, n)
  <2>1. PICK p \in Priority, n \in Thread : Switch(c, W, Aged(c, W, A), p, n)
    BY <1>3
  <2> QED
    BY <1>1, <1>2, <2>1, SwitchIInv
<1>4. CASE Stay(c, W, Aged(c, W, A))
  BY <1>1, <1>2, <1>4, StayIInv
<1> QED
  BY <1>1, <1>3, <1>4

(* After interrupt 0x20 nothing on this CPU outranks the thread it runs. *)
LEMMA RescheduleTop ==
  ASSUME IInv, NEW c \in Cpu, Reschedule(c), NEW r \in Priority, ready_queues'[c][r] # {}
  PROVE  r <= priority'[sched_thread'[c]]
<1>0. PICK W \in SUBSET sleep_queue[c] : \E A \in SUBSET Ageable(c, W) :
        /\ priority' = Bumped(A)
        /\ \/ \E p \in Priority, n \in Thread : Switch(c, W, Aged(c, W, A), p, n)
           \/ Stay(c, W, Aged(c, W, A))
  BY DEF Reschedule
<1>1. PICK A \in SUBSET Ageable(c, W) :
        /\ priority' = Bumped(A)
        /\ \/ \E p \in Priority, n \in Thread : Switch(c, W, Aged(c, W, A), p, n)
           \/ Stay(c, W, Aged(c, W, A))
  BY <1>0
<1>t. TypeOK
  BY DEF IInv
<1> DEFINE q == Aged(c, W, A)
           m == sched_thread[c]
<1>a. /\ \A u \in Thread : Queued(c, u) \/ u \in W \/ priority'[u] = priority[u]
      /\ \A s \in Priority, u \in Thread : u \in q[s] => priority'[u] = s
  BY SMT, <1>1, AgedEffect
<1>m. m \in Thread /\ priority'[m] = priority[m] /\ priority[m] \in Priority
  <2>1. m \in Thread /\ m \notin W
    BY <1>t DEF TypeOK, Exclusive, IInv
  <2>2. ~ Queued(c, m)
    BY SMT DEF StateTellsPlace, QueueMatches, IInv, Queued
  <2> QED
    BY <1>t, <1>a, <2>1, <2>2 DEF TypeOK
<1>p. \A s \in Priority : s \in Nat
  BY SMT, CoreAssumption DEF Priority
<1> HIDE DEF q
<1>2. ASSUME NEW p \in Priority, NEW n \in Thread, Switch(c, W, q, p, n)
      PROVE  r <= priority'[sched_thread'[c]]
  <2>1. sched_thread'[c] = n /\ priority'[n] = p
    <3>1. n \in q[p]
      BY <1>2 DEF Switch
    <3>2. sched_thread'[c] = n
      BY <1>2, <1>t DEF Switch, TypeOK
    <3> QED
      BY <1>a, <3>1, <3>2
  <2>2. PICK u : u \in ready_queues'[c][r]
    OBVIOUS
  <2>3. u \in q[r] \/ (state[m] = "RUNNING" /\ r = priority[m])
    BY <1>2, <2>2, <1>t DEF Switch, TypeOK
  <2>4. CASE u \in q[r]
    BY SMT, <1>2, <2>1, <2>4, <1>p DEF Switch, IsTop
  <2>5. CASE state[m] = "RUNNING" /\ r = priority[m]
    BY <1>2, <2>1, <2>5, <1>m, <1>p DEF Switch
  <2> QED
    BY <2>3, <2>4, <2>5
<1>3. CASE Stay(c, W, q)
  BY <1>3, <1>t, <1>m DEF Stay, TypeOK
<1> QED
  BY <1>1, <1>2, <1>3 DEF q

-----------------------------------------------------------------------------
(* Every step of every CPU keeps the invariant. *)
THEOREM Inductive == IInv /\ [Next]_vars => IInv'
<1> SUFFICES ASSUME IInv, [Next]_vars PROVE IInv'
  OBVIOUS
<1>1. ASSUME NEW c \in Cpu, NEW t \in Thread, NEW p \in 0 .. MaxPriority + 1, NEW d \in Cpu,
             SpawnTid(c, t, p, d)
      PROVE  IInv'
  BY <1>1, SpawnTidIInv
<1>2. ASSUME NEW c \in Cpu, SpawnPush(c) PROVE IInv'
  BY <1>2, SpawnPushIInv
<1>3. ASSUME NEW c \in Cpu, Sleep(c) PROVE IInv'
  BY <1>3, MarkIInv DEF Sleep
<1>4. ASSUME NEW c \in Cpu, Exit(c) PROVE IInv'
  BY <1>4, MarkIInv DEF Exit
<1>5. ASSUME NEW c \in Cpu, NEW d \in Cpu, NEW p \in Priority, NEW t \in Thread,
             HandoffTake(c, d, p, t)
      PROVE  IInv'
  BY <1>5, HandoffTakeIInv
<1>6. ASSUME NEW c \in Cpu, HandoffInsert(c) PROVE IInv'
  BY <1>6, HandoffInsertIInv
<1>7. ASSUME NEW c \in Cpu, Reschedule(c) PROVE IInv'
  BY <1>7, RescheduleIInv
<1>8. ASSUME NEW c \in Cpu, SwitchStack(c) PROVE IInv'
  BY <1>8, SwitchStackIInv
<1>9. CASE UNCHANGED vars
  BY SMT, <1>9 DEF vars, IInv, TypeOK, QueueMatches, StateTellsPlace, Exclusive, Somewhere,
              IdleAtHome, LeakOnlyAtZero, StackAgrees, StackExclusive, Queued
<1> QED
  BY <1>1, <1>2, <1>3, <1>4, <1>5, <1>6, <1>7, <1>8, <1>9 DEF Next, Call, Continue

(* The inductive invariant holds of every reachable state. *)
THEOREM Invariance == Spec => []IInv
BY InitIInv, Inductive, PTL DEF Spec

(* Type correctness of the scheduler's state. *)
THEOREM TypeCorrect == Spec => []TypeOK
<1>1. IInv => TypeOK
  BY DEF IInv
<1> QED
  BY <1>1, Invariance, PTL

(* No thread is ever in two places, on any number of CPUs. *)
THEOREM ThreadInOnePlace == Spec => []OnePlace
<1>1. IInv => OnePlace
  <2> SUFFICES ASSUME IInv, NEW t \in Thread, NEW x \in Places(t), NEW y \in Places(t)
               PROVE  x = y
    BY DEF OnePlace
  <2> DEFINE Current(c) == sched_thread[c] = t
             Asleep(c) == t \in sleep_queue[c]
             Held(c) == inflight[c] = t
  <2>0. t # None
    BY CoreAssumption
  <2>1. \A c, d \in Cpu :
          /\ Current(c) => ~ Queued(d, t) /\ ~ Asleep(d) /\ ~ Held(d)
          /\ Queued(c, t) => ~ Asleep(d) /\ ~ Held(d)
          /\ Asleep(c) => ~ Held(d)
    BY SMT, <2>0 DEF IInv, Exclusive, StateTellsPlace, QueueMatches, Queued
  <2>2. \A c, d \in Cpu :
          /\ Current(c) /\ Current(d) => c = d
          /\ Queued(c, t) /\ Queued(d, t) => c = d
          /\ Asleep(c) /\ Asleep(d) => c = d
          /\ Held(c) /\ Held(d) => c = d
    BY <2>0 DEF IInv, Exclusive
  <2>3. \A z \in Places(t) : \E c \in Cpu :
          \/ z = <<"current", c>> /\ Current(c)
          \/ z = <<"ready", c>> /\ Queued(c, t)
          \/ z = <<"sleeping", c>> /\ Asleep(c)
          \/ z = <<"inflight", c>> /\ Held(c)
    BY DEF Places, Queued
  <2> HIDE DEF Current, Asleep, Held
  <2> QED
    BY <2>1, <2>2, <2>3
<1> QED
  BY <1>1, Invariance, PTL

(* No live thread is ever lost, and no freed one is still referred to. *)
THEOREM NoThreadLost == Spec => []NotLost
<1>1. IInv => NotLost
  <2> SUFFICES ASSUME IInv, NEW t \in Thread
               PROVE  /\ state[t] \in {"READY", "RUNNING", "SLEEPING"} => Places(t) # {}
                      /\ state[t] \in {"NEW", "FREED"} => Places(t) = {}
    BY DEF NotLost
  <2>0. t # None
    BY CoreAssumption
  <2>1. \A c \in Cpu :
          /\ sched_thread[c] = t => <<"current", c>> \in Places(t)
          /\ Queued(c, t) => <<"ready", c>> \in Places(t)
          /\ t \in sleep_queue[c] => <<"sleeping", c>> \in Places(t)
          /\ inflight[c] = t => <<"inflight", c>> \in Places(t)
    BY DEF Places, Queued
  <2>2. \A z \in Places(t) : \E c \in Cpu :
          sched_thread[c] = t \/ Queued(c, t) \/ t \in sleep_queue[c] \/ inflight[c] = t
    BY DEF Places, Queued
  <2>3. state[t] \in {"READY", "RUNNING", "SLEEPING"} => Places(t) # {}
    BY ZenonT(40), <2>1 DEF IInv, Somewhere
  <2>4. state[t] \in {"NEW", "FREED"} => Places(t) = {}
    BY SMT, <2>0, <2>2 DEF IInv, StateTellsPlace, QueueMatches, Queued
  <2> QED
    BY <2>3, <2>4
<1> QED
  BY <1>1, Invariance, PTL

(* Two CPUs share a kernel stack only for a thread a handoff moved, and a   *)
(* freed stack is in use only until the interrupt returns.                  *)
THEOREM StackSafety == Spec => []StackSafe
<1>1. IInv => StackSafe
  BY DEF IInv, StackSafe, FreedOnlyInWindow, StackAgrees, StateTellsPlace
<1> QED
  BY <1>1, Invariance, PTL

(* The scheduler never resumes a thread that sleeps or has exited. *)
THEOREM NeverResumes == Spec => NeverResumesStopped
<1>1. IInv => \A c \in Cpu : state'[sched_thread'[c]] = "RUNNING" \/ ~ Reschedule(c)
  BY RescheduleIInv
<1> QED
  BY <1>1, Invariance, PTL DEF NeverResumesStopped

(* After every interrupt 0x20 the CPU runs a thread of the highest ready    *)
(* priority.                                                                *)
THEOREM PriorityOrder == Spec => PriorityRespected
<1>1. IInv => \A c \in Cpu :
        \/ \A p \in Priority : ready_queues'[c][p] # {} => p <= priority'[sched_thread'[c]]
        \/ ~ Reschedule(c)
  BY RescheduleTop
<1> QED
  BY <1>1, Invariance, PTL DEF PriorityRespected

-----------------------------------------------------------------------------

Off(u) == state[u] \in {"DEAD", "FREED"} /\ \A c \in Cpu : sched_thread[c] # u

(* What a step of the scheduler may do to the facts the scan relies on: it  *)
(* keeps threads on their CPU, never brings back a thread that is off, and  *)
(* never moves one that is not a server.                                    *)
Steady ==
  /\ \A u \in Thread : Off(u) => Off(u)'
  /\ \A u \in Thread : Known(u) => Known(u)'
  /\ \A u \in Thread \ Servers : Known(u) => core_affinity'[u] = core_affinity[u]

-----------------------------------------------------------------------------
(* The first half of a spawn (sched.c:76-92). *)
LEMMA SpawnTidSteady ==
  ASSUME IInv, Pinned, NEW c \in Cpu, NEW t \in Thread, NEW p \in 0 .. MaxPriority + 1,
         NEW d \in Cpu, SpawnTid(c, t, p, d)
  PROVE  Pinned' /\ Steady
<1>t. TypeOK
  BY DEF IInv
<1>g. state[t] = "NEW" /\ inflight[c] = None /\ pc[c] = "run"
  BY DEF SpawnTid, Executing, IInv, StateTellsPlace
<1>st. \A u \in Thread : state'[u] = IF u = t THEN "READY" ELSE state[u]
  BY <1>t DEF SpawnTid, TypeOK
<1>af. \A u \in Thread : core_affinity'[u] = IF u = t THEN d ELSE core_affinity[u]
  BY <1>t DEF SpawnTid, TypeOK
<1>in. \A e \in Cpu : inflight'[e] = IF e = c THEN t ELSE inflight[e]
  BY <1>t DEF SpawnTid, TypeOK
<1>pc. \A e \in Cpu : pc'[e] = IF e = c THEN "push" ELSE pc[e]
  BY <1>t DEF SpawnTid, TypeOK, Goto
<1>un. UNCHANGED <<sched_thread, ready_queues, sleep_queue>>
  BY DEF SpawnTid
<1>n. \A e \in Cpu : ~ FoundOn(e, t)
  BY <1>g DEF FoundOn, Queued, IInv, QueueMatches, StateTellsPlace
<1>1. Pinned'
  BY SMT, <1>n, <1>af, <1>un DEF Pinned, FoundOn, Queued
<1>2. \A u \in Thread : Off(u) => Off(u)'
  BY <1>g, <1>st, <1>un DEF Off
<1>3. \A u \in Thread : Known(u) => Known(u)'
  BY <1>g, <1>st, <1>in, <1>pc DEF Known
<1>4. \A u \in Thread : Known(u) => core_affinity'[u] = core_affinity[u]
  BY <1>g, <1>af DEF Known
<1> QED
  BY <1>1, <1>2, <1>3, <1>4 DEF Steady

(* The push of a spawn goes to the CPU core_affinity names (sched.c:94-97). *)
LEMMA SpawnPushSteady ==
  ASSUME IInv, Pinned, NEW c \in Cpu, SpawnPush(c)
  PROVE  Pinned' /\ Steady
<1> DEFINE t == inflight[c]
           d == core_affinity[t]
           p == priority[t]
<1>t. TypeOK
  BY DEF IInv
<1>e. Elem
  BY <1>t, Elements
<1>g. t # None /\ t \in Thread /\ d \in Cpu /\ p \in Priority
  BY <1>t, <1>e DEF SpawnPush, StateTellsPlace, IInv, TypeOK, Elem
<1>in. \A e \in Cpu : inflight'[e] = IF e = c THEN None ELSE inflight[e]
  BY <1>t DEF SpawnPush, TypeOK
<1>pc. \A e \in Cpu : pc'[e] = IF e = c THEN "run" ELSE pc[e]
  BY <1>t DEF SpawnPush, TypeOK, Goto
<1>un. UNCHANGED <<state, core_affinity, sched_thread, sleep_queue>>
  BY DEF SpawnPush
<1>q. \A e \in Cpu, u \in Thread : Queued(e, u)' <=> Queued(e, u) \/ (e = d /\ u = t)
  <2> HIDE DEF t, d, p
  <2>1. Insert(d, p, t)
    BY DEF SpawnPush, t, d, p
  <2> QED
    BY <1>t, <1>g, <2>1, InsertQueued
<1>1. Pinned'
  BY SMT, <1>q, <1>un DEF Pinned, FoundOn, Queued
<1>2. Steady
  BY <1>in, <1>pc, <1>un DEF Steady, Off, Known
<1> QED
  BY <1>1, <1>2

(* sched_sleep and sched_exit (sched.c:257-265, 271-278). *)
LEMMA MarkSteady ==
  ASSUME IInv, Pinned, NEW c \in Cpu, NEW s \in {"SLEEPING", "DEAD"}, Mark(c, s)
  PROVE  Pinned' /\ Steady
<1>t. TypeOK
  BY DEF IInv
<1>st. \A u \in Thread : state'[u] = IF u = sched_thread[c] THEN s ELSE state[u]
  BY <1>t DEF Mark, TypeOK
<1>un. UNCHANGED <<core_affinity, sched_thread, ready_queues, sleep_queue, inflight, pc>>
  BY DEF Mark
<1>1. Pinned'
  BY <1>un DEF Pinned, FoundOn, Queued
<1>2. Steady
  BY <1>st, <1>un DEF Steady, Off, Known
<1> QED
  BY <1>1, <1>2

(* The two halves of a handoff move servers only (sched.c:380-420). *)
LEMMA HandoffTakeSteady ==
  ASSUME IInv, Pinned, NEW c \in Cpu, NEW d \in Cpu, NEW p \in Priority, NEW t \in Thread,
         HandoffTake(c, d, p, t)
  PROVE  Pinned' /\ Steady
<1>t. TypeOK
  BY DEF IInv
<1>in. \A e \in Cpu : inflight'[e] = IF e = c THEN t ELSE inflight[e]
  BY <1>t DEF HandoffTake, TypeOK
<1>pc. \A e \in Cpu : pc'[e] = IF e = c THEN "insert" ELSE pc[e]
  BY <1>t DEF HandoffTake, TypeOK, Goto
<1>un. UNCHANGED <<state, core_affinity, sched_thread, sleep_queue>>
  BY DEF HandoffTake
<1>rq. \A e \in Cpu, r \in Priority, u \in Thread :
         u \in ready_queues'[e][r] => u \in ready_queues[e][r]
  BY <1>t DEF HandoffTake, TypeOK
<1>1. Pinned'
  BY <1>rq, <1>un DEF Pinned, FoundOn, Queued
<1>2. Steady
  BY <1>in, <1>pc, <1>un DEF Steady, Off, Known
<1> QED
  BY <1>1, <1>2

(* The second half sets the server's core_affinity to its new CPU. *)
LEMMA HandoffInsertSteady ==
  ASSUME IInv, Pinned, HeldIsServer, NEW c \in Cpu, HandoffInsert(c)
  PROVE  Pinned' /\ Steady
<1> DEFINE t == inflight[c]
<1>t. TypeOK
  BY DEF IInv
<1>e. Elem
  BY <1>t, Elements
<1>m. MaxPriority \in Priority
  BY SMT, CoreAssumption DEF Priority
<1>g. t # None /\ t \in Thread /\ state[t] = "READY" /\ t \in Servers
  BY <1>t, <1>e DEF HandoffInsert, StateTellsPlace, IInv, Elem, HeldIsServer
<1>af. \A u \in Thread : core_affinity'[u] = IF u = t THEN c ELSE core_affinity[u]
  BY <1>t DEF HandoffInsert, TypeOK
<1>in. \A e \in Cpu : inflight'[e] = IF e = c THEN None ELSE inflight[e]
  BY <1>t DEF HandoffInsert, TypeOK
<1>pc. \A e \in Cpu : pc'[e] = IF e = c THEN "yield" ELSE pc[e]
  BY <1>t DEF HandoffInsert, TypeOK, Goto
<1>un. UNCHANGED <<state, sched_thread, sleep_queue>>
  BY DEF HandoffInsert
<1>q. \A e \in Cpu, u \in Thread : Queued(e, u)' <=> Queued(e, u) \/ (e = c /\ u = t)
  <2> HIDE DEF t
  <2>1. Insert(c, MaxPriority, t)
    BY DEF HandoffInsert, t
  <2> QED
    BY <1>t, <1>g, <1>m, <2>1, InsertQueued
<1>n. \A e \in Cpu : ~ FoundOn(e, t)
  BY <1>g DEF FoundOn, IInv, StateTellsPlace, Exclusive
<1>1. Pinned'
  BY SMT, <1>n, <1>q, <1>af, <1>un DEF Pinned, FoundOn, Queued
<1>2. \A u \in Thread : (Off(u) => Off(u)') /\ (Known(u) => Known(u)')
  BY <1>in, <1>pc, <1>un DEF Off, Known
<1>3. \A u \in Thread \ Servers : core_affinity'[u] = core_affinity[u]
  BY <1>g, <1>af
<1> QED
  BY <1>1, <1>2, <1>3 DEF Steady

(* The load of rsp moves no thread (interrupt.asm:44). *)
LEMMA SwitchStackSteady ==
  ASSUME IInv, Pinned, NEW c \in Cpu, SwitchStack(c)
  PROVE  Pinned' /\ Steady
<1>t. TypeOK
  BY DEF IInv
<1>pc. \A e \in Cpu : pc'[e] = IF e = c THEN "run" ELSE pc[e]
  BY <1>t DEF SwitchStack, TypeOK, Goto
<1>un. UNCHANGED <<state, core_affinity, sched_thread, ready_queues, sleep_queue, inflight>>
  BY DEF SwitchStack
<1>1. Pinned'
  BY <1>un DEF Pinned, FoundOn, Queued
<1>2. Steady
  BY <1>pc, <1>un DEF Steady, Off, Known
<1> QED
  BY <1>1, <1>2

(* Interrupt 0x20 moves threads between the places of its own CPU only, and *)
(* touches no thread that is off (sched.c:179-255).                         *)
LEMMA RescheduleSteady ==
  ASSUME IInv, Pinned, NEW c \in Cpu, Reschedule(c)
  PROVE  Pinned' /\ Steady
<1>0. PICK W \in SUBSET sleep_queue[c] : \E A \in SUBSET Ageable(c, W) :
        \/ \E p \in Priority, n \in Thread : Switch(c, W, Aged(c, W, A), p, n)
        \/ Stay(c, W, Aged(c, W, A))
  BY DEF Reschedule
<1>1. PICK A \in SUBSET Ageable(c, W) :
        \/ \E p \in Priority, n \in Thread : Switch(c, W, Aged(c, W, A), p, n)
        \/ Stay(c, W, Aged(c, W, A))
  BY <1>0
<1>t. TypeOK
  BY DEF IInv
<1>un. UNCHANGED <<core_affinity, inflight>>
  BY DEF Reschedule
<1> DEFINE q == Aged(c, W, A)
           m == sched_thread[c]
<1>a. /\ q \in [Priority -> SUBSET Thread]
      /\ \A r \in Priority, u \in Thread : u \in q[r] => Queued(c, u) \/ u \in W
  BY AgedEffect
<1>w. \A u \in W : u \in sleep_queue[c] /\ state[u] = "SLEEPING"
  BY DEF StateTellsPlace, IInv
<1>qs. \A e \in Cpu, u \in Thread : Queued(e, u) => state[u] = "READY"
  BY SMT DEF QueueMatches, IInv, Queued
<1>m. m \in Thread
  BY <1>t DEF TypeOK
<1> HIDE DEF q
<1>2. ASSUME NEW p \in Priority, NEW n \in Thread, Switch(c, W, q, p, n)
      PROVE  Pinned' /\ Steady
  <2>n. Queued(c, n) \/ n \in W
    BY <1>2, <1>a DEF Switch
  <2>st. \A u \in Thread : u # n /\ u # m /\ u \notin W => state'[u] = state[u]
    BY <1>2 DEF Switch
  <2>s2. \A u \in Thread : u = n \/ u = m \/ u \in W => state'[u] # "NEW"
    <3>1. Retired(m) # "NEW"
      BY <1>m DEF Retired, StateTellsPlace, IInv
    <3> QED
      BY <1>2, <3>1 DEF Switch
  <2>cu. \A e \in Cpu : sched_thread'[e] = IF e = c THEN n ELSE sched_thread[e]
    BY <1>2, <1>t DEF Switch, TypeOK
  <2>pc. \A e \in Cpu : pc'[e] = IF e = c THEN "switch" ELSE pc[e]
    BY <1>2, <1>t DEF Switch, TypeOK, Goto
  <2>sl. \A e \in Cpu, u \in Thread :
           u \in sleep_queue'[e] => u \in sleep_queue[e] \/ (e = c /\ u = m)
    BY <1>2, <1>t DEF Switch, TypeOK
  <2>rq. \A e \in Cpu, r \in Priority, u \in Thread :
           u \in ready_queues'[e][r] =>
             IF e = c THEN u \in q[r] \/ u = m ELSE u \in ready_queues[e][r]
    BY <1>2, <1>t DEF Switch, TypeOK
  <2>q. \A e \in Cpu, u \in Thread :
          (\E r \in Priority : u \in ready_queues'[e][r]) =>
            Queued(e, u) \/ (e = c /\ (u \in W \/ u = m))
    BY <2>rq, <1>a DEF Queued
  <2>1. \A e \in Cpu, u \in Thread :
          \/ sched_thread'[e] = u
          \/ \E r \in Priority : u \in ready_queues'[e][r]
          \/ u \in sleep_queue'[e]
          => FoundOn(e, u)
    BY SMT, <2>n, <2>cu, <2>sl, <2>q, <1>w DEF FoundOn
  <2>2. Pinned'
    BY <2>1, <1>un DEF Pinned, FoundOn, Queued
  <2>3. \A u \in Thread : Off(u) => Off(u)'
    BY <2>n, <2>st, <2>cu, <1>w, <1>qs DEF Off
  <2>4. \A u \in Thread : Known(u) => Known(u)'
    BY <2>st, <2>s2, <2>pc, <1>un DEF Known
  <2> QED
    BY <2>2, <2>3, <2>4, <1>un DEF Steady
<1>3. CASE Stay(c, W, q)
  <2>st. \A u \in Thread : state'[u] = IF u \in W THEN "READY" ELSE state[u]
    BY <1>3 DEF Stay
  <2>cu. UNCHANGED sched_thread
    BY <1>3 DEF Stay
  <2>pc. \A e \in Cpu : pc'[e] = IF e = c THEN "run" ELSE pc[e]
    BY <1>3, <1>t DEF Stay, TypeOK, Goto
  <2>sl. \A e \in Cpu, u \in Thread : u \in sleep_queue'[e] => u \in sleep_queue[e]
    BY <1>3, <1>t DEF Stay, TypeOK
  <2>rq. \A e \in Cpu, r \in Priority, u \in Thread :
           u \in ready_queues'[e][r] => IF e = c THEN u \in q[r] ELSE u \in ready_queues[e][r]
    BY <1>3, <1>t DEF Stay, TypeOK
  <2>q. \A e \in Cpu, u \in Thread :
          (\E r \in Priority : u \in ready_queues'[e][r]) => Queued(e, u) \/ (e = c /\ u \in W)
    BY <2>rq, <1>a DEF Queued
  <2>2. Pinned'
    BY SMT, <2>cu, <2>sl, <2>q, <1>w, <1>un DEF Pinned, FoundOn, Queued
  <2>3. \A u \in Thread : Off(u) => Off(u)'
    BY <2>st, <2>cu, <1>w DEF Off
  <2>4. \A u \in Thread : Known(u) => Known(u)'
    BY <2>st, <2>pc, <1>un DEF Known
  <2> QED
    BY <2>2, <2>3, <2>4, <1>un DEF Steady
<1> QED
  BY <1>1, <1>2, <1>3 DEF q

(* Only sched_handoff takes a thread off a queue into its hands             *)
(* (sched.c:394-406).                                                       *)
LEMMA HeldStep ==
  ASSUME TypeOK, HeldIsServer, NEW c \in Cpu, Call(c) \/ Continue(c)
  PROVE  HeldIsServer'
<1>1. ASSUME NEW t \in Thread, NEW p \in 0 .. MaxPriority + 1, NEW d \in Cpu, SpawnTid(c, t, p, d)
      PROVE  HeldIsServer'
  BY <1>1 DEF SpawnTid, Goto, TypeOK, HeldIsServer
<1>2. ASSUME NEW s, Mark(c, s) PROVE HeldIsServer'
  BY <1>2 DEF Mark, HeldIsServer
<1>3. ASSUME NEW d \in Cpu, NEW p \in Priority, NEW t \in Thread, HandoffTake(c, d, p, t)
      PROVE  HeldIsServer'
  BY <1>3 DEF HandoffTake, Goto, TypeOK, HeldIsServer
<1>4. CASE SpawnPush(c)
  BY <1>4 DEF SpawnPush, Goto, TypeOK, HeldIsServer
<1>5. CASE HandoffInsert(c)
  BY <1>5 DEF HandoffInsert, Goto, TypeOK, HeldIsServer
<1>6. CASE Reschedule(c)
  <2>1. UNCHANGED inflight /\ (Goto(c, "switch") \/ Goto(c, "run"))
    BY <1>6 DEF Reschedule, Switch, Stay
  <2> QED
    BY <2>1 DEF Goto, TypeOK, HeldIsServer
<1>7. CASE SwitchStack(c)
  BY <1>7 DEF SwitchStack, Goto, TypeOK, HeldIsServer
<1> QED
  BY <1>1, <1>2, <1>3, <1>4, <1>5, <1>6, <1>7 DEF Call, Continue, Sleep, Exit

(* Every scheduler step keeps what the scan relies on. *)
LEMMA SchedSteady ==
  ASSUME IInv, Pinned, HeldIsServer, NEW c \in Cpu, Call(c) \/ Continue(c)
  PROVE  IInv' /\ Pinned' /\ HeldIsServer' /\ Steady
<1>1. IInv'
  BY Inductive DEF Next
<1>2. HeldIsServer'
  BY HeldStep DEF IInv
<1>3. ASSUME NEW t \in Thread, NEW p \in 0 .. MaxPriority + 1, NEW d \in Cpu, SpawnTid(c, t, p, d)
      PROVE  Pinned' /\ Steady
  BY <1>3, SpawnTidSteady
<1>4. ASSUME NEW d \in Cpu, NEW p \in Priority, NEW t \in Thread, HandoffTake(c, d, p, t)
      PROVE  Pinned' /\ Steady
  BY <1>4, HandoffTakeSteady
<1>5. CASE Sleep(c) \/ Exit(c)
  BY <1>1, <1>2, <1>5, MarkSteady DEF Sleep, Exit
<1>6. CASE Continue(c)
  BY <1>1, <1>2, <1>6, SpawnPushSteady, HandoffInsertSteady, RescheduleSteady,
     SwitchStackSteady DEF Continue
<1> QED
  BY <1>1, <1>2, <1>3, <1>4, <1>5, <1>6 DEF Call

(* A thread that is on no CPU, in no queue and in nobody's hands has exited. *)
LEMMA NotFoundIsOff ==
  ASSUME IInv, HeldIsServer, NEW u \in Thread \ Servers, Known(u),
         \A e \in Cpu : ~ FoundOn(e, u)
  PROVE  Off(u)
<1>t. TypeOK
  BY DEF IInv
<1>0. u # None
  BY CoreAssumption
<1>1. \A e \in Cpu : inflight[e] # u
  BY <1>0 DEF IInv, StateTellsPlace, HeldIsServer, Known
<1>2. state[u] \notin {"READY", "RUNNING", "SLEEPING", "NEW"}
  BY <1>1 DEF IInv, Somewhere, FoundOn, Known
<1>3. state[u] \in States
  BY <1>t DEF TypeOK
<1> QED
  BY <1>2, <1>3 DEF Off, States, FoundOn

-----------------------------------------------------------------------------
(* Every step keeps the invariant of sched_is_alive. *)
THEOREM AliveInductive == AInv /\ [ANext]_avars => AInv'
<1> SUFFICES ASSUME AInv, [ANext]_avars PROVE AInv'
  OBVIOUS
<1>i. IInv /\ AliveTypeOK /\ Pinned /\ HeldIsServer /\ AskedIsKnown /\ PassedIsDead /\ DeadIsDead
  BY DEF AInv
<1>c. \A t \in Thread : ask[t].tid # None => ask[t].tid \in Thread
  BY <1>i DEF AliveTypeOK
<1>1. ASSUME NEW c \in Cpu, Call(c) \/ Continue(c), UNCHANGED <<ask, gone>>
      PROVE  AInv'
  <2>1. IInv' /\ Pinned' /\ HeldIsServer' /\ Steady
    BY <1>1, <1>i, SchedSteady
  <2>2. AliveTypeOK'
    BY <1>1, <1>i, <2>1 DEF AliveTypeOK, IInv
  <2>3. AskedIsKnown'
    BY <1>1, <1>i, <1>c, <2>1 DEF AskedIsKnown, Steady, Known
  <2>4. PassedIsDead'
    <3> SUFFICES ASSUME NEW t \in Thread, ask[t].tid # None,
                        ask[t].tid \notin Servers \cup Idle,
                        core_affinity'[ask[t].tid] < ask[t].i
                 PROVE  Off(ask[t].tid)'
      BY <1>1 DEF PassedIsDead, Off
    <3>1. ask[t].tid \in Thread /\ Known(ask[t].tid)
      BY <1>i, <1>c DEF AskedIsKnown
    <3>2. core_affinity[ask[t].tid] < ask[t].i
      BY <2>1, <3>1 DEF Steady
    <3>3. Off(ask[t].tid)
      BY <1>i, <3>2 DEF PassedIsDead, Off
    <3> QED
      BY <2>1, <3>1, <3>3, <1>1 DEF Steady, Off
  <2>5. DeadIsDead'
    <3>1. \A u \in gone \ (Servers \cup Idle) : u \in Thread /\ Off(u)
      BY <1>i DEF DeadIsDead, AliveTypeOK, Off
    <3> QED
      BY <1>1, <2>1, <3>1 DEF DeadIsDead, Steady, Off
  <2> QED
    BY <2>1, <2>2, <2>3, <2>4, <2>5 DEF AInv
<1>u. ASSUME UNCHANGED vars
      PROVE  /\ IInv' /\ Pinned' /\ HeldIsServer' /\ TypeOK'
             /\ \A u \in Thread : (Known(u) => Known(u)') /\ (Off(u) => Off(u)')
             /\ UNCHANGED core_affinity
  <2>1. IInv'
    BY <1>u, <1>i, Inductive
  <2> QED
    BY <1>u, <1>i, <2>1 DEF vars, IInv, Pinned, HeldIsServer, FoundOn, Queued, Known, Off
<1>2. ASSUME NEW c \in Cpu, NEW u \in Asked, AskBegin(c, u) PROVE AInv'
  <2>t. u \in Thread
    BY AskAssumption
  <2>0. UNCHANGED <<vars, gone>>
    BY <1>2 DEF AskBegin
  <2>u. /\ IInv' /\ Pinned' /\ HeldIsServer' /\ TypeOK'
        /\ \A v \in Thread : (Known(v) => Known(v)') /\ (Off(v) => Off(v)')
        /\ UNCHANGED core_affinity
    BY <2>0, <1>u
  <2>a. \A t \in Thread : ask'[t] = ask[t] \/ ask'[t] = [tid |-> u, i |-> 0]
    BY <1>2, <2>t, <1>i DEF AskBegin, AliveTypeOK
  <2>k. Known(u)
    BY <1>2 DEF AskBegin
  <2>1. AliveTypeOK'
    <3>1. 0 \in Cpu
      BY SMT, CoreAssumption DEF Cpu
    <3> QED
      BY <1>2, <2>t, <1>i, <2>0, <2>u, <3>1 DEF AskBegin, AliveTypeOK
  <2>2. AskedIsKnown'
    BY SMT, <1>i, <1>c, <2>t, <2>u, <2>a, <2>k DEF AskedIsKnown, Known
  <2>3. PassedIsDead'
    <3> SUFFICES ASSUME NEW t \in Thread, ask'[t].tid # None,
                        ask'[t].tid \notin Servers \cup Idle,
                        core_affinity'[ask'[t].tid] < ask'[t].i
                 PROVE  /\ state'[ask'[t].tid] \in {"DEAD", "FREED"}
                        /\ \A e \in Cpu : sched_thread'[e] # ask'[t].tid
      BY DEF PassedIsDead
    <3>1. CASE ask'[t] = [tid |-> u, i |-> 0]
      <4>1. core_affinity[u] \in Nat
        BY SMT, <2>t, <1>i, CoreAssumption DEF AliveTypeOK, TypeOK, Cpu
      <4>2. core_affinity[u] < 0
        BY SMT, <3>1, <2>u
      <4> QED
        BY SMT, <4>1, <4>2
    <3>2. CASE ask'[t] = ask[t]
      <4>1. Off(ask[t].tid)
        BY <3>2, <1>i, <2>u DEF PassedIsDead, Off
      <4> QED
        BY <3>2, <4>1, <1>c, <2>u DEF Off
    <3> QED
      BY <3>1, <3>2, <2>a
  <2>4. DeadIsDead'
    BY <1>i, <2>0, <2>u DEF DeadIsDead, AliveTypeOK, Off
  <2> QED
    BY <2>u, <2>1, <2>2, <2>3, <2>4 DEF AInv
<1>3. ASSUME NEW c \in Cpu, AskNext(c) PROVE AInv'
  <2> DEFINE me == sched_thread[c]
             u == ask[me].tid
             i == ask[me].i
  <2>0. UNCHANGED vars
    BY <1>3 DEF AskNext
  <2>u. /\ IInv' /\ Pinned' /\ HeldIsServer' /\ TypeOK'
        /\ \A v \in Thread : (Known(v) => Known(v)') /\ (Off(v) => Off(v)')
        /\ UNCHANGED core_affinity
    BY <2>0, <1>u
  <2>g. me \in Thread /\ u # None /\ u \in Thread /\ Known(u) /\ i \in Cpu
    <3>1. me \in Thread
      BY <1>i DEF AliveTypeOK, TypeOK
    <3>2. u # None
      BY <1>3 DEF AskNext, Calling
    <3> QED
      BY <3>1, <3>2, <1>i, <1>c DEF AskedIsKnown, AliveTypeOK
  <2>n. NCpu \in Nat /\ \A e \in Cpu : e \in Nat /\ e <= NCpu - 1
    BY SMT, CoreAssumption DEF Cpu
  <2>f. core_affinity[u] \in Cpu
    BY <1>i, <2>g DEF AliveTypeOK, TypeOK
  <2>o. u \notin Servers \cup Idle /\ ~ FoundOn(i, u) /\ core_affinity[u] = i => Off(u)
    <3> SUFFICES ASSUME u \notin Servers \cup Idle, ~ FoundOn(i, u), core_affinity[u] = i
                 PROVE  Off(u)
      OBVIOUS
    <3>1. \A e \in Cpu : ~ FoundOn(e, u)
      BY <1>i, <2>g DEF Pinned
    <3> QED
      BY <1>i, <2>g, <3>1, NotFoundIsOff
  <2>p. u \notin Servers \cup Idle /\ core_affinity[u] < i => Off(u)
    BY <1>i, <2>g DEF PassedIsDead, Off
  <2>a. \/ /\ \A t \in Thread : ask'[t] = IF t = me THEN NoCall ELSE ask[t]
           /\ gone' = gone
        \/ /\ ~ FoundOn(i, u) /\ i < NCpu - 1
           /\ \A t \in Thread : ask'[t] = IF t = me THEN [tid |-> u, i |-> i + 1] ELSE ask[t]
           /\ gone' = gone
        \/ /\ ~ FoundOn(i, u) /\ i = NCpu - 1
           /\ \A t \in Thread : ask'[t] = IF t = me THEN NoCall ELSE ask[t]
           /\ gone' = gone \cup {u}
    <3>1. ask \in [Thread -> [tid : Thread \cup {None}, i : Cpu]]
      BY <1>i DEF AliveTypeOK
    <3> QED
      BY <1>3, <2>g, <3>1 DEF AskNext
  <2>ty. ask' \in [Thread -> [tid : Thread \cup {None}, i : Cpu]]
    <3>1. ask \in [Thread -> [tid : Thread \cup {None}, i : Cpu]]
      BY <1>i DEF AliveTypeOK
    <3>2. NoCall \in [tid : Thread \cup {None}, i : Cpu]
      BY SMT, CoreAssumption DEF NoCall, Cpu
    <3>3. i < NCpu - 1 => i + 1 \in Cpu
      BY SMT, <2>g, CoreAssumption DEF Cpu
    <3> QED
      BY SMT, <1>3, <2>g, <3>1, <3>2, <3>3 DEF AskNext
  <2> HIDE DEF me, u, i
  <2>1. AliveTypeOK'
    BY <1>i, <2>u, <2>g, <2>a, <2>ty DEF AliveTypeOK
  <2>2. AskedIsKnown'
    <3> SUFFICES ASSUME NEW t \in Thread, ask'[t].tid # None
                 PROVE  /\ state'[ask'[t].tid] # "NEW"
                        /\ \A d \in Cpu : ~ (inflight'[d] = ask'[t].tid /\ pc'[d] = "push")
      BY DEF AskedIsKnown, Known
    <3>1. ask'[t].tid = ask[t].tid \/ ask'[t].tid = u
      BY SMT, <2>a DEF NoCall
    <3>2. ask'[t].tid \in Thread /\ Known(ask'[t].tid)
      BY <3>1, <1>i, <1>c, <2>g DEF AskedIsKnown
    <3> QED
      BY <3>2, <2>0 DEF vars, Known
  <2>3. PassedIsDead'
    <3> SUFFICES ASSUME NEW t \in Thread, ask'[t].tid # None,
                        ask'[t].tid \notin Servers \cup Idle,
                        core_affinity'[ask'[t].tid] < ask'[t].i
                 PROVE  /\ state'[ask'[t].tid] \in {"DEAD", "FREED"}
                        /\ \A e \in Cpu : sched_thread'[e] # ask'[t].tid
      BY DEF PassedIsDead
    <3>1. CASE ask'[t] = ask[t]
      <4>1. Off(ask[t].tid)
        BY <3>1, <1>i, <2>u DEF PassedIsDead, Off
      <4> QED
        BY <3>1, <4>1, <2>0 DEF Off, vars
    <3>2. CASE ask'[t] # ask[t]
      <4>1. t = me /\ ask'[t] = [tid |-> u, i |-> i + 1] /\ ~ FoundOn(i, u)
        BY SMT, <3>2, <2>a DEF NoCall
      <4>2. core_affinity[u] < i \/ core_affinity[u] = i
        BY SMT, <4>1, <2>u, <2>f, <2>g, <2>n
      <4>3. Off(u)
        BY SMT, <4>1, <4>2, <2>o, <2>p
      <4> QED
        BY SMT, <4>1, <4>3, <2>0 DEF Off, vars
    <3> QED
      BY <3>1, <3>2
  <2>4. DeadIsDead'
    <3>1. \A v \in gone' \ (Servers \cup Idle) : Off(v)
      <4>1. \A v \in gone \ (Servers \cup Idle) : Off(v)
        BY <1>i DEF DeadIsDead, Off
      <4>2. ~ FoundOn(i, u) /\ i = NCpu - 1 /\ u \notin Servers \cup Idle => Off(u)
        <5>1. i = NCpu - 1 => core_affinity[u] < i \/ core_affinity[u] = i
          <6> DEFINE a == core_affinity[u]
          <6>1. a \in Nat /\ a <= NCpu - 1 /\ NCpu \in Nat /\ i \in Nat
            BY <2>f, <2>g, <2>n
          <6> HIDE DEF a
          <6> QED
            BY SMT, <6>1 DEF a
        <5> QED
          BY <5>1, <2>o, <2>p
      <4> QED
        BY <4>1, <4>2, <2>a
    <3> QED
      BY <3>1, <2>0 DEF DeadIsDead, Off, vars
  <2> QED
    BY <2>u, <2>1, <2>2, <2>3, <2>4 DEF AInv
<1>4. CASE UNCHANGED avars
  <2>1. UNCHANGED vars /\ UNCHANGED <<ask, gone>>
    BY <1>4 DEF avars
  <2>2. IInv' /\ Pinned' /\ HeldIsServer'
    BY <2>1, <1>u
  <2> QED
    BY <2>1, <2>2, <1>i DEF AInv, AliveTypeOK, AskedIsKnown, PassedIsDead, DeadIsDead, Known,
                            IInv, vars
<1> QED
  BY <1>1, <1>2, <1>3, <1>4 DEF ANext

(* Before the first spawn the invariant holds (sched.c:18-56). *)
LEMMA AliveInit == AInit => AInv
<1> SUFFICES ASSUME AInit PROVE AInv
  OBVIOUS
<1>1. IInv
  BY InitIInv DEF AInit
<1>2. AliveTypeOK
  BY SMT, <1>1, CoreAssumption DEF AInit, AliveTypeOK, NoCall, Cpu, IInv
<1>3. Pinned
  <2>1. \A t \in Thread \ Idle : \A c \in Cpu : ~ FoundOn(c, t)
    BY DEF AInit, Init, FoundOn, Queued, Idle
  <2> QED
    BY <2>1 DEF Pinned
<1>4. HeldIsServer /\ AskedIsKnown /\ PassedIsDead /\ DeadIsDead
  BY DEF AInit, Init, HeldIsServer, AskedIsKnown, PassedIsDead, DeadIsDead, NoCall
<1> QED
  BY <1>1, <1>2, <1>3, <1>4 DEF AInv

(* sched_is_alive never says that a thread which can still run is dead. *)
THEOREM AliveTrusted == ASpec => []DeadIsDead
<1>1. AInv => DeadIsDead
  BY DEF AInv
<1> QED
  BY <1>1, AliveInit, AliveInductive, PTL DEF ASpec

(* A thread that owns no port stays on the CPU it was spawned on           *)
(* (sched.c:92, 387-416).                                                  *)
THEOREM ThreadStaysPut == ASpec => StaysOnCpu
<1> DEFINE Stays(t) == Known(t) => /\ core_affinity'[t] = core_affinity[t]
                                   /\ \A c \in Cpu : FoundOn(c, t)' => c = core_affinity[t]
           Step == \A t \in Thread \ (Servers \cup Idle) : Stays(t)
<1>1. ASSUME AInv, AInv', [ANext]_avars PROVE [Step]_avars
  <2>0. IInv /\ Pinned /\ HeldIsServer
    BY <1>1 DEF AInv
  <2>1. ASSUME ANext PROVE \A u \in Thread \ Servers : Known(u) => core_affinity'[u] = core_affinity[u]
    <3>1. PICK c \in Cpu : \/ ((Call(c) /\ ~ Calling(c)) \/ Continue(c)) /\ UNCHANGED <<ask, gone>>
                           \/ \E u \in Asked : AskBegin(c, u)
                           \/ AskNext(c)
      BY <2>1 DEF ANext
    <3>2. CASE Call(c) \/ Continue(c)
      <4>1. Steady
        BY <2>0, <3>2, SchedSteady
      <4> QED
        BY <4>1 DEF Steady
    <3>3. CASE (\E u \in Asked : AskBegin(c, u)) \/ AskNext(c)
      BY <3>3 DEF AskBegin, AskNext, vars
    <3> QED
      BY <3>1, <3>2, <3>3
  <2>2. Pinned'
    BY <1>1 DEF AInv
  <2>3. ANext => Step
    BY <2>1, <2>2 DEF Pinned
  <2> QED
    BY <1>1, <2>3
<1>2. AInv /\ AInv' /\ [ANext]_avars => [Step]_avars
  BY <1>1
<1> QED
  BY <1>2, AliveInit, AliveInductive, PTL DEF ASpec, StaysOnCpu
=============================================================================
