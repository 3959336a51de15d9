-------------------------------- MODULE Sched --------------------------------
(***************************************************************************)
(* The scheduler of src/kernel/sched.c as it is written: run queues and    *)
(* sleep queues are the linked lists (sequences, head first), slices and   *)
(* ageing counters count, new threads go round the CPUs, and a handoff     *)
(* scans the CPUs one by one.  It implements SchedCore.                    *)
(*                                                                         *)
(* Time: interrupt 0x20 increments global_ticks on whatever CPU takes it,  *)
(* from the timer or from sched_yield.  Only differences of ticks are ever *)
(* looked at, so the model keeps what is left of each sleep (wait) and how *)
(* long ago a CPU last aged its threads (age) instead of the clock.        *)
(***************************************************************************)
EXTENDS Naturals, SequencesExt

CONSTANTS
  NCpu, Thread, IdleOf, FirstTid, Shell, Servers, MaxPriority, None,  \* see SchedCore
  SliceUnit,     \* ticks per slice and level: 2
  AgePeriod,     \* ticks between two ageing passes: 20
  AgeLimit,      \* passes a thread waits through before it rises: 19
  MaxWait,       \* longest sleep, in ticks
  Sleepers       \* the threads that call sched_sleep

Cpu == 0 .. NCpu - 1
Priority == 0 .. MaxPriority
Idle == {IdleOf[c] : c \in Cpu}

ASSUME SchedAssumption ==
  /\ SliceUnit \in Nat \ {0} /\ AgePeriod \in Nat \ {0} /\ AgeLimit \in Nat \ {0}
  /\ MaxWait \in Nat
  /\ Sleepers \subseteq Thread \ Idle

VARIABLES
  state, priority, core_affinity, sched_thread, inflight, stack, pc,  \* see SchedCore
  ready_queues,     \* lists
  sleep_queue,      \* lists
  ticks_remaining,  \* thread->ticks_remaining
  total_ticks,      \* thread->total_ticks: ageing passes waited through
  wait,             \* wakeup_tick - global_ticks, 0 when due
  age,              \* global_ticks - last_age_tick, up to AgePeriod
  next_cpu_index,
  scan              \* sched_handoff's tid and loop index

place == <<state, sched_thread, ready_queues, sleep_queue>>
clock == <<ticks_remaining, total_ticks, wait, age>>
vars == <<place, clock, priority, core_affinity, inflight, stack, pc,
          next_cpu_index, scan>>

NoScan == [tid |-> None, i |-> 0]
Slice(p) == (MaxPriority - p + 1) * SliceUnit
Clamp(p) == IF p > MaxPriority THEN MaxPriority ELSE p

(* No slice is longer than priority 0's, and total_ticks never passes the   *)
(* limit at which a thread rises (sched.c:161-163, 221).                    *)
CountersInRange ==
  /\ ready_queues \in [Cpu -> [Priority -> Seq(Thread)]]
  /\ sleep_queue \in [Cpu -> Seq(Thread)]
  /\ ticks_remaining \in [Thread -> 0 .. Slice(0)]
  /\ total_ticks \in [Thread -> 0 .. AgeLimit]
  /\ wait \in [Thread -> 0 .. MaxWait]
  /\ age \in [Cpu -> 0 .. AgePeriod]
  /\ next_cpu_index \in Cpu
  /\ scan \in [Cpu -> [tid : Servers \cup {None}, i : Cpu]]

Init ==
  /\ state = [t \in Thread |-> IF t \in Idle THEN "RUNNING" ELSE "NEW"]
  /\ priority = [t \in Thread |-> 0]
  /\ core_affinity = [t \in Thread |-> 0]
  /\ sched_thread = IdleOf
  /\ ready_queues = [c \in Cpu |-> [p \in Priority |-> <<>>]]
  /\ sleep_queue = [c \in Cpu |-> <<>>]
  /\ inflight = [c \in Cpu |-> None]
  /\ stack = IdleOf
  /\ pc = [c \in Cpu |-> "run"]
  /\ ticks_remaining = [t \in Thread |-> 0]
  /\ total_ticks = [t \in Thread |-> 0]
  /\ wait = [t \in Thread |-> 0]
  /\ age \in [Cpu -> 0 .. AgePeriod]
  /\ next_cpu_index = 0
  /\ scan = [c \in Cpu |-> NoScan]

-----------------------------------------------------------------------------
Executing(c) == pc[c] = "run" /\ state[sched_thread[c]] = "RUNNING"
Goto(c, point) == pc' = [pc EXCEPT ![c] = point]
Push(c, p, t) == ready_queues' = [ready_queues EXCEPT ![c][p] = <<t>> \o @]

Spawner(c, t) == IF t = Shell THEN c = 0 /\ sched_thread[c] = IdleOf[c]
                              ELSE sched_thread[c] \notin Idle

SpawnTid(c, t, p) ==
  /\ Executing(c)
  /\ Spawner(c, t)
  /\ state[t] = "NEW"
  /\ state' = [state EXCEPT ![t] = "READY"]
  /\ priority' = [priority EXCEPT ![t] = Clamp(p)]
  /\ ticks_remaining' = [ticks_remaining EXCEPT ![t] = Slice(Clamp(p))]
  /\ core_affinity' = [core_affinity EXCEPT ![t] = next_cpu_index]
  /\ next_cpu_index' = (next_cpu_index + 1) % NCpu
  /\ inflight' = [inflight EXCEPT ![c] = t]
  /\ Goto(c, "push")
  /\ UNCHANGED <<sched_thread, ready_queues, sleep_queue, stack, total_ticks, wait, age, scan>>

SpawnPush(c) ==
  /\ pc[c] = "push"
  /\ Push(core_affinity[inflight[c]], priority[inflight[c]], inflight[c])
  /\ inflight' = [inflight EXCEPT ![c] = None]
  /\ Goto(c, "run")
  /\ UNCHANGED <<state, sched_thread, sleep_queue, clock, priority, core_affinity, stack,
                 next_cpu_index, scan>>

(* sched_sleep for n ticks (ms / 10), and sched_exit. *)
Sleep(c, n) ==
  /\ Executing(c)
  /\ sched_thread[c] \in Sleepers
  /\ state' = [state EXCEPT ![sched_thread[c]] = "SLEEPING"]
  /\ wait' = [wait EXCEPT ![sched_thread[c]] = n]
  /\ UNCHANGED <<sched_thread, ready_queues, sleep_queue, ticks_remaining, total_ticks, age,
                 priority, core_affinity, inflight, stack, pc, next_cpu_index, scan>>

Exit(c) ==
  /\ Executing(c)
  /\ sched_thread[c] \notin Idle \cup {Shell}
  /\ state' = [state EXCEPT ![sched_thread[c]] = "DEAD"]
  /\ UNCHANGED <<sched_thread, ready_queues, sleep_queue, clock, priority, core_affinity,
                 inflight, stack, pc, next_cpu_index, scan>>

(* sched_handoff: interrupts go off, the loop over the CPUs starts. *)
HandoffBegin(c, t) ==
  /\ Executing(c)
  /\ sched_thread[c] \notin Idle
  /\ t \in Servers /\ state[t] # "NEW"
  /\ scan' = [scan EXCEPT ![c] = [tid |-> t, i |-> 0]]
  /\ Goto(c, "scan")
  /\ UNCHANGED <<place, clock, priority, core_affinity, inflight, stack, next_cpu_index>>

\* Mutant: the target is found and not unlinked.
HandoffScanLinked(c) ==
  LET t == scan[c].tid IN
  /\ pc[c] = "scan"
  /\ \E i \in Cpu, p \in Priority : Contains(ready_queues[i][p], t)
  /\ inflight' = [inflight EXCEPT ![c] = t]
  /\ scan' = [scan EXCEPT ![c] = NoScan]
  /\ Goto(c, "insert")
  /\ UNCHANGED <<place, clock, priority, core_affinity, stack, next_cpu_index>>

(* One round of the loop: every ready queue of CPU i, highest first. *)
HandoffScan(c) ==
  LET t == scan[c].tid
      i == scan[c].i
      Has(p) == Contains(ready_queues[i][p], t)
  IN /\ pc[c] = "scan"
     /\ \/ \E p \in Priority :
             /\ Has(p)
             /\ ready_queues' = [ready_queues EXCEPT ![i][p] = RemoveFirst(@, t)]
             /\ inflight' = [inflight EXCEPT ![c] = t]
             /\ scan' = [scan EXCEPT ![c] = NoScan]
             /\ Goto(c, "insert")
        \/ /\ ~ \E p \in Priority : Has(p)
           /\ IF i < NCpu - 1
              THEN scan' = [scan EXCEPT ![c].i = i + 1] /\ UNCHANGED pc
              ELSE scan' = [scan EXCEPT ![c] = NoScan] /\ Goto(c, "run")
           /\ UNCHANGED <<ready_queues, inflight>>
     /\ UNCHANGED <<state, sched_thread, sleep_queue, clock, priority, core_affinity, stack,
                    next_cpu_index>>

HandoffInsert(c) ==
  /\ pc[c] = "insert"
  /\ priority' = [priority EXCEPT ![inflight[c]] = MaxPriority]
  /\ core_affinity' = [core_affinity EXCEPT ![inflight[c]] = c]
  /\ Push(c, MaxPriority, inflight[c])
  /\ inflight' = [inflight EXCEPT ![c] = None]
  /\ Goto(c, "yield")
  /\ UNCHANGED <<state, sched_thread, sleep_queue, clock, stack, next_cpu_index, scan>>

-----------------------------------------------------------------------------
(* apic_timer_handler.  global_ticks++ is not atomic: with several CPUs an  *)
(* increment may be lost (k = 0).                                           *)
TickSteps == IF NCpu = 1 THEN {1} ELSE {0, 1}

\* Mutant: the last tick is never taken off.
TickedShort(n, k) == IF n <= k THEN n ELSE n - k

Ticked(n, k) == IF n < k THEN 0 ELSE n - k
Elapsed(c, k) == IF age[c] + k > AgePeriod THEN AgePeriod ELSE age[c] + k

(* The wake-up pass: each due sleeper is pushed on the head of its queue.   *)
Due(c, w) == SelectSeq(sleep_queue[c], LAMBDA t : w[t] = 0)
NotDue(c, w) == SelectSeq(sleep_queue[c], LAMBDA t : w[t] # 0)
WakeQueues(c, w) ==
  [p \in Priority |->
     Reverse(SelectSeq(Due(c, w), LAMBDA t : priority[t] = p)) \o ready_queues[c][p]]

(* sched_age_threads: queues are visited upwards, so a thread that rises is *)
(* met again, at the head of the next queue, and its counter starts at 1;   *)
(* the top queue is not visited.                                            *)
Visited(q, t) == t # FirstTid /\ \E p \in Priority : p < MaxPriority /\ Contains(q[p], t)
Ripe(t) == t # FirstTid /\ total_ticks[t] + 1 > AgeLimit
Rising(q, p) == IF p = 0 THEN <<>> ELSE Reverse(SelectSeq(q[p - 1], Ripe))
AgeQueues(q) ==
  [p \in Priority |->
     Rising(q, p) \o (IF p = MaxPriority THEN q[p] ELSE SelectSeq(q[p], LAMBDA t : ~ Ripe(t)))]

\* Mutant: an aged thread changes queues and keeps its priority.
AgePriorityKept(q) == priority

AgePriority(q) ==
  [t \in Thread |-> IF Visited(q, t) /\ Ripe(t) THEN priority[t] + 1 ELSE priority[t]]

\* Mutant: total_ticks is not counted up.
AgeTotalStuck(q) == total_ticks

AgeTotal(q) ==
  [t \in Thread |-> IF ~ Visited(q, t) THEN total_ticks[t]
                    ELSE IF ~ Ripe(t) THEN total_ticks[t] + 1
                    ELSE IF priority[t] + 1 < MaxPriority THEN 1 ELSE 0]

Retired(t) ==
  CASE state[t] = "RUNNING" -> "READY"
    [] state[t] = "DEAD" /\ priority[t] # 0 -> "FREED"
    [] OTHER -> state[t]

(* The head of the highest queue is taken if it outranks the current        *)
(* thread, equals it and the slice is over, or the current thread stopped.  *)
TopOf(q) == {p \in Priority : q[p] # <<>> /\ \A r \in Priority : r > p => q[r] = <<>>}

Preempts(p, current, slice) ==
  p > priority[current] \/ (p = priority[current] /\ slice = 0) \/ state[current] # "RUNNING"

SwitchTo(c, q, p, sl, slice, w) ==
  LET current == sched_thread[c]
      next == Head(q[p])
      rest == [q EXCEPT ![p] = Tail(@)]
      woken == {t \in ToSet(sleep_queue[c]) : w[t] = 0}
  IN /\ ready_queues' = [ready_queues EXCEPT ![c] =
          IF state[current] = "RUNNING"
          THEN [rest EXCEPT ![priority[current]] = Append(@, current)] ELSE rest]
     /\ sleep_queue' = [sleep_queue EXCEPT ![c] =
          IF state[current] = "SLEEPING" THEN <<current>> \o sl ELSE sl]
     /\ ticks_remaining' = [ticks_remaining EXCEPT ![current] =
          IF state[current] = "RUNNING" THEN Slice(priority[current]) ELSE slice]
     /\ state' = [t \in Thread |-> IF t = next THEN "RUNNING"
                                   ELSE IF t = current THEN Retired(t)
                                   ELSE IF t \in woken THEN "READY" ELSE state[t]]
     /\ sched_thread' = [sched_thread EXCEPT ![c] = next]
     /\ Goto(c, "switch")

Stay(c, q, sl, slice, w) ==
  LET woken == {t \in ToSet(sleep_queue[c]) : w[t] = 0} IN
  /\ ready_queues' = [ready_queues EXCEPT ![c] = q]
  /\ sleep_queue' = [sleep_queue EXCEPT ![c] = sl]
  /\ ticks_remaining' = [ticks_remaining EXCEPT ![sched_thread[c]] = slice]
  /\ state' = [t \in Thread |-> IF t \in woken THEN "READY" ELSE state[t]]
  /\ Goto(c, "run")
  /\ UNCHANGED sched_thread

(* Interrupt 0x20: apic_timer_handler, then sched_reschedule. *)
TimerInterrupt(c, k) ==
  /\ pc[c] \in {"run", "yield"}
  /\ LET current == sched_thread[c]
         w == [t \in Thread |-> Ticked(wait[t], k)]
         q1 == WakeQueues(c, w)
         slice == Ticked(ticks_remaining[current], 1)
         aging == Elapsed(c, k) = AgePeriod
         q2 == IF aging THEN AgeQueues(q1) ELSE q1
         top == {p \in TopOf(q2) : Preempts(p, current, slice)}
     IN /\ wait' = w
        /\ age' = [d \in Cpu |-> IF d = c /\ aging THEN 0 ELSE Elapsed(d, k)]
        /\ priority' = IF aging THEN AgePriority(q1) ELSE priority
        /\ total_ticks' = IF aging THEN AgeTotal(q1) ELSE total_ticks
        /\ IF top = {}
           THEN Stay(c, q2, NotDue(c, w), slice, w)
           ELSE \E p \in top : SwitchTo(c, q2, p, NotDue(c, w), slice, w)
  /\ UNCHANGED <<core_affinity, inflight, stack, next_cpu_index, scan>>

Reschedule(c) == \E k \in TickSteps : TimerInterrupt(c, k)

SwitchStack(c) ==
  /\ pc[c] = "switch"
  /\ stack' = [stack EXCEPT ![c] = sched_thread[c]]
  /\ Goto(c, "run")
  /\ UNCHANGED <<place, clock, priority, core_affinity, inflight, next_cpu_index, scan>>

-----------------------------------------------------------------------------
Call(c) ==
  \/ \E t \in Thread, p \in 0 .. MaxPriority + 1 : SpawnTid(c, t, p)
  \/ \E n \in 0 .. MaxWait : Sleep(c, n)
  \/ Exit(c)
  \/ \E t \in Servers : HandoffBegin(c, t)

Continue(c) ==
  SpawnPush(c) \/ HandoffScan(c) \/ HandoffInsert(c) \/ Reschedule(c) \/ SwitchStack(c)

Next == \E c \in Cpu : Call(c) \/ Continue(c)

Spec == Init /\ [][Next]_vars

(* The timer is periodic and interrupts are only off for bounded stretches, *)
(* so each CPU keeps taking interrupt 0x20 and finishes what it began.  An  *)
(* increment of global_ticks is lost only to another CPU's increment.       *)
Fairness ==
  \A c \in Cpu : /\ WF_vars(SpawnPush(c)) /\ WF_vars(HandoffScan(c))
                 /\ WF_vars(HandoffInsert(c)) /\ WF_vars(SwitchStack(c))
                 /\ SF_vars(TimerInterrupt(c, 1))
FairSpec == Spec /\ Fairness

-----------------------------------------------------------------------------
(* The lists as sets; while a handoff scans, its thread is still running.   *)
Core == INSTANCE SchedCore WITH
  ready_queues <- [c \in Cpu |-> [p \in Priority |-> ToSet(ready_queues[c][p])]],
  sleep_queue <- [c \in Cpu |-> ToSet(sleep_queue[c])],
  pc <- [c \in Cpu |-> IF pc[c] = "scan" THEN "run" ELSE pc[c]]

(* The lists, counters and scans of sched.c do nothing the abstract         *)
(* scheduler does not allow; what is proved of it holds here.               *)
CoreSpec == Core!Spec

(* No list ever holds a thread twice: a second insertion would make the     *)
(* list a cycle and the walks of sched.c:159, 192, 227, 393 endless.  And   *)
(* the counters stay in range through all the passes over those lists.      *)
ListsSound ==
  /\ CountersInRange
  /\ \A c \in Cpu : /\ IsInjective(sleep_queue[c])
                    /\ \A p \in Priority : IsInjective(ready_queues[c][p])

(* Nobody starves: a ready thread other than an idle one runs again         *)
(* (sched.c:151-177, the ageing that schedtest's stage 6 is about).         *)
StarvationFree ==
  \A t \in Thread \ Idle : state[t] = "READY" ~> state[t] = "RUNNING"

(* Every sleep ends (sched.c:192-205). *)
SleepEnds == \A t \in Thread : state[t] = "SLEEPING" ~> state[t] # "SLEEPING"
=============================================================================
