----------------------------- MODULE SchedCore -----------------------------
(***************************************************************************)
(* The scheduler of src/kernel/sched.c with its timing left open: which    *)
(* sleepers are due, which waiters have aged enough and whether a slice is *)
(* used up are free choices here.  Run queues are sets, so this is what    *)
(* the scheduler promises whatever the order inside a queue; module Sched  *)
(* has the lists, slices and counters and implements this specification.   *)
(*                                                                         *)
(* A section the code runs with interrupts off and a CPU's sched_lock held *)
(* is one action.  Between two such sections the CPU's control point is    *)
(* pc[c]; only in "run" are interrupts on, so only there can the timer     *)
(* interrupt (Reschedule) hit it.                                          *)
(***************************************************************************)
EXTENDS Naturals

CONSTANTS
  NCpu,          \* cpu_get_count(): CPUs are the indices 0 .. NCpu-1 of cpus[]
  Thread,        \* every tid that may ever be handed out
  IdleOf,        \* IdleOf[c] is the thread sched_init makes on CPU c
  FirstTid,      \* the thread with tid 1, which ageing skips
  Shell,         \* the thread kmain spawns; shell_run never returns
  Servers,       \* threads that own an ALPC port: the only targets of a handoff
  MaxPriority,   \* MAX_PRIORITY (31)
  None           \* the NULL thread pointer

Cpu == 0 .. NCpu - 1
Priority == 0 .. MaxPriority
Idle == {IdleOf[c] : c \in Cpu}

ASSUME CoreAssumption ==
  /\ NCpu \in Nat \ {0}
  /\ MaxPriority \in Nat
  /\ None \notin Thread
  /\ IdleOf \in [Cpu -> Thread]
  /\ \A c, d \in Cpu : IdleOf[c] = IdleOf[d] => c = d
  /\ Shell \in Thread \ Idle
  /\ Servers \subseteq Thread \ Idle

VARIABLES
  state,          \* thread_state_t, with NEW before the spawn and FREED after the kfree
  priority,       \* thread->priority
  core_affinity,  \* thread->core_affinity
  sched_thread,   \* cpu->sched_thread
  ready_queues,   \* cpu->ready_queues[p], as a set
  sleep_queue,    \* cpu_extras[].sleep_queue, as a set
  inflight,       \* the thread a spawn or a handoff on this CPU has in its hands
  stack,          \* the thread whose kernel stack the CPU executes on
  pc              \* control point of the CPU

vars == <<state, priority, core_affinity, sched_thread, ready_queues,
          sleep_queue, inflight, stack, pc>>

States == {"NEW", "READY", "RUNNING", "SLEEPING", "DEAD", "FREED"}
Points == {"run", "push", "insert", "yield", "switch"}

(* Priorities index the 32 queues, and every pointer names a thread         *)
(* (sched.h:6-38, cpu.h:11-21).                                             *)
TypeOK ==
  /\ state \in [Thread -> States]
  /\ priority \in [Thread -> Priority]
  /\ core_affinity \in [Thread -> Cpu]
  /\ sched_thread \in [Cpu -> Thread]
  /\ ready_queues \in [Cpu -> [Priority -> SUBSET Thread]]
  /\ sleep_queue \in [Cpu -> SUBSET Thread]
  /\ inflight \in [Cpu -> Thread \cup {None}]
  /\ stack \in [Cpu -> Thread]
  /\ pc \in [Cpu -> Points]

-----------------------------------------------------------------------------
(* Every CPU has been through sched_init: its idle thread runs, its queues  *)
(* are empty.  core_affinity is left at the zero of the memset.             *)
Init ==
  /\ state = [t \in Thread |-> IF t \in Idle THEN "RUNNING" ELSE "NEW"]
  /\ priority = [t \in Thread |-> 0]
  /\ core_affinity = [t \in Thread |-> 0]
  /\ sched_thread = IdleOf
  /\ ready_queues = [c \in Cpu |-> [p \in Priority |-> {}]]
  /\ sleep_queue = [c \in Cpu |-> {}]
  /\ inflight = [c \in Cpu |-> None]
  /\ stack = IdleOf
  /\ pc = [c \in Cpu |-> "run"]

(* The current thread of c is executing its own code, interrupts on. *)
Executing(c) == pc[c] = "run" /\ state[sched_thread[c]] = "RUNNING"

Goto(c, point) == pc' = [pc EXCEPT ![c] = point]

Insert(c, p, t) ==
  ready_queues' = [ready_queues EXCEPT ![c] =
                     [r \in Priority |-> IF r = p THEN @[r] \cup {t} ELSE @[r]]]

Clamp(p) == IF p > MaxPriority THEN MaxPriority ELSE p

(* The idle loops of kmain and smp_ap_entry call nothing of the scheduler,  *)
(* except for the one spawn of the shell on the boot CPU, cpus[0].          *)
Spawner(c, t) == IF t = Shell THEN c = 0 /\ sched_thread[c] = IdleOf[c]
                              ELSE sched_thread[c] \notin Idle

(* sched_spawn and sched_spawn_user up to the end of the global_sched_lock  *)
(* section and the filling in of the new thread: it has a tid and a target  *)
(* CPU and is on no queue.                                                  *)
SpawnTid(c, t, p, d) ==
  /\ Executing(c)
  /\ Spawner(c, t)
  /\ state[t] = "NEW"
  /\ state' = [state EXCEPT ![t] = "READY"]
  /\ priority' = [priority EXCEPT ![t] = Clamp(p)]
  /\ core_affinity' = [core_affinity EXCEPT ![t] = d]
  /\ inflight' = [inflight EXCEPT ![c] = t]
  /\ Goto(c, "push")
  /\ UNCHANGED <<sched_thread, ready_queues, sleep_queue, stack>>

(* The rest of the spawn: the push under the target CPU's sched_lock. *)
SpawnPush(c) ==
  /\ pc[c] = "push"
  /\ Insert(core_affinity[inflight[c]], priority[inflight[c]], inflight[c])
  /\ inflight' = [inflight EXCEPT ![c] = None]
  /\ Goto(c, "run")
  /\ UNCHANGED <<state, priority, core_affinity, sched_thread, sleep_queue, stack>>

(* sched_sleep and sched_exit: the cli section that marks the current       *)
(* thread.  What follows in both is an interrupt 0x20, taken by Reschedule. *)
Mark(c, s) ==
  /\ Executing(c)
  /\ sched_thread[c] \notin Idle
  /\ state' = [state EXCEPT ![sched_thread[c]] = s]
  /\ UNCHANGED <<priority, core_affinity, sched_thread, ready_queues,
                 sleep_queue, inflight, stack, pc>>

Sleep(c) == Mark(c, "SLEEPING")

Exit(c) == sched_thread[c] # Shell /\ Mark(c, "DEAD")

\* Mutant: the target is not unlinked from the queue it was found in.
HandoffTakeLinked(c, d, p, t) ==
  /\ Executing(c)
  /\ sched_thread[c] \notin Idle
  /\ t \in Servers \cap ready_queues[d][p]
  /\ inflight' = [inflight EXCEPT ![c] = t]
  /\ Goto(c, "insert")
  /\ UNCHANGED <<state, priority, core_affinity, sched_thread, ready_queues, sleep_queue, stack>>

\* Mutant: handing off to the sender of a message instead of the port's server.
HandoffTakeSender(c, d, p, t) ==
  /\ Executing(c)
  /\ sched_thread[c] \notin Idle
  /\ t \in ready_queues[d][p] \ Idle
  /\ ready_queues' = [ready_queues EXCEPT ![d][p] = @ \ {t}]
  /\ inflight' = [inflight EXCEPT ![c] = t]
  /\ Goto(c, "insert")
  /\ UNCHANGED <<state, priority, core_affinity, sched_thread, sleep_queue, stack>>

(* sched_handoff, first half: the scan finds the target in a ready queue of *)
(* CPU d and unlinks it under d's lock.                                     *)
HandoffTake(c, d, p, t) ==
  /\ Executing(c)
  /\ sched_thread[c] \notin Idle
  /\ t \in Servers \cap ready_queues[d][p]
  /\ ready_queues' = [ready_queues EXCEPT ![d][p] = @ \ {t}]
  /\ inflight' = [inflight EXCEPT ![c] = t]
  /\ Goto(c, "insert")
  /\ UNCHANGED <<state, priority, core_affinity, sched_thread, sleep_queue, stack>>

\* Mutant: target->core_affinity is not updated.
HandoffInsertStray(c) ==
  /\ pc[c] = "insert"
  /\ priority' = [priority EXCEPT ![inflight[c]] = MaxPriority]
  /\ Insert(c, MaxPriority, inflight[c])
  /\ inflight' = [inflight EXCEPT ![c] = None]
  /\ Goto(c, "yield")
  /\ UNCHANGED <<state, core_affinity, sched_thread, sleep_queue, stack>>

(* sched_handoff, second half: under this CPU's lock the target becomes the *)
(* head of the top queue; then the int $32 of sched_yield is due.           *)
HandoffInsert(c) ==
  /\ pc[c] = "insert"
  /\ priority' = [priority EXCEPT ![inflight[c]] = MaxPriority]
  /\ core_affinity' = [core_affinity EXCEPT ![inflight[c]] = c]
  /\ Insert(c, MaxPriority, inflight[c])
  /\ inflight' = [inflight EXCEPT ![c] = None]
  /\ Goto(c, "yield")
  /\ UNCHANGED <<state, sched_thread, sleep_queue, stack>>

-----------------------------------------------------------------------------
(* sched_reschedule, in the order of the code: W is the set of sleepers     *)
(* woken, A the set of waiters aged, then the top queue is looked at.       *)
Woken(c, W) == [p \in Priority |-> ready_queues[c][p] \cup {t \in W : priority[t] = p}]

Ageable(c, W) ==
  {t \in Thread \ {FirstTid} :
     \E p \in Priority : p < MaxPriority /\ t \in Woken(c, W)[p]}

Bumped(A) ==
  [t \in Thread |-> IF t \in A /\ priority[t] < MaxPriority
                    THEN priority[t] + 1 ELSE priority[t]]

\* Mutant: an aged thread that reaches the top is unlinked and not put back.
AgedDropped(c, W, A) ==
  [p \in Priority |-> (Woken(c, W)[p] \ A)
                        \cup {t \in A : Bumped(A)[t] = p /\ p < MaxPriority}]

Aged(c, W, A) ==
  [p \in Priority |-> (Woken(c, W)[p] \ A) \cup {t \in A : Bumped(A)[t] = p}]

IsTop(q, p) == q[p] # {} /\ \A r \in Priority : r > p => q[r] = {}

(* What becomes of a current thread that is switched out.  A thread that    *)
(* dies at priority 0 is never freed.                                       *)
Retired(t) ==
  CASE state[t] = "RUNNING" -> "READY"
    [] state[t] = "DEAD" /\ priority[t] # 0 -> "FREED"
    [] OTHER -> state[t]

Switch(c, W, q, p, n) ==
  LET current == sched_thread[c] IN
  /\ IsTop(q, p) /\ n \in q[p]
  /\ p >= priority[current] \/ state[current] # "RUNNING"
  /\ ready_queues' = [ready_queues EXCEPT ![c] =
       [r \in Priority |->
          (IF r = p THEN q[r] \ {n} ELSE q[r])
            \cup {t \in {current} : state[t] = "RUNNING" /\ r = priority[t]}]]
  /\ sleep_queue' = [sleep_queue EXCEPT ![c] =
       (@ \ W) \cup {t \in {current} : state[t] = "SLEEPING"}]
  /\ state' = [t \in Thread |-> IF t = n THEN "RUNNING"
                                ELSE IF t = current THEN Retired(t)
                                ELSE IF t \in W THEN "READY" ELSE state[t]]
  /\ sched_thread' = [sched_thread EXCEPT ![c] = n]
  /\ Goto(c, "switch")

\* Mutant: a thread that is not RUNNING any more is not replaced.
StayStopped(c, W, q) ==
  /\ \A p \in Priority : q[p] # {} => p <= priority[sched_thread[c]]
  /\ ready_queues' = [ready_queues EXCEPT ![c] = q]
  /\ sleep_queue' = [sleep_queue EXCEPT ![c] = @ \ W]
  /\ state' = [t \in Thread |-> IF t \in W THEN "READY" ELSE state[t]]
  /\ Goto(c, "run")
  /\ UNCHANGED sched_thread

\* Mutant: a running thread keeps the CPU whatever the priorities.
StayRunning(c, W, q) ==
  /\ state[sched_thread[c]] = "RUNNING" \/ \A p \in Priority : q[p] = {}
  /\ ready_queues' = [ready_queues EXCEPT ![c] = q]
  /\ sleep_queue' = [sleep_queue EXCEPT ![c] = @ \ W]
  /\ state' = [t \in Thread |-> IF t \in W THEN "READY" ELSE state[t]]
  /\ Goto(c, "run")
  /\ UNCHANGED sched_thread

(* Nothing is ready, or nothing that may take the CPU from its thread. *)
Stay(c, W, q) ==
  LET current == sched_thread[c] IN
  /\ \/ \A p \in Priority : q[p] = {}
     \/ /\ state[current] = "RUNNING"
        /\ \A p \in Priority : q[p] # {} => p <= priority[current]
  /\ ready_queues' = [ready_queues EXCEPT ![c] = q]
  /\ sleep_queue' = [sleep_queue EXCEPT ![c] = @ \ W]
  /\ state' = [t \in Thread |-> IF t \in W THEN "READY" ELSE state[t]]
  /\ Goto(c, "run")
  /\ UNCHANGED sched_thread

(* Interrupt 0x20, from the timer or from sched_yield. *)
Reschedule(c) ==
  /\ pc[c] \in {"run", "yield"}
  /\ \E W \in SUBSET sleep_queue[c] : \E A \in SUBSET Ageable(c, W) :
       /\ priority' = Bumped(A)
       /\ \/ \E p \in Priority, n \in Thread : Switch(c, W, Aged(c, W, A), p, n)
          \/ Stay(c, W, Aged(c, W, A))
  /\ UNCHANGED <<core_affinity, inflight, stack>>

(* isr_common_stub loads the rsp that sched_reschedule returned; until then *)
(* the CPU is still on the stack of the thread it switched away from.       *)
SwitchStack(c) ==
  /\ pc[c] = "switch"
  /\ stack' = [stack EXCEPT ![c] = sched_thread[c]]
  /\ Goto(c, "run")
  /\ UNCHANGED <<state, priority, core_affinity, sched_thread, ready_queues,
                 sleep_queue, inflight>>

(* The scheduler calls the code running on c may make. *)
Call(c) ==
  \/ \E t \in Thread, p \in 0 .. MaxPriority + 1, d \in Cpu : SpawnTid(c, t, p, d)
  \/ Sleep(c)
  \/ Exit(c)
  \/ \E d \in Cpu, p \in Priority, t \in Thread : HandoffTake(c, d, p, t)

(* What a call goes on to do, and interrupt 0x20. *)
Continue(c) == SpawnPush(c) \/ HandoffInsert(c) \/ Reschedule(c) \/ SwitchStack(c)

Next == \E c \in Cpu : Call(c) \/ Continue(c)

Spec == Init /\ [][Next]_vars

-----------------------------------------------------------------------------
(* The places a thread can be found in. *)
Places(t) ==
       {<<"current", c>> : c \in {d \in Cpu : sched_thread[d] = t}}
  \cup {<<"ready", c>> : c \in {d \in Cpu : \E p \in Priority : t \in ready_queues[d][p]}}
  \cup {<<"sleeping", c>> : c \in {d \in Cpu : t \in sleep_queue[d]}}
  \cup {<<"inflight", c>> : c \in {d \in Cpu : inflight[d] = t}}

Queued(c, t) == \E p \in Priority : t \in ready_queues[c][p]

(* A thread is never in two places: not current on two CPUs, not queued     *)
(* twice, not queued while it runs, whatever spawns, wake-ups, ageing and   *)
(* cross-CPU handoffs interleave (sched.c:94-97, 192-205, 210-247, 387-416).*)
OnePlace == \A t \in Thread : \A x, y \in Places(t) : x = y

(* No thread is lost: one that was spawned and has not exited is somewhere, *)
(* and one that is not there yet, or freed, is nowhere (sched.c:216-237,    *)
(* 394-416).                                                                *)
NotLost ==
  \A t \in Thread :
    /\ state[t] \in {"READY", "RUNNING", "SLEEPING"} => Places(t) # {}
    /\ state[t] \in {"NEW", "FREED"} => Places(t) = {}

(* A queue holds READY threads of its own priority only, so ageing, wake-up *)
(* and handoff keep thread->priority and the queue index together           *)
(* (sched.c:168-170, 198-200, 411-414).                                     *)
QueueMatches ==
  \A c \in Cpu, p \in Priority : \A t \in ready_queues[c][p] :
    state[t] = "READY" /\ priority[t] = p

(* Each CPU keeps its own idle thread, current or ready, so there is always *)
(* somebody to switch to.                                                   *)
IdleAtHome ==
  \A c \in Cpu : sched_thread[c] = IdleOf[c] \/ Queued(c, IdleOf[c])

(* The scheduler never goes back to a thread that asked to sleep or exited: *)
(* the fall-through of sched_reschedule (sched.c:252-254) only ever resumes *)
(* a RUNNING thread.                                                        *)
NeverResumesStopped ==
  [][\A c \in Cpu : state'[sched_thread'[c]] = "RUNNING" \/ ~ Reschedule(c)]_vars

(* After the timer interrupt no ready thread of this CPU outranks the       *)
(* thread it runs, the ones just woken or aged included.                    *)
PriorityRespected ==
  [][\A c \in Cpu :
       \/ \A p \in Priority : ready_queues'[c][p] # {} => p <= priority'[sched_thread'[c]]
       \/ ~ Reschedule(c)]_vars

(* Two CPUs execute on one kernel stack only if it belongs to a thread a    *)
(* handoff can move: between the unlock of sched_reschedule (sched.c:244)   *)
(* and the load of rsp (interrupt.asm:44) the old thread is queued while    *)
(* its stack is still in use.                                               *)
StackExclusive ==
  \A c, d \in Cpu : c # d /\ stack[c] = stack[d] => stack[c] \in Servers

(* A CPU is on a freed stack only inside that same window; the kfree of     *)
(* sched.c:233-237 never leaves a CPU running on freed memory after it.     *)
FreedOnlyInWindow ==
  \A c \in Cpu : state[stack[c]] = "FREED" => pc[c] = "switch"

(* No kernel stack is used by two CPUs, or used after it was freed, but for *)
(* the window between the unlock of sched_reschedule and the load of rsp    *)
(* (sched.c:233-244, interrupt.asm:44).                                     *)
StackSafe == StackExclusive /\ FreedOnlyInWindow

(* Only a thread that died at priority 0 keeps its memory for ever          *)
(* (sched.c:233).                                                           *)
LeakOnlyAtZero ==
  \A t \in Thread : state[t] = "DEAD" =>
    priority[t] = 0 \/ \E c \in Cpu : sched_thread[c] = t

-----------------------------------------------------------------------------
(* The inductive strengthening behind all of the above. *)

(* thread->state tells which kind of place the thread is in. *)
StateTellsPlace ==
  /\ \A c \in Cpu : state[sched_thread[c]] \in {"RUNNING", "SLEEPING", "DEAD"}
  /\ \A c \in Cpu : \A t \in sleep_queue[c] : state[t] = "SLEEPING"
  /\ \A c \in Cpu : inflight[c] # None => state[inflight[c]] = "READY"
  /\ \A c \in Cpu : state[IdleOf[c]] \in {"READY", "RUNNING"}
  /\ \A c \in Cpu : inflight[c] # None <=> pc[c] \in {"push", "insert"}

(* The cases of OnePlace that the states do not settle. *)
Exclusive ==
  /\ \A c, d \in Cpu : sched_thread[c] = sched_thread[d] => c = d
  /\ \A c, d \in Cpu : inflight[c] = inflight[d] /\ inflight[c] # None => c = d
  /\ \A c, d \in Cpu, t \in Thread : Queued(c, t) /\ Queued(d, t) => c = d
  /\ \A c, d \in Cpu, t \in Thread : t \in sleep_queue[c] /\ t \in sleep_queue[d] => c = d
  /\ \A c, d \in Cpu : sched_thread[c] \notin sleep_queue[d]
  /\ \A c, d \in Cpu : inflight[c] # None => ~ Queued(d, inflight[c])

(* The converse of StateTellsPlace. *)
Somewhere ==
  \A t \in Thread :
    /\ state[t] = "RUNNING" => \E c \in Cpu : sched_thread[c] = t
    /\ state[t] = "READY" => \E c \in Cpu : Queued(c, t) \/ inflight[c] = t
    /\ state[t] = "SLEEPING" => \E c \in Cpu : sched_thread[c] = t \/ t \in sleep_queue[c]

(* While a CPU is in the window its old thread cannot have gone anywhere    *)
(* unless it is a server.                                                   *)
StackAgrees ==
  \A c \in Cpu :
    IF pc[c] = "switch"
    THEN /\ state[sched_thread[c]] = "RUNNING"
         /\ stack[c] \notin Servers =>
              \/ Queued(c, stack[c])
              \/ stack[c] \in sleep_queue[c]
              \/ /\ state[stack[c]] \in {"DEAD", "FREED"}
                 /\ \A d \in Cpu : sched_thread[d] # stack[c]
    ELSE stack[c] = sched_thread[c]

(* The inductive invariant of the scheduler: a thread's state, its queue,   *)
(* the CPU it is current on and the stacks in use all agree (sched.c).      *)
IInv ==
  /\ TypeOK
  /\ QueueMatches
  /\ StateTellsPlace
  /\ Exclusive
  /\ Somewhere
  /\ IdleAtHome
  /\ LeakOnlyAtZero
  /\ StackAgrees
  /\ StackExclusive
=============================================================================
