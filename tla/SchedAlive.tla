----------------------------- MODULE SchedAlive -----------------------------
(***************************************************************************)
(* sched_is_alive (src/kernel/sched.c:287-325) beside the scheduler.  It   *)
(* looks at one CPU at a time, under that CPU's lock; between two CPUs     *)
(* interrupts are on and everything may change.  Threads wait for others   *)
(* by calling it in a loop (ringtest, shell.c:115-135).                    *)
(***************************************************************************)
EXTENDS SchedCore

CONSTANTS
  Askers,  \* the threads that call sched_is_alive
  Asked    \* the tids they ask for, as ringtest asks for the threads it has spawned

ASSUME AskAssumption == Askers \subseteq Thread \ Idle /\ Asked \subseteq Thread

VARIABLES
  ask,    \* ask[t]: the call thread t is in, the tid asked for and the next CPU index
  gone    \* the tids for which some call has returned 0

avars == <<vars, ask, gone>>

NoCall == [tid |-> None, i |-> 0]

(* The index of a call's loop names a CPU (sched.c:288). *)
AliveTypeOK ==
  /\ TypeOK
  /\ ask \in [Thread -> [tid : Thread \cup {None}, i : Cpu]]
  /\ gone \subseteq Thread

AInit == Init /\ ask = [t \in Thread |-> NoCall] /\ gone = {}

Calling(c) == ask[sched_thread[c]].tid # None

(* A tid is known once sched_spawn has returned it. *)
Known(u) == state[u] # "NEW" /\ \A d \in Cpu : ~ (inflight[d] = u /\ pc[d] = "push")

AskBegin(c, u) ==
  /\ Executing(c) /\ sched_thread[c] \in Askers
  /\ ~ Calling(c)
  /\ Known(u)
  /\ ask' = [ask EXCEPT ![sched_thread[c]] = [tid |-> u, i |-> 0]]
  /\ UNCHANGED <<vars, gone>>

\* Mutant: the sleep queue is not searched.
FoundOnAwake(i, u) == sched_thread[i] = u \/ Queued(i, u)

(* One round of the loop: the current thread, the ready queues and the      *)
(* sleep queue of CPU i.                                                    *)
FoundOn(i, u) == sched_thread[i] = u \/ Queued(i, u) \/ u \in sleep_queue[i]

AskNext(c) ==
  LET me == sched_thread[c]
      u == ask[me].tid
      i == ask[me].i
      Return == ask' = [ask EXCEPT ![me] = NoCall]
  IN /\ Executing(c) /\ Calling(c)
     /\ \/ FoundOn(i, u) /\ Return /\ UNCHANGED gone
        \/ ~ FoundOn(i, u) /\ i < NCpu - 1
             /\ ask' = [ask EXCEPT ![me].i = i + 1] /\ UNCHANGED gone
        \/ ~ FoundOn(i, u) /\ i = NCpu - 1
             /\ Return /\ gone' = gone \cup {u}
     /\ UNCHANGED vars

(* A thread inside sched_is_alive makes no other call, but interrupts go on *)
(* switching it out and in.                                                 *)
ANext ==
  \E c \in Cpu :
    \/ ((Call(c) /\ ~ Calling(c)) \/ Continue(c)) /\ UNCHANGED <<ask, gone>>
    \/ \E u \in Asked : AskBegin(c, u)
    \/ AskNext(c)

ASpec == AInit /\ [][ANext]_avars

-----------------------------------------------------------------------------
(* Where a thread that is not a server was put is where it stays            *)
(* (sched.c:92, 140, 412): core_affinity names its CPU all its life.  The   *)
(* idle threads are at home instead; their core_affinity is never set.      *)
Pinned ==
  \A t \in Thread \ Idle : \A c \in Cpu : FoundOn(c, t) => core_affinity[t] = c

(* A thread that owns no port never leaves the CPU it was spawned on, from  *)
(* the moment its spawner has queued it until it is freed: no wake-up,      *)
(* ageing or switch moves it, and a handoff, which lets go of all locks     *)
(* halfway, only ever moves a server (sched.c:92, 199, 387-416).  What such *)
(* a thread has read of its CPU stays true (sched_get_tid, sched.c:283).    *)
StaysOnCpu ==
  [][\A t \in Thread \ (Servers \cup Idle) :
       Known(t) => /\ core_affinity'[t] = core_affinity[t]
                   /\ \A c \in Cpu : FoundOn(c, t)' => c = core_affinity[t]]_avars

(* sched_is_alive may be trusted when it answers 0 about a thread no        *)
(* handoff can move: the thread has exited and has been switched out, even  *)
(* though the CPUs were looked at one by one while threads were spawned,    *)
(* woken, aged and switched.                                                *)
DeadIsDead ==
  \A u \in gone \ (Servers \cup Idle) :
    state[u] \in {"DEAD", "FREED"} /\ \A c \in Cpu : sched_thread[c] # u

(* A call that has passed a thread's CPU without finding it asks for a      *)
(* thread that is gone.                                                     *)
PassedIsDead ==
  \A t \in Thread :
    LET u == ask[t].tid IN
    u # None /\ u \notin Servers \cup Idle /\ core_affinity[u] < ask[t].i =>
      state[u] \in {"DEAD", "FREED"} /\ \A c \in Cpu : sched_thread[c] # u

(* A thread once asked about has been put on a run queue. *)
AskedIsKnown == \A t \in Thread : ask[t].tid # None => Known(ask[t].tid)

(* Only a server is ever between the two halves of a handoff. *)
HeldIsServer == \A c \in Cpu : pc[c] = "insert" => inflight[c] \in Servers

(* The inductive invariant of sched_is_alive (sched.c:287-325). *)
AInv ==
  /\ IInv
  /\ AliveTypeOK
  /\ Pinned
  /\ HeldIsServer
  /\ AskedIsKnown
  /\ PassedIsDead
  /\ DeadIsDead
=============================================================================
