------------------------------- MODULE Locks -------------------------------
(***************************************************************************)
(* The kernel's spinlocks and interrupt flag (src/kernel/lib.c:3-23) and   *)
(* what takes them: which locks a call takes, in which order, what it      *)
(* nests, and whether interrupts are off while it holds them.  An          *)
(* interrupt runs on top of the thread it hits and takes locks of its own. *)
(* The data the locks protect are the other modules'.                      *)
(***************************************************************************)
EXTENDS Naturals, Sequences

CONSTANTS
  NCpu,
  Thread,
  CpuOf,       \* CpuOf[t]: the CPU thread t is queued on
  Calls,       \* Calls[t]: the calls thread t makes
  None

Cpu == 0 .. NCpu - 1

(* What runs: threads, and interrupts on top of them. *)
Isr(c) == <<"isr", c>>
Context == Thread \cup {Isr(c) : c \in Cpu}

Call == {"key", "tasks", "alive", "spawn", "send", "recv", "create", "map"}

ASSUME LocksAssumption ==
  /\ NCpu \in Nat \ {0}
  /\ CpuOf \in [Thread -> Cpu]
  /\ \A c \in Cpu : \E t \in Thread : CpuOf[t] = c
  /\ Calls \in [Thread -> SUBSET Call]
  /\ \A c \in Cpu : Isr(c) \notin Thread
  /\ None \notin Context

SchedLock(c) == <<"sched", c>>
Lock == {SchedLock(c) : c \in Cpu}
          \cup {<<l, 0>> : l \in {"global_sched", "heap", "pmm", "console", "port", "section", "kbd",
                                  "alpc_test"}}

-----------------------------------------------------------------------------
(* A call is the sequence of what it does to the flag and to the locks.     *)
Save == <<<<"save", None>>>>
Restore == <<<<"restore", None>>>>
Held(l, inner) == <<<<"lock", l>>>> \o inner \o <<<<"unlock", l>>>>

(* A loop over the first n CPUs: programs of one length after one another. *)
Loop(n, program) ==
  LET k == Len(program[0]) IN
  [j \in 1 .. n * k |-> program[(j - 1) \div k][((j - 1) % k) + 1]]

\* Mutant: the lock is taken with interrupts on.
GuardedOpen(l, inner) == Held(l, inner)

(* The usual pattern: b_irq_save, spin_lock, ..., spin_unlock,              *)
(* b_irq_restore.                                                           *)
Guarded(l, inner) == Save \o Held(l, inner) \o Restore

kmalloc == Guarded(<<"heap", 0>>, <<>>)          \* kfree is the same
pmm_alloc == Guarded(<<"pmm", 0>>, <<>>)         \* pmm_free is the same
console_print == Guarded(<<"console", 0>>, <<>>) \* every console call is

\* Mutant: the early return leaves interrupts off.
keyboard_get_charOff == Save \o Held(<<"kbd", 0>>, <<>>)

\* Mutant: the early return keeps the lock.
keyboard_get_charKept == Save \o <<<<"lock", <<"kbd", 0>>>>>> \o Restore

keyboard_get_char == Guarded(<<"kbd", 0>>, <<>>)

alpc_recv == Guarded(<<"port", 0>>, <<>>)

(* alpc_create_section and alpc_map_section leave interrupts on; the second *)
(* goes on to vmm_map, which may allocate, unless it finds no section.      *)
SectionTable == Held(<<"section", 0>>, <<>>)
alpc_create_section == pmm_alloc \o SectionTable
alpc_map_section == SectionTable \o pmm_alloc

(* The counter of alpc_stress_server prints some of its values, under its   *)
(* lock.                                                                    *)
CountMessage(prints) == Guarded(<<"alpc_test", 0>>, IF prints THEN console_print ELSE <<>>)

sched_spawn(d) ==
  kmalloc \o kmalloc \o Save \o Held(<<"global_sched", 0>>, <<>>) \o Held(SchedLock(d), <<>>)
    \o Restore

(* It returns from the n-th CPU, where it finds the thread, or the last.    *)
sched_is_alive(n) == Loop(n, [i \in Cpu |-> Guarded(SchedLock(i), <<>>)])

(* One console call stands for the many that print a CPU's threads. *)
sched_print_tasks ==
  console_print \o Loop(NCpu, [i \in Cpu |-> Guarded(SchedLock(i), console_print)])

(* The scan stops at CPU d, where it finds the target, or finds none.       *)
Scan(n) == Loop(n, [i \in Cpu |-> Held(SchedLock(i), <<>>)])
sched_handoff(c, d) ==
  Save \o (IF d = None THEN Scan(NCpu) ELSE Scan(d + 1) \o Held(SchedLock(c), <<>>)) \o Restore

(* The ring is locked as alpc_recv does; a full one ends the call there. *)
alpc_send(c, d) == alpc_recv \o sched_handoff(c, d)

(* Interrupt 0x20, which may free a dead thread, and 0x21, which the PIC    *)
(* gives to the boot CPU.                                                   *)
sched_reschedule(c, kfrees) == Guarded(SchedLock(c), IF kfrees THEN kmalloc ELSE <<>>)
keyboard_handler == Guarded(<<"kbd", 0>>, <<>>)
Handlers(c) == {sched_reschedule(c, f) : f \in BOOLEAN}
                 \cup {p \in {keyboard_handler} : c = 0}

Programs(c, call) ==
  CASE call = "key" -> {keyboard_get_char}
    [] call = "tasks" -> {sched_print_tasks}
    [] call = "alive" -> {sched_is_alive(n) : n \in 1 .. NCpu}
    [] call = "spawn" -> {sched_spawn(d) : d \in Cpu}
    [] call = "send" -> {alpc_recv} \cup {alpc_send(c, d) : d \in Cpu \cup {None}}
    [] call = "recv" -> {alpc_recv} \cup {CountMessage(prints) : prints \in BOOLEAN}
    [] call = "create" -> {alpc_create_section}
    [] call = "map" -> {SectionTable, alpc_map_section}

-----------------------------------------------------------------------------
VARIABLES
  cur,      \* cur[c]: the thread CPU c runs
  prog,     \* what is left of the call a thread, or an interrupt on a CPU, is in
  off,      \* how many b_irq_save it has not restored yet
  holder    \* who holds each lock

locks_vars == <<cur, prog, off, holder>>

InIsr(c) == prog[Isr(c)] # <<>>
Active(c) == IF InIsr(c) THEN Isr(c) ELSE cur[c]

(* Every call gives back what it took: outside calls and handlers no lock   *)
(* is held and interrupts are as they were, on every return path            *)
(* (lib.c:3-23 and its users).                                              *)
LocksTypeOK ==
  /\ cur \in [Cpu -> Thread] /\ \A c \in Cpu : CpuOf[cur[c]] = c
  /\ off \in [Context -> 0 .. 3]
  /\ holder \in [Lock -> Context \cup {None}]
  /\ \A x \in Context : prog[x] = <<>> => off[x] = 0 /\ \A l \in Lock : holder[l] # x

LocksInit ==
  /\ cur \in [Cpu -> Thread] /\ \A c \in Cpu : CpuOf[cur[c]] = c
  /\ prog = [x \in Context |-> <<>>]
  /\ off = [x \in Context |-> 0]
  /\ holder = [l \in Lock |-> None]

Begin(c) ==
  /\ ~ InIsr(c) /\ prog[cur[c]] = <<>>
  /\ \E call \in Calls[cur[c]] : \E p \in Programs(c, call) : prog' = [prog EXCEPT ![cur[c]] = p]
  /\ UNCHANGED <<cur, off, holder>>

(* spin_lock goes on once the lock is free. *)
Step(c) ==
  LET x == Active(c)
      op == Head(prog[x])[1]
      l == Head(prog[x])[2]
  IN /\ prog[x] # <<>>
     /\ prog' = [prog EXCEPT ![x] = Tail(@)]
     /\ CASE op = "save" -> off' = [off EXCEPT ![x] = @ + 1] /\ UNCHANGED holder
          [] op = "restore" -> off' = [off EXCEPT ![x] = @ - 1] /\ UNCHANGED holder
          [] op = "lock" -> holder[l] = None /\ holder' = [holder EXCEPT ![l] = x] /\ UNCHANGED off
          [] op = "unlock" -> holder' = [holder EXCEPT ![l] = None] /\ UNCHANGED off
     /\ \/ x = cur[c] /\ UNCHANGED cur
        \/ x = Isr(c) /\ prog'[x] # <<>> /\ UNCHANGED cur
        \/ /\ x = Isr(c) /\ prog'[x] = <<>>   \* iretq, to any thread of this CPU
           /\ \E t \in Thread : CpuOf[t] = c /\ cur' = [cur EXCEPT ![c] = t]

(* Interrupts are on for the thread and no other interrupt is running. *)
Interrupt(c) ==
  /\ ~ InIsr(c) /\ off[cur[c]] = 0
  /\ \E p \in Handlers(c) : prog' = [prog EXCEPT ![Isr(c)] = p]
  /\ UNCHANGED <<cur, off, holder>>

LocksNext == \E c \in Cpu : Begin(c) \/ Step(c) \/ Interrupt(c)

LocksSpec == LocksInit /\ [][LocksNext]_locks_vars

(* Every CPU goes on when it can, and a CPU that spins on a lock finds it   *)
(* free in the end when it is free again and again.                         *)
FairSpec == LocksSpec /\ \A c \in Cpu : SF_locks_vars(Step(c))

-----------------------------------------------------------------------------
IntrOff(c) == InIsr(c) \/ off[cur[c]] > 0
Spinning(c) ==
  LET x == Active(c) IN
  prog[x] # <<>> /\ Head(prog[x])[1] = "lock" /\ holder[Head(prog[x])[2]] # None
WaitsOn(c) == holder[Head(prog[Active(c)])[2]]

(* A CPU that spins with interrupts off spins on a lock that another CPU is *)
(* about to release: its holder is running there, and is not itself         *)
(* waiting for somebody who waits.  No thread holds such a lock while it is *)
(* switched out or interrupted (lib.c:3-23 and its users).                  *)
SpinsOnRunning ==
  \A c \in Cpu : IntrOff(c) /\ Spinning(c) =>
    \E d \in Cpu \ {c} :
      /\ WaitsOn(c) = Active(d)
      /\ Spinning(d) => \A e \in Cpu : Spinning(e) => WaitsOn(d) # Active(e)

(* Interrupts come back: no CPU stays for ever with interrupts off.         *)
InterruptsComeBack == \A c \in Cpu : IntrOff(c) ~> ~ IntrOff(c)

-----------------------------------------------------------------------------
(* The discipline behind this.  The section lock is taken with interrupts   *)
(* on and nothing else held; every other lock with interrupts off; and only *)
(* locks of Inner while others, of Outer, are held.                         *)
Section == <<"section", 0>>
Outer == {SchedLock(c) : c \in Cpu} \cup {<<"alpc_test", 0>>}
Inner == {<<"heap", 0>>, <<"console", 0>>}

Mode == [off : 0 .. 3, has : SUBSET Lock]
Idle == [off |-> 0, has |-> {}]
Masked == [off |-> 1, has |-> {}]

MayLock(l, s) ==
  IF l = Section THEN s = Idle
  ELSE s.off > 0 /\ (s.has # {} => s.has \subseteq Outer /\ l \in Inner)

(* What one operation does to the mode of its context. *)
Does(op, locks, s, t) ==
  \/ op[1] = "save" /\ t.off = s.off + 1 /\ t.has = s.has
  \/ op[1] = "restore" /\ s.off = t.off + 1 /\ t.has = s.has
  \/ /\ op[1] = "lock" /\ op[2] \in locks /\ MayLock(op[2], s)
     /\ t.off = s.off /\ t.has = s.has \cup {op[2]}
  \/ /\ op[1] = "unlock" /\ op[2] \in s.has
     /\ t.off = s.off /\ t.has = s.has \ {op[2]}

(* p takes a context from mode s to mode t, keeps to the discipline, takes  *)
(* no lock but these, and never holds one of the others with interrupts on. *)
Goes(p, locks, s, t) ==
  \E f \in [0 .. Len(p) -> Mode] :
    /\ f[0] = s /\ f[Len(p)] = t
    /\ \A i \in 1 .. Len(p) : Does(p[i], locks, f[i - 1], f[i])
    /\ \A i \in 0 .. Len(p) : f[i].off > 0 \/ f[i].has \subseteq {Section}

Operation == {"save", "restore", "lock", "unlock"} \X (Lock \cup {None})
Disciplined(p, locks) == p \in Seq(Operation) /\ Goes(p, locks, Idle, Idle)

ModeOf(x) == [off |-> off[x], has |-> {l \in Lock : holder[l] = x}]
LocksOf(x) == IF x \in Thread THEN Lock ELSE Lock \ {Section}

(* Every context is somewhere in a disciplined program, and one that has    *)
(* its interrupts off is running.                                           *)
LocksInv ==
  /\ cur \in [Cpu -> Thread] /\ \A c \in Cpu : CpuOf[cur[c]] = c
  /\ off \in [Context -> 0 .. 3] /\ holder \in [Lock -> Context \cup {None}]
  /\ prog \in [Context -> Seq(Operation)]
  /\ \A x \in Context : Goes(prog[x], LocksOf(x), ModeOf(x), Idle)
  /\ \A t \in Thread : off[t] > 0 => cur[CpuOf[t]] = t /\ ~ InIsr(CpuOf[t])
=============================================================================
