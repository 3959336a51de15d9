----------------------------- MODULE Selftests -----------------------------
(***************************************************************************)
(* The shell commands that test the scheduler: schedtest, coretest and     *)
(* ringtest (src/kernel/shell.c).  Each spawns threads and waits for them, *)
(* ringtest by sched_is_alive (module SchedAlive), the others through      *)
(* plain shared variables: flags, places in a race, a counter under a      *)
(* lock.  Threads of an earlier stage or command may still be around, and  *)
(* a stage's flag is the same variable in every schedtest.                 *)
(*                                                                         *)
(* Each thread stays on the CPU it was spawned on (StaysOnCpu of           *)
(* SchedAlive) and may be interrupted anywhere, except that nobody else    *)
(* runs on a CPU whose thread has its interrupts off.  Busy work and       *)
(* b_sleep (module Clock) take any time.                                   *)
(***************************************************************************)
EXTENDS Naturals, Sequences, FiniteSets

CONSTANTS
  TestCpus,     \* how many CPUs there are; the shell is on CPU 0
  Script,       \* the commands typed: "schedtest", "coretest", "ringtest"
  Once, Loops,  \* threads in a stage of each kind, beside the timer
  Workers       \* coretest's workers: two for each core

(* A stage: what its threads do, and how many there are.                    *)
Stages(command) ==
  CASE command = "coretest" -> << [job |-> "worker", threads |-> Workers] >>
    [] command = "ringtest" -> [k \in 1 .. 4 |-> [job |-> "user", threads |-> 1]]
    [] command = "schedtest" ->
       LET once == [job |-> "once", threads |-> Once]
           loop == [job |-> "loop", threads |-> Loops + 1]
       IN <<once, [job |-> "racer", threads |-> 3], loop, loop, once, loop, loop>>

ASSUME SelftestsAssumption ==
  /\ TestCpus \in Nat \ {0}
  /\ {Once, Loops, Workers} \subseteq 1 .. 6

VARIABLES
  test,         \* the shell: [n, stage, pc, i]
  next_cpu,     \* next_cpu_index of sched.c
  live,         \* the threads: [n, stage, k, job, cpu, pc, tmp]
  cpu_of,       \* cpu_of[k]: where the k-th racer ran
  active,       \* active[g]: rr_active, yield_active, age_active, block_active
  race_counts, finish_order,
  active_workers, worker_lock,
  reset_held    \* history: this stage began by opening a lock an old worker held

shell_sees == <<active, race_counts, finish_order, active_workers, worker_lock>>
test_vars == <<test, next_cpu, live, cpu_of, shell_sees, reset_held>>

TestInit ==
  /\ test = [n |-> 0, stage |-> 0, pc |-> "prompt", i |-> 0]
  /\ next_cpu = 1 % TestCpus
  /\ live = {} /\ cpu_of = [k \in 1 .. 3 |-> 0]
  /\ active = [g \in 1 .. 7 |-> 1]
  /\ race_counts = [k \in 1 .. 3 |-> 0] /\ finish_order = 1
  /\ active_workers = 0 /\ worker_lock = 0 /\ reset_held = FALSE

HoldsLock(t) == t.pc \in {"locked", "store", "unlock"}

\* Mutant: priority_racer leaves its interrupts on.
IrqOffNotRacing(t) == HoldsLock(t)

(* Between cli and sti, or b_irq_save and b_irq_restore. *)
IrqOff(t) == HoldsLock(t) \/ t.pc \in {"bump", "place", "sti"}
CpuOpen(c) == \A t \in live : t.cpu = c => ~ IrqOff(t)

Ready(t, point) == t.pc = point /\ (IrqOff(t) \/ CpuOpen(t.cpu))
Becomes(t, u) == live' = (live \ {t}) \cup {u}
To(t, point) == Becomes(t, [t EXCEPT !.pc = point])
Exits(t) == live' = live \ {t}

threads == <<next_cpu, live, cpu_of>>

-----------------------------------------------------------------------------
Stage == Stages(Script[test.n])[test.stage]
ShellAt(point) == test.pc = point /\ CpuOpen(0)

(* A command is read; it may have been typed while the last one ran.        *)
TypeCommand ==
  /\ ShellAt("prompt") /\ test.n < Len(Script)
  /\ test' = [n |-> test.n + 1, stage |-> 1, pc |-> "setup", i |-> 0]
  /\ UNCHANGED <<threads, shell_sees, reset_held>>

\* Mutant: one worker too few is counted.
SetupShort ==
  /\ ShellAt("setup")
  /\ test' = [test EXCEPT !.pc = "spawn"]
  /\ active' = IF Stage.job = "loop" THEN [active EXCEPT ![test.stage] = 1] ELSE active
  /\ IF Stage.job = "racer"
     THEN race_counts' = [k \in 1 .. 3 |-> 0] /\ finish_order' = 1
     ELSE UNCHANGED <<race_counts, finish_order>>
  /\ IF Stage.job = "worker"
     THEN active_workers' = Workers - 1 /\ worker_lock' = 0
     ELSE UNCHANGED <<active_workers, worker_lock>>
  /\ reset_held' = (Stage.job = "worker" /\ \E t \in live : HoldsLock(t))
  /\ UNCHANGED threads

(* What the stage's threads and the shell share is reset before any of them *)
(* exists, but whatever those of an earlier command are doing.              *)
Setup ==
  /\ ShellAt("setup")
  /\ test' = [test EXCEPT !.pc = "spawn"]
  /\ active' = IF Stage.job = "loop" THEN [active EXCEPT ![test.stage] = 1] ELSE active
  /\ IF Stage.job = "racer"
     THEN race_counts' = [k \in 1 .. 3 |-> 0] /\ finish_order' = 1
     ELSE UNCHANGED <<race_counts, finish_order>>
  /\ IF Stage.job = "worker"
     THEN active_workers' = Workers /\ worker_lock' = 0
     ELSE UNCHANGED <<active_workers, worker_lock>>
  /\ reset_held' = (Stage.job = "worker" /\ \E t \in live : HoldsLock(t))
  /\ UNCHANGED threads

(* One sched_spawn after the other, each on the next CPU; tids are          *)
(* consecutive, so tid % 3 tells three racers apart.                        *)
SpawnNext ==
  /\ ShellAt("spawn") /\ test.i < Stage.threads
  /\ test' = [test EXCEPT !.i = @ + 1]
  /\ live' = live \cup {[n |-> test.n, stage |-> test.stage, k |-> test.i + 1, cpu |-> next_cpu,
                          job |-> IF Stage.job = "loop" /\ test.i = Loops THEN "timer" ELSE Stage.job,
                          pc |-> "run", tmp |-> 0]}
  /\ next_cpu' = (next_cpu + 1) % TestCpus
  /\ cpu_of' = IF Stage.job = "racer" THEN [cpu_of EXCEPT ![test.i + 1] = next_cpu] ELSE cpu_of
  /\ UNCHANGED <<shell_sees, reset_held>>

StageOver ==
  CASE Stage.job = "once" -> TRUE
    [] Stage.job = "racer" -> \A k \in 1 .. 3 : race_counts[k] # 0
    [] Stage.job = "loop" -> active[test.stage] = 0
    [] Stage.job = "worker" -> active_workers = 0
    [] Stage.job = "user" -> \A t \in live : t.n # test.n \/ t.stage # test.stage

(* The shell has waited long enough and goes on to the next stage, or back  *)
(* to the prompt.  The places of a race, which nobody reads again, are      *)
(* forgotten here and not by the Setup of the next.                         *)
WaitOver ==
  /\ ShellAt("spawn") /\ test.i = Stage.threads /\ StageOver
  /\ test' = IF test.stage < Len(Stages(Script[test.n]))
             THEN [test EXCEPT !.stage = @ + 1, !.pc = "setup", !.i = 0]
             ELSE [test EXCEPT !.pc = "prompt"]
  /\ IF Stage.job = "racer"
     THEN race_counts' = [k \in 1 .. 3 |-> 0] /\ finish_order' = 1 /\ cpu_of' = [k \in 1 .. 3 |-> 0]
     ELSE UNCHANGED <<race_counts, finish_order, cpu_of>>
  /\ UNCHANGED <<next_cpu, live, active, active_workers, worker_lock, reset_held>>

(* Or it has not, and the loop yields once more. *)
WaitMore == ShellAt("spawn") /\ test.i = Stage.threads /\ ~ StageOver /\ UNCHANGED test_vars

-----------------------------------------------------------------------------
(* integrity_thread and chaos_worker compute and exit.  The ring 3 threads  *)
(* of ringtest end by a system call or by an exception (module UserMode).   *)
RunOnce(t) ==
  /\ t.job \in {"once", "user"} /\ Ready(t, "run")
  /\ Exits(t)
  /\ UNCHANGED <<test, next_cpu, cpu_of, reset_held, shell_sees>>

(* rr_worker, greedy_worker, polite_worker, greedy_p31, patient_p0,         *)
(* spinner_p10 and sleeper_p10 count until they see their flag down.        *)
LoopEnds(t) ==
  /\ t.job = "loop" /\ Ready(t, "run") /\ active[t.stage] = 0
  /\ Exits(t)
  /\ UNCHANGED <<test, next_cpu, cpu_of, reset_held, shell_sees>>

(* rr_timer, yield_timer, age_timer and block_timer sleep and lower it.     *)
TimerRings(t) ==
  /\ t.job = "timer" /\ Ready(t, "run")
  /\ active' = [active EXCEPT ![t.stage] = 0]
  /\ Exits(t)
  /\ UNCHANGED <<test, next_cpu, cpu_of, reset_held, race_counts, finish_order, active_workers, worker_lock>>

-----------------------------------------------------------------------------
(* priority_racer: after its cli, race_counts[index] = finish_order++ is a  *)
(* load and two stores.                                                     *)
RaceLoad(t) ==
  /\ t.job = "racer" /\ Ready(t, "run")
  /\ Becomes(t, [t EXCEPT !.tmp = finish_order, !.pc = "bump"])
  /\ UNCHANGED <<test, next_cpu, cpu_of, reset_held, shell_sees>>

RaceBump(t) ==
  /\ Ready(t, "bump")
  /\ finish_order' = t.tmp + 1
  /\ To(t, "place")
  /\ UNCHANGED <<test, next_cpu, cpu_of, reset_held, active, race_counts, active_workers, worker_lock>>

RacePlace(t) ==
  /\ Ready(t, "place")
  /\ race_counts' = [race_counts EXCEPT ![t.k] = t.tmp]
  /\ To(t, "sti")
  /\ UNCHANGED <<test, next_cpu, cpu_of, reset_held, active, finish_order, active_workers, worker_lock>>

RaceExit(t) ==
  /\ Ready(t, "sti")
  /\ Exits(t)
  /\ UNCHANGED <<test, next_cpu, cpu_of, reset_held, shell_sees>>

-----------------------------------------------------------------------------
(* core_worker prints, sleeps and prints; then it wants the lock.           *)
WorkerDone(t) ==
  /\ t.job = "worker" /\ Ready(t, "run")
  /\ To(t, "done")
  /\ UNCHANGED <<test, next_cpu, cpu_of, reset_held, shell_sees>>

(* b_irq_save and spin_lock. *)
WorkerLock(t) ==
  /\ Ready(t, "done") /\ worker_lock = 0
  /\ worker_lock' = 1
  /\ To(t, "locked")
  /\ UNCHANGED <<test, next_cpu, cpu_of, reset_held, active, race_counts, finish_order, active_workers>>

(* active_workers-- *)
WorkerLoad(t) ==
  /\ Ready(t, "locked")
  /\ Becomes(t, [t EXCEPT !.tmp = active_workers, !.pc = "store"])
  /\ UNCHANGED <<test, next_cpu, cpu_of, reset_held, shell_sees>>

WorkerStore(t) ==
  /\ Ready(t, "store")
  /\ active_workers' = t.tmp - 1
  /\ To(t, "unlock")
  /\ UNCHANGED <<test, next_cpu, cpu_of, reset_held, active, race_counts, finish_order, worker_lock>>

WorkerExit(t) ==
  /\ Ready(t, "unlock")
  /\ worker_lock' = 0
  /\ Exits(t)
  /\ UNCHANGED <<test, next_cpu, cpu_of, reset_held, active, race_counts, finish_order, active_workers>>

-----------------------------------------------------------------------------
ShellTests == Setup \/ SpawnNext \/ WaitOver
priority_racer(t) == RaceLoad(t) \/ RaceBump(t) \/ RacePlace(t) \/ RaceExit(t)
core_worker(t) ==
  WorkerDone(t) \/ WorkerLock(t) \/ WorkerLoad(t) \/ WorkerStore(t) \/ WorkerExit(t)
ThreadStep(t) ==
  RunOnce(t) \/ LoopEnds(t) \/ TimerRings(t) \/ priority_racer(t) \/ core_worker(t)

AllTyped == test.n = Len(Script) /\ test.pc = "prompt" /\ UNCHANGED test_vars

TestNext == TypeCommand \/ ShellTests \/ WaitMore \/ AllTyped \/ \E t \in live : ThreadStep(t)

-----------------------------------------------------------------------------
CommandOver(n) == test.n > n \/ (test.n = n /\ test.pc = "prompt")

(* "coretest complete" is printed when every worker of this coretest has    *)
(* printed "worker done", and never because of workers of another one       *)
(* (shell.c:553-564, 658-669).                                              *)
CoretestComplete ==
  \A t \in live : t.job = "worker" /\ CommandOver(t.n) => t.pc = "unlock"

(* The finish order printed is one: the first to arrive is first, and two   *)
(* racers that ran on one CPU never share a place.  On different CPUs they  *)
(* may: cli does not keep the other CPU out (shell.c:342-347, 449-459).     *)
PlacesDistinct ==
  /\ \A k, l \in 1 .. 3 :
       k # l /\ race_counts[k] # 0 /\ race_counts[k] = race_counts[l] => cpu_of[k] # cpu_of[l]
  /\ (\A k \in 1 .. 3 : race_counts[k] # 0) => \E k \in 1 .. 3 : race_counts[k] = 1
=============================================================================
