------------------------------- MODULE Clock -------------------------------
(***************************************************************************)
(* The clock: every CPU's timer interrupt increments the one global_ticks  *)
(* (apic_timer_handler, src/kernel/apic.c), a load and a store without a   *)
(* lock, and b_sleep (lib.c) spins on it.  Increments are lost, and a      *)
(* store that comes late sets the clock back.                              *)
(***************************************************************************)
EXTENDS Integers

CONSTANTS
  TickCpu,    \* the CPUs whose timers tick
  Sleeper,    \* threads that call b_sleep
  SleepTicks, \* the ticks they ask for: ms / 10
  MaxTicks,   \* bound of the model
  NoTick

ASSUME ClockAssumption ==
  SleepTicks \in Nat /\ MaxTicks \in Nat /\ NoTick \notin Nat

VARIABLES
  global_ticks,
  loaded,     \* loaded[c]: the value in c's register inside the handler
  sleep       \* sleep[s]: [on, target, set_back, heard]

clock_vars == <<global_ticks, loaded, sleep>>

InHandler(c) == loaded[c] # NoTick

ClockTypeOK ==
  /\ global_ticks \in Nat
  /\ loaded \in [TickCpu -> Nat \cup {NoTick}]
  /\ sleep \in [Sleeper -> [on : BOOLEAN, target : Nat, set_back : BOOLEAN, heard : 0 .. SleepTicks]]

ClockInit ==
  /\ global_ticks = 0
  /\ loaded = [c \in TickCpu |-> NoTick]
  /\ sleep = [s \in Sleeper |-> [on |-> FALSE, target |-> 0, set_back |-> FALSE, heard |-> 0]]

-----------------------------------------------------------------------------
(* apic_timer_handler: the load ... *)
TickLoad(c) ==
  /\ ~ InHandler(c) /\ global_ticks < MaxTicks
  /\ loaded' = [loaded EXCEPT ![c] = global_ticks]
  /\ UNCHANGED <<global_ticks, sleep>>

\* Mutant: the counter is kept in a type too narrow for it.
TickStoreNarrow(c) ==
  /\ InHandler(c)
  /\ global_ticks' = (loaded[c] + 1) % MaxTicks
  /\ loaded' = [loaded EXCEPT ![c] = NoTick]
  /\ sleep' = [s \in Sleeper |-> [sleep[s] EXCEPT !.heard = IF @ < SleepTicks THEN @ + 1 ELSE @]]

\* Mutant: two ticks are counted for one interrupt.
TickStoreTwo(c) ==
  /\ InHandler(c)
  /\ global_ticks' = loaded[c] + 2
  /\ loaded' = [loaded EXCEPT ![c] = NoTick]
  /\ sleep' = [s \in Sleeper |-> [sleep[s] EXCEPT !.heard = IF @ < SleepTicks THEN @ + 1 ELSE @]]

(* ... and the store.  Each sleeper has lived through one interrupt more;   *)
(* beyond what it asked for nobody counts.                                  *)
TickStore(c) ==
  /\ InHandler(c)
  /\ global_ticks' = loaded[c] + 1
  /\ loaded' = [loaded EXCEPT ![c] = NoTick]
  /\ sleep' = [s \in Sleeper |-> [sleep[s] EXCEPT !.heard = IF @ < SleepTicks THEN @ + 1 ELSE @]]

(* b_sleep computes its target.  The clock is set back while some handler   *)
(* holds a later time than it shows.                                        *)
b_sleep(s) ==
  /\ ~ sleep[s].on /\ global_ticks + SleepTicks <= MaxTicks
  /\ sleep' = [sleep EXCEPT ![s] =
                 [on |-> TRUE, target |-> global_ticks + SleepTicks, heard |-> 0,
                  set_back |-> \E c \in TickCpu : InHandler(c) /\ loaded[c] > global_ticks]]
  /\ UNCHANGED <<global_ticks, loaded>>

(* The loop of b_sleep ends. *)
Wake(s) ==
  /\ sleep[s].on /\ global_ticks >= sleep[s].target
  /\ sleep' = [sleep EXCEPT ![s].on = FALSE]
  /\ UNCHANGED <<global_ticks, loaded>>

ClockNext ==
  \/ \E c \in TickCpu : TickLoad(c) \/ TickStore(c)
  \/ \E s \in Sleeper : b_sleep(s) \/ Wake(s)

ClockSpec == ClockInit /\ [][ClockNext]_clock_vars

-----------------------------------------------------------------------------
(* n ticks have passed, on the clock and in every handler. *)
Passed(n) == global_ticks >= n /\ \A c \in TickCpu : InHandler(c) => loaded[c] >= n

(* However many increments are lost, what the clock and all handlers agree  *)
(* has passed stays passed: a set-back never goes below the oldest value    *)
(* some handler still holds (apic.c:87-88).                                 *)
PassedStays == [][\A n \in 0 .. MaxTicks : Passed(n) => Passed(n)']_clock_vars

(* A b_sleep that began while the clock was not set back returns no sooner  *)
(* than after as many timer interrupts as it asked for (lib.c:84-89).       *)
SleepsLongEnough ==
  \A s \in Sleeper : sleep[s].on /\ ~ sleep[s].set_back /\ global_ticks >= sleep[s].target
                       => sleep[s].heard = SleepTicks

(* What a sleeper that began well relies on: until it has lived through     *)
(* enough interrupts, neither the clock nor a handler is further from its   *)
(* start than the interrupts it has lived through (apic.c:87-88).           *)
NotAhead(s, n) == n + SleepTicks <= sleep[s].target + sleep[s].heard

(* The inductive invariant behind SleepsLongEnough (apic.c:87-88,           *)
(* lib.c:84-89).                                                            *)
ClockInv ==
  /\ ClockTypeOK
  /\ \A s \in Sleeper : sleep[s].on /\ ~ sleep[s].set_back /\ sleep[s].heard # SleepTicks =>
       /\ NotAhead(s, global_ticks)
       /\ \A c \in TickCpu : InHandler(c) => NotAhead(s, loaded[c])
=============================================================================
