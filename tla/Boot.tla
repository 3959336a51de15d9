-------------------------------- MODULE Boot --------------------------------
(***************************************************************************)
(* The whole way up: module Loader until the trampoline is in place,       *)
(* module SmpBoot from there to the shell.                                 *)
(***************************************************************************)
EXTENDS Loader, SmpBoot

VARIABLE phase    \* "memory" or "cores"

vars == <<boot_vars, smp_vars, phase>>

Init == LoaderInit /\ SmpInit /\ phase = "memory"

(* Nothing the loader left behind is read any more: it is forgotten here,   *)
(* so that what the cores do is looked at once, not once for every map.     *)
Forget ==
  /\ phase = "memory" /\ loader = "cores"
  /\ phase' = "cores"
  /\ memmap' = NoMap /\ info' = NoMap /\ room' = 0 /\ services' = FALSE /\ stirred' = FALSE /\ fb' = {}
  /\ mem' = [p \in Page |-> ""] /\ at' = [what \in DOMAIN at |-> Nowhere]
  /\ loader' = "forgotten" /\ free' = {} /\ mapped' = {}
  /\ UNCHANGED smp_vars

Next ==
  \/ phase = "memory" /\ LoaderNext /\ UNCHANGED <<smp_vars, phase>>
  \/ Forget
  \/ phase = "cores" /\ SmpNext /\ UNCHANGED <<boot_vars, phase>>

(* The loader runs alone and the firmware's timers let it go on; the boot   *)
(* CPU polls and every core executes.                                       *)
Fairness ==
  /\ WF_vars(LoaderSteps /\ UNCHANGED <<smp_vars, phase>>)
  /\ WF_vars(Forget)
  /\ WF_vars(phase = "cores" /\ BspStep /\ UNCHANGED <<boot_vars, phase>>)
  /\ \A c \in Core : WF_vars(phase = "cores" /\ CoreStep(c) /\ UNCHANGED <<boot_vars, phase>>)

Spec == Init /\ [][Next]_vars /\ Fairness

(* The way up ends: with the shell spawned, whatever the cores do and       *)
(* however many never answer, or where the loader or pmm_init gives up; or, *)
(* if the firmware moved memory while the loader was leaving, astray        *)
(* (main.c:29-87, 106-118, pmm.c:52-55, smp.c:61, sched.c:36).              *)
BootEnds == <>(bsp.pc = "ready" \/ loader \in {"halt", "noram"} \/ (loader = "astray" /\ stirred))
=============================================================================
