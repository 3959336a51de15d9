----------------------------- MODULE MCUserMode -----------------------------
(* Two user threads beside the idle thread and the shell. *)
EXTENDS UserMode
=============================================================================
