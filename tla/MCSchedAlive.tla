---------------------------- MODULE MCSchedAlive ----------------------------
(* Two CPUs, their idle threads, the shell, a server and a worker. *)
EXTENDS SchedAlive

CONSTANTS i0, i1, sh, s, w

MCThread == {i0, i1, sh, s, w}
MCIdleOf == [c \in Cpu |-> IF c = 0 THEN i0 ELSE i1]
=============================================================================
