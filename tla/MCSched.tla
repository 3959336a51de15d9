------------------------------ MODULE MCSched ------------------------------
(* The detailed scheduler with one idle thread per CPU. *)
EXTENDS Sched

CONSTANTS i0, i1, sh, s, a, b

(* Two CPUs with the shell and a server. *)
TwoCpuThread == {i0, i1, sh, s}
TwoCpuIdle == [c \in Cpu |-> IF c = 0 THEN i0 ELSE i1]

(* One CPU with the shell and two workers. *)
OneCpuThread == {i0, sh, a, b}
OneCpuIdle == [c \in Cpu |-> i0]
=============================================================================
