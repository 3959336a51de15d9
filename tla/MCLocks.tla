------------------------------ MODULE MCLocks ------------------------------
(* Two CPUs; two threads share the first, which is where a lock's holder    *)
(* can be switched out.                                                     *)
EXTENDS Locks

CONSTANTS a, b, d

MCCpuOf == [t \in {a, b, d} |-> IF t = d THEN 1 ELSE 0]
MCCalls == [t \in {a, b, d} |->
              IF t = a THEN {"create"}
              ELSE IF t = b THEN {"map"}
              ELSE {"key", "tasks", "alive", "recv", "spawn", "send"}]
=============================================================================
