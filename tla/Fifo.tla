-------------------------------- MODULE Fifo --------------------------------
(***************************************************************************)
(* What a bounded queue promises its users, whoever they are and however   *)
(* their calls interleave: first in, first out, nothing lost or doubled,   *)
(* refused only when full, empty-handed only when empty.  The rings of     *)
(* src/kernel/alpc.c and src/kernel/keyboard.c implement it.               *)
(***************************************************************************)
EXTENDS Naturals, Sequences

CONSTANTS Value, Capacity, Receiver, None

VARIABLES
  queue,   \* what was accepted and not yet taken
  got,     \* got[r]: what receiver r took last
  ret      \* the outcome of the last call

fvars == <<queue, got, ret>>

Init ==
  /\ queue = <<>>
  /\ got = [r \in Receiver |-> None]
  /\ ret = "none"

Put(v) ==
  /\ IF Len(queue) < Capacity
     THEN queue' = Append(queue, v) /\ ret' = "ok"
     ELSE queue' = queue /\ ret' = "full"
  /\ got' = got

Get(r) ==
  IF queue = <<>>
  THEN queue' = queue /\ got' = got /\ ret' = "empty"
  ELSE /\ queue' = Tail(queue)
       /\ got' = [got EXCEPT ![r] = Head(queue)]
       /\ ret' = "ok"

Next == (\E v \in Value : Put(v)) \/ (\E r \in Receiver : Get(r))

Spec == Init /\ [][Next]_fvars
=============================================================================
