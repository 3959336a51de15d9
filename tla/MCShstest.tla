----------------------------- MODULE MCShstest -----------------------------
(* A run of shstest with a few clients and messages. *)
EXTENDS Shstest
=============================================================================
