------------------------------- MODULE MCVmm -------------------------------
(* Page tables with few pages and indices. *)
EXTENDS Vmm

CONSTANTS m1, m2, f1, f2, t0, t1, t2, t3, t4, t5, t6

MCTable == {t0, t1, t2, t3, t4, t5, t6}
MCMapper == {m1, m2}

(* Each mapper in a slot of the root of its own, as vmmtest's addresses and *)
(* the sections are: two pages of one last table for m1, one page for m2.   *)
ApartPath == <<<<0, 0, 0, 0>>, <<0, 0, 0, 1>>, <<1, 0, 1, 0>>>>
ApartOwner == <<m1, m1, m2>>

(* Both mappers in one slot, as two clients that map sections are. *)
SharedPath == <<<<1, 0, 0, 0>>, <<1, 0, 0, 1>>>>
SharedOwner == <<m1, m2>>
=============================================================================
