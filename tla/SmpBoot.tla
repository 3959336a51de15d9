------------------------------ MODULE SmpBoot ------------------------------
(***************************************************************************)
(* Starting the other cores: smp_init on the boot CPU, the trampoline of   *)
(* smp_boot.asm and smp_ap_entry on each core, with the cpu_init and the   *)
(* sched_init they run (src/kernel/smp.c, smp_boot.asm, cpu.c, sched.c).   *)
(* The boot CPU starts one core at a time, but it goes on as soon as       *)
(* smp_data.status is set or its patience is out, so the cores it has      *)
(* started run their entry code beside it and beside each other.           *)
(*                                                                         *)
(* Nothing is assumed about how long a core takes: a timeout may come at   *)
(* any time, and an interprocessor interrupt may be lost.  What depends on *)
(* time is said in the properties, through the cores that were late.       *)
(***************************************************************************)
EXTENDS Naturals, FiniteSets, Sequences

CONSTANTS
  Xsdt,     \* the ACPI tables: [signature, entries], in the order of the XSDT
  Bsp,      \* the APIC id of the boot CPU
  None

(* acpi_init: the first table "APIC", and in it the enabled local APICs.    *)
Madts == SelectSeq(Xsdt, LAMBDA t : t.signature = "APIC")
Usable(e) == e.type = 0 /\ e.enabled
CpuIds ==
  IF Madts = <<>> THEN <<>>
  ELSE LET lapics == SelectSeq(Madts[1].entries, Usable) IN [k \in DOMAIN lapics |-> lapics[k].id]

Ap == {CpuIds[k] : k \in DOMAIN CpuIds} \ {Bsp}
Core == Ap \cup {Bsp}
Slot == 0 .. Cardinality(Core) - 1

ASSUME SmpAssumption ==
  /\ None \notin Core
  /\ CpuIds \in Seq(Core)
  /\ \A k, l \in DOMAIN CpuIds : CpuIds[k] = CpuIds[l] => k = l

VARIABLES
  bsp,                \* the boot CPU in smp_init: [pc, i]
  core,               \* core[c]: [pc, rsp, idx, tmp]
  stack_top, status,  \* of smp_data; a stack is named after the core it is made for
  cpus, cpu_count_actual,
  next_tid, global_sched_lock,
  tids,               \* tids[c]: the tids given out on core c, in order
  said,               \* said[c]: what was printed about core c
  late, unloaded,     \* cores under way, and without a stack, when the boot CPU went on
  firsts              \* cores that found next_tid = 1

smp_vars == <<bsp, core, stack_top, status, cpus, cpu_count_actual, next_tid,
              global_sched_lock, tids, said, late, unloaded, firsts>>

(* The boot CPU has been through its own cpu_init. *)
SmpInit ==
  /\ bsp = [pc |-> "loop", i |-> 1]
  /\ core = [c \in Core |-> [pc |-> "off", rsp |-> None, idx |-> 0, tmp |-> 0]]
  /\ stack_top = None /\ status = 0
  /\ cpus = [k \in Slot |-> IF k = 0 THEN Bsp ELSE None]
  /\ cpu_count_actual = 1
  /\ next_tid = 1 /\ global_sched_lock = 0
  /\ tids = [c \in Core |-> <<>>]
  /\ said = [c \in Core |-> None]
  /\ late = {} /\ unloaded = {} /\ firsts = {}

Id == CpuIds[bsp.i]
At(c, point) == core[c].pc = point
Go(c, point) == core' = [core EXCEPT ![c].pc = point]
BspGo(point) == bsp' = [bsp EXCEPT !.pc = point]

unsaid == <<said, late, unloaded>>
handshake == <<stack_top, status>>
slots == <<cpus, cpu_count_actual>>
sched == <<next_tid, global_sched_lock, tids, firsts>>

-----------------------------------------------------------------------------
\* Mutant: the status word is cleared once, before the loop.
PrepareOnce ==
  /\ bsp.pc = "loop" /\ bsp.i <= Len(CpuIds)
  /\ IF Id = Bsp
     THEN bsp' = [bsp EXCEPT !.i = @ + 1] /\ UNCHANGED <<stack_top, core>>
     ELSE BspGo("sipi") /\ stack_top' = Id /\ Go(Id, "wait")
  /\ UNCHANGED <<status, slots, sched, unsaid>>

(* The head of the loop up to the INIT interrupt and its delay.  The stores *)
(* to stack_top and to the status word are one action: only a core that was *)
(* left behind could come between them, and that it may take this stack or  *)
(* answer for this core is in the model after both.                         *)
Prepare ==
  /\ bsp.pc = "loop" /\ bsp.i <= Len(CpuIds)
  /\ IF Id = Bsp
     THEN bsp' = [bsp EXCEPT !.i = @ + 1] /\ UNCHANGED <<handshake, core>>
     ELSE BspGo("sipi") /\ stack_top' = Id /\ status' = 0 /\ Go(Id, "wait")
  /\ UNCHANGED <<slots, sched, unsaid>>

(* A start-up interrupt: a core that waits for it starts, unless it is lost *)
(* on the way; a core that runs ignores it.                                 *)
Sipi(from, to) ==
  /\ bsp.pc = from
  /\ BspGo(to)
  /\ \/ At(Id, "wait") /\ Go(Id, "start")
     \/ UNCHANGED core
  /\ UNCHANGED <<handshake, slots, sched, unsaid>>

(* The polling loop ends, by the status or by the timeout, and the result   *)
(* is printed.                                                              *)
Poll ==
  /\ bsp.pc = "poll"
  /\ bsp' = [pc |-> "loop", i |-> bsp.i + 1]
  /\ said' = [said EXCEPT ![Id] = IF status = 1 THEN "ok" ELSE "timeout"]
  /\ late' = late \cup {c \in Ap : core[c].pc \notin {"off", "wait", "idle"}}
  /\ unloaded' = unloaded \cup {c \in Ap : At(c, "start")}
  /\ UNCHANGED <<core, handshake, slots, sched>>

(* smp_init returns; apic_init_ap touches only this CPU's APIC.             *)
SmpDone ==
  /\ bsp.pc = "loop" /\ bsp.i > Len(CpuIds)
  /\ BspGo("sched")
  /\ Go(Bsp, "test")
  /\ UNCHANGED <<handshake, slots, sched, unsaid>>

-----------------------------------------------------------------------------
(* The trampoline up to the load of rsp. *)
Trampoline(c) ==
  /\ At(c, "start")
  /\ core' = [core EXCEPT ![c].rsp = stack_top, ![c].pc = "report"]
  /\ UNCHANGED <<bsp, handshake, slots, sched, unsaid>>

(* Its store to the status word, and the jump to smp_ap_entry. *)
Report(c) ==
  /\ At(c, "report")
  /\ status' = 1
  /\ Go(c, "count")
  /\ UNCHANGED <<bsp, stack_top, slots, sched, unsaid>>

(* cpu_init: cpus[cpu_count_actual++] = cpu is a load and two stores.       *)
CountLoad(c) ==
  /\ At(c, "count")
  /\ core' = [core EXCEPT ![c].idx = cpu_count_actual, ![c].pc = "counted"]
  /\ UNCHANGED <<bsp, handshake, slots, sched, unsaid>>

CountStore(c) ==
  /\ At(c, "counted")
  /\ cpu_count_actual' = core[c].idx + 1
  /\ Go(c, "slot")
  /\ UNCHANGED <<bsp, handshake, cpus, sched, unsaid>>

SlotStore(c) ==
  /\ At(c, "slot")
  /\ cpus' = [cpus EXCEPT ![core[c].idx] = c]
  /\ core' = [core EXCEPT ![c].idx = 0, ![c].pc = "test"]
  /\ UNCHANGED <<bsp, handshake, cpu_count_actual, sched, unsaid>>

-----------------------------------------------------------------------------
(* sched_init: whoever finds next_tid = 1 takes itself for the first ...    *)
Test(c) ==
  /\ At(c, "test")
  /\ IF next_tid = 1
     THEN Go(c, "reset") /\ firsts' = firsts \cup {c}
     ELSE Go(c, "lock") /\ UNCHANGED firsts
  /\ UNCHANGED <<bsp, handshake, slots, next_tid, global_sched_lock, tids, unsaid>>

(* ... and opens the lock.  cpu_extras, cleared with it, is still empty.    *)
Reset(c) ==
  /\ At(c, "reset")
  /\ global_sched_lock' = 0
  /\ Go(c, "lock")
  /\ UNCHANGED <<bsp, handshake, slots, next_tid, tids, firsts, unsaid>>

\* Mutant: the lock is not waited for.
LockIgnored(c) ==
  /\ At(c, "lock")
  /\ global_sched_lock' = 1
  /\ Go(c, "tid")
  /\ UNCHANGED <<bsp, handshake, slots, next_tid, tids, firsts, unsaid>>

Lock(c) ==
  /\ At(c, "lock")
  /\ global_sched_lock = 0
  /\ global_sched_lock' = 1
  /\ Go(c, "tid")
  /\ UNCHANGED <<bsp, handshake, slots, next_tid, tids, firsts, unsaid>>

(* tid = next_tid++, a load and a store. *)
TidLoad(c) ==
  /\ At(c, "tid")
  /\ core' = [core EXCEPT ![c].tmp = next_tid, ![c].pc = "bump"]
  /\ UNCHANGED <<bsp, handshake, slots, sched, unsaid>>

TidStore(c) ==
  /\ At(c, "bump")
  /\ next_tid' = core[c].tmp + 1
  /\ tids' = [tids EXCEPT ![c] = Append(@, core[c].tmp)]
  /\ core' = [core EXCEPT ![c].tmp = 0, ![c].pc = "unlock"]
  /\ UNCHANGED <<bsp, handshake, slots, global_sched_lock, firsts, unsaid>>

\* Mutant: the lock stays taken.
UnlockNone(c) ==
  /\ At(c, "unlock")
  /\ IF c # Bsp THEN Go(c, "again") /\ UNCHANGED bsp
     ELSE IF Len(tids[c]) = 1 THEN Go(c, "lock") /\ UNCHANGED bsp
     ELSE Go(c, "idle") /\ BspGo("ready")
  /\ UNCHANGED <<handshake, slots, sched, unsaid>>

(* The lock is given back.  The boot CPU takes it once more, to spawn the   *)
(* shell, and is ready; a core has its idle thread and goes on to report    *)
(* again.                                                                   *)
Unlock(c) ==
  /\ At(c, "unlock")
  /\ global_sched_lock' = 0
  /\ IF c # Bsp THEN Go(c, "again") /\ UNCHANGED bsp
     ELSE IF Len(tids[c]) = 1 THEN Go(c, "lock") /\ UNCHANGED bsp
     ELSE Go(c, "idle") /\ BspGo("ready")
  /\ UNCHANGED <<handshake, slots, next_tid, tids, firsts, unsaid>>

(* The store to the status word at the end of smp_ap_entry. *)
ReportAgain(c) ==
  /\ At(c, "again")
  /\ status' = 1
  /\ Go(c, "idle")
  /\ UNCHANGED <<bsp, stack_top, slots, sched, unsaid>>

-----------------------------------------------------------------------------
BspStep == Prepare \/ Sipi("sipi", "sipi2") \/ Sipi("sipi2", "poll") \/ Poll \/ SmpDone
sched_init(c) == Test(c) \/ Reset(c) \/ Lock(c) \/ TidLoad(c) \/ TidStore(c) \/ Unlock(c)
smp_ap_entry(c) ==
  Trampoline(c) \/ Report(c) \/ CountLoad(c) \/ CountStore(c) \/ SlotStore(c) \/ ReportAgain(c)
CoreStep(c) == sched_init(c) \/ smp_ap_entry(c)

SmpNext == BspStep \/ \E c \in Core : CoreStep(c)

SmpSpec == SmpInit /\ [][SmpNext]_smp_vars

-----------------------------------------------------------------------------
Started == {c \in Ap : core[c].pc \notin {"off", "wait", "start"}}

(* As long as no core was still without its stack when the boot CPU went on *)
(* to the next one, each core runs on the stack made for it, however long   *)
(* its entry code takes and whoever it overlaps (smp.c:50-61,               *)
(* smp_boot.asm:55-60).                                                     *)
StacksApart == unloaded = {} => \A c \in Started : core[c].rsp = c

Entered == {c \in Ap : core[c].pc \notin {"off", "wait", "start", "report", "count", "counted", "slot"}}

(* Cores do not get in each other's way: each has its stack, and as long as *)
(* the boot CPU never left one behind under way, cpus[] holds each core     *)
(* that is up in one slot, the boot CPU in the first, where the shell will  *)
(* go, and what was printed about the cores is true (cpu.c:9-16,            *)
(* smp.c:50-67).                                                            *)
CoresApart ==
  /\ StacksApart
  /\ late = {} =>
       /\ cpus[0] = Bsp
       /\ {cpus[k] : k \in Slot} \ {None} = Entered \cup {Bsp}
       /\ \A k \in Slot : k < cpu_count_actual - 1 => cpus[k] # None
       /\ \A c \in Ap : said[c] # None => (said[c] = "ok" <=> At(c, "idle"))

Given == {g \in Core \X {1, 2} : g[2] <= Len(tids[g[1]])}

(* No two threads get one tid, provided no two cores took themselves for    *)
(* the first: the lock the first one opens is good from then on, even with  *)
(* all cores in sched_init together (sched.c:27-38).                        *)
TidsUnique ==
  (\A c, d \in firsts : c = d) =>
    \A g, h \in Given : tids[g[1]][g[2]] = tids[h[1]][h[2]] => g = h

-----------------------------------------------------------------------------
(* Inductive strengthenings of StacksApart and TidsUnique. *)
Waiting == {"sipi", "sipi2", "poll"}

Points == {"off", "wait", "start", "report", "count", "counted", "slot", "test", "reset", "lock",
           "tid", "bump", "unlock", "again", "idle"}
CoreRecord == [pc : Points, rsp : Core \cup {None}, idx : Nat, tmp : Nat]

SmpTypeOK ==
  /\ bsp \in [pc : {"loop", "sched", "ready"} \cup Waiting, i : Nat \ {0}]
  /\ bsp.pc \in Waiting => bsp.i \in DOMAIN CpuIds /\ Id # Bsp
  /\ core \in [Core -> CoreRecord]
  /\ stack_top \in Core \cup {None} /\ cpu_count_actual \in Nat
  /\ next_tid \in Nat \ {0} /\ global_sched_lock \in {0, 1}
  /\ tids \in [Core -> Seq(Nat)]
  /\ firsts \subseteq Core

(* A core that has yet to load its stack pointer is the one being started,  *)
(* or was left behind (smp.c:50-61).                                        *)
StackInv ==
  /\ At(Bsp, "off") \/ bsp.pc \in {"sched", "ready"}
  /\ bsp.pc \in Waiting => stack_top = Id
  /\ \A c \in Ap : At(c, "start") => c \in unloaded \/ (bsp.pc \in Waiting /\ c = Id)
  /\ StacksApart

Locked == {c \in Core : core[c].pc \in {"tid", "bump", "unlock"}}
Tested == {c \in Core : core[c].pc \in {"reset", "lock"}} \cup Locked
OneFirst == \A c, d \in firsts : c = d

(* Until the first core has stored its tid nobody else is past the test, so *)
(* the lock it opens cannot be held (sched.c:27-38).                        *)
TidInv ==
  OneFirst =>
    /\ next_tid = 1 => Tested \subseteq firsts
    /\ \A c \in Core : At(c, "reset") => c \in firsts /\ next_tid = 1
    /\ \A c, d \in Locked : c = d
    /\ Locked # {} => global_sched_lock = 1
    /\ \A c \in Core : At(c, "bump") => core[c].tmp = next_tid
    /\ \A c \in Core : \A k \in DOMAIN tids[c] : tids[c][k] < next_tid
    /\ \A c, d \in Core : \A k \in DOMAIN tids[c], l \in DOMAIN tids[d] :
         tids[c][k] = tids[d][l] => c = d /\ k = l

(* The invariant of the start-up (smp.c:50-61, sched.c:27-38). *)
SmpInv == SmpTypeOK /\ StackInv /\ TidInv

(* The cores with a slot in cpus[], and the table's entries still to come.  *)
Up == Entered \cup {Bsp}
Pending(k) == k > bsp.i \/ (k = bsp.i /\ bsp.pc = "loop")

(* As long as nobody was left behind, at most one core is under way, the    *)
(* one the boot CPU waits for, and the status word speaks of it alone       *)
(* (smp.c:50-67).                                                           *)
AloneInv ==
  /\ core[Bsp].pc \notin {"wait", "start", "report", "count", "counted", "slot", "again"}
  /\ said \in [Core -> {None, "ok", "timeout"}]
  /\ late = {} =>
       /\ \A c \in Ap : core[c].pc \notin {"off", "wait", "idle"} => bsp.pc \in Waiting /\ c = Id
       /\ \A k \in DOMAIN CpuIds : Pending(k) => /\ CpuIds[k] # Bsp => At(CpuIds[k], "off")
                                                /\ said[CpuIds[k]] = None
       /\ bsp.pc \in Waiting =>
            /\ said[Id] = None /\ ~ At(Id, "off")
            /\ status = 1 <=> core[Id].pc \notin {"wait", "start", "report"}
       /\ \A c \in Ap : said[c] # None => (said[c] = "ok" <=> At(c, "idle"))

(* So cpus[] fills up from the front, one core at a time (cpu.c:9-16).      *)
SlotInv ==
  /\ cpus \in [Slot -> Core \cup {None}]
  /\ late = {} =>
       /\ cpus[0] = Bsp /\ {cpus[k] : k \in Slot} \ {None} = Up
       /\ \A k \in Slot : cpus[k] # None <=> k < Cardinality(Up)
       /\ cpu_count_actual = Cardinality(Up) + (IF \E c \in Ap : At(c, "slot") THEN 1 ELSE 0)
       /\ \A c \in Ap : core[c].pc \in {"counted", "slot"} => core[c].idx = Cardinality(Up)

-----------------------------------------------------------------------------
(* While every core so far has answered in time, "ok" is printed only for a *)
(* core that is running (smp.c:61-64).                                      *)
OkMeansUp == (\A d \in Ap : said[d] # "timeout") => \A c \in Ap : said[c] = "ok" => c \in Started
=============================================================================
