------------------------------ MODULE Shstest ------------------------------
(***************************************************************************)
(* ALPC at work: the shell's shstest command (src/kernel/shell.c:566-644). *)
(* A server makes a port and receives, clients find the port by name and   *)
(* send messages, some of which carry a shared section; the shell waits    *)
(* for the server's flag.  Ports, connect, send, recv and the section      *)
(* table are those of src/kernel/alpc.c.  Locked sections are actions, and *)
(* every thread may stop between two of them.                              *)
(*                                                                         *)
(* Every run of the command spawns a server and its clients anew; ports    *)
(* and sections are never taken back.                                      *)
(***************************************************************************)
EXTENDS AlpcRing, Sequences, FiniteSets

CONSTANTS
  Runs,          \* how often shstest is typed
  ClientsPerRun, \* 10
  Messages,      \* messages per client: 100
  SectionEvery,  \* each SectionEvery-th message carries a section: 10
  Slots,         \* entries of sections[]: 64
  None

Run == 1 .. Runs
Client == Run \X (1 .. ClientsPerRun)
Total == ClientsPerRun * Messages      \* the 1000 of alpc_stress_server

ASSUME ShstestAssumption ==
  /\ Runs \in Nat /\ ClientsPerRun \in Nat \ {0} /\ Messages \in Nat \ {0}
  /\ SectionEvery \in Nat \ {0} /\ Slots \in Nat
  /\ None \notin Nat

VARIABLES
  shell,       \* the run the shell is in, and where it is: [run, pc]
  alpc_test_done, alpc_messages_received,
  port_list,   \* ports in list order; a port is named by the run of its server
  port,        \* port[r]: its ring
  server,      \* server[r]: "new", "create", "loop", "exit"
  client,      \* client[c]: [pc, i, port, section]
  sections,    \* sections[k]: the id in table entry k, 0 when free
  next_section_id,
  filled,      \* the sections whose page holds the X of their client
  log          \* log[r]: what server r received, and whether its section was intact

table == <<sections, next_section_id>>
vars == <<shell, alpc_test_done, alpc_messages_received, port_list, port, server, client,
          table, filled, log>>

NewClient == [pc |-> "new", i |-> 0, port |-> 0, section |-> 0]

(* The ring indices stay inside the ring and the server counts no message   *)
(* too many (alpc.c:78, 103; shell.c:575, 585).                             *)
ShstestTypeOK ==
  /\ shell \in [run : 0 .. Runs, pc : {"prompt", "wait"}]
  /\ alpc_test_done \in {0, 1} /\ alpc_messages_received \in 0 .. Total
  /\ \A r \in Run : port[r].queue_head \in Index /\ port[r].queue_tail \in Index
  /\ server \in [Run -> {"new", "create", "loop", "exit"}]
  /\ \A c \in Client : /\ client[c].pc \in {"new", "connect", "fill", "map", "send", "exit", "fault"}
                       /\ client[c].i \in 0 .. Messages /\ client[c].port \in 0 .. Runs
  /\ sections \in [1 .. Slots -> Nat]

Init ==
  /\ shell = [run |-> 0, pc |-> "prompt"]
  /\ alpc_test_done = 0 /\ alpc_messages_received = 0
  /\ port_list = <<>>
  /\ port = [r \in Run |-> EmptyRing(None)]
  /\ server = [r \in Run |-> "new"]
  /\ client = [c \in Client |-> NewClient]
  /\ sections = [k \in 1 .. Slots |-> 0]
  /\ next_section_id = 1
  /\ filled = {}
  /\ log = [r \in Run |-> <<>>]

-----------------------------------------------------------------------------
(* shstest up to the wait: flags reset, threads spawned. *)
shstest ==
  /\ shell.pc = "prompt" /\ shell.run < Runs
  /\ shell' = [run |-> shell.run + 1, pc |-> "wait"]
  /\ alpc_test_done' = 0 /\ alpc_messages_received' = 0
  /\ server' = [server EXCEPT ![shell.run + 1] = "create"]
  /\ client' = [c \in Client |-> IF c[1] = shell.run + 1
                                 THEN [client[c] EXCEPT !.pc = "connect"] ELSE client[c]]
  /\ UNCHANGED <<port_list, port, table, filled, log>>

(* The wait loop sees the flag; "shstest done" is printed. *)
ShstestDone ==
  /\ shell.pc = "wait" /\ alpc_test_done = 1
  /\ shell' = [shell EXCEPT !.pc = "prompt"]
  /\ UNCHANGED <<alpc_test_done, alpc_messages_received, port_list, port, server, client,
                 table, filled, log>>

(* It does not, and the loop yields once more. *)
ShstestWaits == shell.pc = "wait" /\ alpc_test_done = 0 /\ UNCHANGED vars

(* Back in shell_run, waiting for keys. *)
Prompt == shell = [run |-> Runs, pc |-> "prompt"] /\ UNCHANGED vars

-----------------------------------------------------------------------------
(* alpc_create_port: the port is complete when it enters the list, at the   *)
(* head.                                                                    *)
alpc_create_port(r) ==
  /\ server[r] = "create"
  /\ port_list' = <<r>> \o port_list
  /\ server' = [server EXCEPT ![r] = "loop"]
  /\ UNCHANGED <<shell, alpc_test_done, alpc_messages_received, port, client, table,
                 filled, log>>

(* alpc_map_section finds the section or returns NULL.  The mapping itself  *)
(* is module Vmm's.                                                         *)
Mappable(id) == \E k \in 1 .. Slots : sections[k] = id

(* One round of the server's loop that receives; the counter goes up under  *)
(* alpc_test_lock before anything else is received.                         *)
ServerRecv(r) ==
  /\ server[r] = "loop" /\ alpc_messages_received < Total
  /\ ~ IsEmpty(port[r])
  /\ LET m == Front(port[r])
         id == m.body.section
     IN log' = [log EXCEPT ![r] =
                  Append(@, [msg |-> m,
                             intact |-> id = None \/ (Mappable(id) /\ id \in filled)])]
  /\ port' = [port EXCEPT ![r] = Dequeue(@)]
  /\ alpc_messages_received' = alpc_messages_received + 1
  /\ UNCHANGED <<shell, alpc_test_done, port_list, server, client, table, filled>>

\* Mutant: the server stops one message early.
ServerDoneEarly(r) ==
  /\ server[r] = "loop" /\ alpc_messages_received >= Total - 1
  /\ alpc_test_done' = 1
  /\ server' = [server EXCEPT ![r] = "exit"]
  /\ UNCHANGED <<shell, alpc_messages_received, port_list, port, client, table, filled, log>>

ServerDone(r) ==
  /\ server[r] = "loop" /\ alpc_messages_received >= Total
  /\ alpc_test_done' = 1
  /\ server' = [server EXCEPT ![r] = "exit"]
  /\ UNCHANGED <<shell, alpc_messages_received, port_list, port, client, table, filled, log>>

-----------------------------------------------------------------------------
(* What client c has put together, stamped by alpc_send. *)
MessageOf(c) == [sender_tid |-> c, receiver_tid |-> client[c].port,
                 body |-> [i |-> client[c].i, section |-> client[c].section]]

Step(c, new) == client' = [client EXCEPT ![c] = new]

(* alpc_connect_port: the first port in the list with the name; every port  *)
(* here has the name "test_port".                                           *)
alpc_connect_port(c) ==
  /\ client[c].pc = "connect" /\ port_list # <<>>
  /\ Step(c, [client[c] EXCEPT !.port = Head(port_list), !.pc = "fill"])
  /\ UNCHANGED <<shell, alpc_test_done, alpc_messages_received, port_list, port, server,
                 table, filled, log>>

FreeSlots == {k \in 1 .. Slots : sections[k] = 0}

\* Mutant: two sections are given the same id.
FillSameId(c) ==
  /\ client[c].pc = "fill" /\ client[c].i < Messages
  /\ IF client[c].i % SectionEvery = 0 /\ FreeSlots # {}
     THEN /\ sections' = [sections EXCEPT ![CHOOSE k \in FreeSlots : \A j \in FreeSlots : k <= j]
                                            = client[c].i + 1]
          /\ Step(c, [client[c] EXCEPT !.section = client[c].i + 1, !.pc = "map"])
     ELSE UNCHANGED sections /\ Step(c, [client[c] EXCEPT !.section = None, !.pc = "send"])
  /\ UNCHANGED <<shell, alpc_test_done, alpc_messages_received, port_list, port, server,
                 next_section_id, filled, log>>

(* The next message; alpc_create_section takes the first free entry of the  *)
(* table, and uses up an id even when there is none.                        *)
Fill(c) ==
  /\ client[c].pc = "fill" /\ client[c].i < Messages
  /\ IF client[c].i % SectionEvery # 0
     THEN Step(c, [client[c] EXCEPT !.section = None, !.pc = "send"]) /\ UNCHANGED table
     ELSE /\ next_section_id' = next_section_id + 1
          /\ IF FreeSlots # {}
             THEN /\ sections' = [sections EXCEPT ![CHOOSE k \in FreeSlots :
                                                      \A j \in FreeSlots : k <= j]
                                                    = next_section_id]
                  /\ Step(c, [client[c] EXCEPT !.section = next_section_id, !.pc = "map"])
             ELSE /\ UNCHANGED sections
                  /\ Step(c, [client[c] EXCEPT !.section = 0, !.pc = "map"])
  /\ UNCHANGED <<shell, alpc_test_done, alpc_messages_received, port_list, port, server,
                 filled, log>>

(* alpc_map_section and the memset.  Page 0 is not mapped: writing through  *)
(* a NULL section is a kernel exception, which stops the CPU.               *)
MapSection(c) ==
  /\ client[c].pc = "map"
  /\ IF Mappable(client[c].section)
     THEN filled' = filled \cup {client[c].section} /\ Step(c, [client[c] EXCEPT !.pc = "send"])
     ELSE UNCHANGED filled /\ Step(c, [client[c] EXCEPT !.pc = "fault"])
  /\ UNCHANGED <<shell, alpc_test_done, alpc_messages_received, port_list, port, server,
                 table, log>>

(* alpc_send; a full ring is tried again. *)
alpc_send(c) ==
  /\ client[c].pc = "send" /\ ~ IsFull(port[client[c].port])
  /\ port' = [port EXCEPT ![client[c].port] =
                Enqueue(@, MessageOf(c))]
  /\ Step(c, [client[c] EXCEPT !.i = @ + 1, !.pc = "fill"])
  /\ UNCHANGED <<shell, alpc_test_done, alpc_messages_received, port_list, server, table,
                 filled, log>>

ClientExit(c) ==
  /\ client[c].pc = "fill" /\ client[c].i = Messages
  /\ Step(c, [client[c] EXCEPT !.pc = "exit"])
  /\ UNCHANGED <<shell, alpc_test_done, alpc_messages_received, port_list, port, server,
                 table, filled, log>>

-----------------------------------------------------------------------------
ServerStep(r) == alpc_create_port(r) \/ ServerRecv(r) \/ ServerDone(r)
ClientStep(c) ==
  alpc_connect_port(c) \/ Fill(c) \/ MapSection(c) \/ alpc_send(c) \/ ClientExit(c)

Next ==
  \/ shstest
  \/ ShstestDone
  \/ ShstestWaits
  \/ Prompt
  \/ \E r \in Run : ServerStep(r)
  \/ \E c \in Client : ClientStep(c)

Spec == Init /\ [][Next]_vars

(* A thread of shstest goes on while one can: the scheduler starves none of *)
(* them (StarvationFree of Sched, where that holds).                        *)
Progress ==
  \/ ShstestDone
  \/ \E r \in Run : ServerStep(r)
  \/ \E c \in Client : ClientStep(c)

FairSpec == Spec /\ WF_vars(Progress)

-----------------------------------------------------------------------------
(* Port r is the port of module AlpcPort, and so the queue of module Fifo. *)
Sent == [i : 0 .. Messages - 1, section : 0 .. Runs * Total \cup {None}]
SendingTo(r) == [c \in Client |->
                   IF client[c].pc = "send" /\ client[c].port = r THEN MessageOf(c) ELSE None]
LastFrom(r) == [s \in {r} |-> IF log[r] = <<>> THEN None ELSE log[r][Len(log[r])].msg]
Outcome(r) == IF log[r] = <<>> /\ IsEmpty(port[r]) THEN "none" ELSE "ok"
Port(r) == INSTANCE AlpcPort WITH Receiver <- {r}, Owner <- r, Body <- Sent, port <- port[r],
                                  msg <- SendingTo(r), got <- LastFrom(r), ret <- Outcome(r)

(* However clients, servers and retries interleave, every port is used as   *)
(* AlpcPort describes: what its server receives is what clients had         *)
(* accepted, first in first out, nothing lost, doubled or overwritten, and  *)
(* a refused message is still there to be sent again (alpc.c:61-108,        *)
(* shell.c:575, 619-621).                                                   *)
PortsAreFifo ==
  /\ \A r \in Run : Port(r)!Init /\ Port(r)!F!Init
  /\ [][\A r \in Run : \/ UNCHANGED (Port(r)!vars)
                       \/ Port(r)!Next /\ [Port(r)!F!Next]_(Port(r)!F!fvars)]_vars

FromClient(r, c) == SelectSeq(log[r], LAMBDA e : e.msg.sender_tid = c)

(* "shstest done" means done: every client of the run has sent everything   *)
(* and nothing is left in the ring (shell.c:575-600, 639-643).              *)
DoneMeansAll ==
  /\ ShstestTypeOK
  /\ alpc_test_done = 1 =>
       /\ Len(log[shell.run]) = Total
       /\ \A c \in Client : c[1] = shell.run => Len(FromClient(shell.run, c)) = Messages
       /\ IsEmpty(port[shell.run])

(* Every section the server maps holds what its client wrote: no "integrity *)
(* failure in section!".  No client writes to the section of another; 0 is  *)
(* no section (alpc.c:114-126, shell.c:577-582, 606-611).                   *)
SectionsIntact ==
  /\ \A r \in Run : \A k \in 1 .. Len(log[r]) : log[r][k].intact
  /\ \A c, d \in Client : c # d /\ client[c].pc = "map" /\ client[c].section # 0
                             => client[c].section # client[d].section

(* Every client gets the sections it writes to; none writes through NULL    *)
(* (alpc.c:116-127, shell.c:607-611).                                       *)
NoNullSection == \A c \in Client : client[c].pc # "fault"
=============================================================================
