------------------------------ MODULE MCShell ------------------------------
(***************************************************************************)
(* The shell: typing at it, and the commands that start threads.  They     *)
(* meet only in shell_run, which reads no key while a command runs and     *)
(* runs no command while it reads, so each is looked at alone: part says   *)
(* which.  What typing needs of the commands, that they end, is what the   *)
(* other parts show.                                                       *)
(*                                                                         *)
(* Two letters, the editing keys, a key the shell ignores (tab), a         *)
(* modifier the table maps to 0 and a release it does not cover; a screen  *)
(* of four columns and four rows.                                          *)
(***************************************************************************)
EXTENDS Keyboard, Shstest, Selftests, Clock

MCScancode == {"a", "b", "bs", "nl", "tab", "shift", "release"}
MCTranslate == [s \in MCScancode \ {"release"} |->
                  CASE s = "bs" -> Backspace
                    [] s = "nl" -> Newline
                    [] s = "shift" -> NUL
                    [] OTHER -> s]
MCScript == <<"coretest", "coretest", "ringtest", "schedtest", "schedtest">>

VARIABLE part

all_vars == <<part, kbd_vars, vars, test_vars, clock_vars>>

Terminal(A) == part = "terminal" /\ A /\ UNCHANGED <<part, vars, test_vars, clock_vars>>
Alpc(A) == part = "shstest" /\ A /\ UNCHANGED <<part, kbd_vars, test_vars, clock_vars>>
Tests(A) == part = "selftests" /\ A /\ UNCHANGED <<part, kbd_vars, vars, clock_vars>>
Timer(A) == part = "clock" /\ A /\ UNCHANGED <<part, kbd_vars, vars, test_vars>>

MCInit ==
  /\ part \in {"terminal", "shstest", "selftests", "clock"}
  /\ KbdInit /\ Init /\ TestInit /\ ClockInit

(* Where the model's clock stops. *)
ClockStops == global_ticks = MaxTicks /\ UNCHANGED clock_vars

MCNext ==
  \/ Terminal(KbdNext)
  \/ Alpc(Next)
  \/ Tests(TestNext)
  \/ Timer(ClockNext \/ ClockStops)

(* While some thread of a command can go on, one does; so do the shell when *)
(* it has a key or a command is over, and the timer of each CPU.  Nobody    *)
(* has to type.  That is no more than StarvationFree and SleepEnds of       *)
(* Sched, and needs what they need: where the scheduler starves a ready     *)
(* thread, as it can at the top priority (MCSchedStarve), a command that    *)
(* waits for that thread does not end.                                      *)
MCFairness ==
  /\ WF_all_vars(Terminal(GetKey \/ NextPrompt))
  /\ WF_all_vars(Alpc(Progress))
  /\ WF_all_vars(Tests(ShellTests)) /\ WF_all_vars(Tests(\E t \in live : ThreadStep(t)))
  /\ \A c \in TickCpu : WF_all_vars(Timer(TickLoad(c) \/ TickStore(c)))
  /\ WF_all_vars(Timer(\E s \in Sleeper : Wake(s)))

MCSpec == MCInit /\ [][MCNext]_all_vars /\ MCFairness

(* A client of shstest is lost: the table of sections was full and it wrote *)
(* through NULL, or it found the port of an earlier run, whose server is    *)
(* gone (shell.c:604, 608; alpc.c:49-53, 131).                              *)
Lost(c) == client[c].pc = "fault" \/ client[c].port \notin {0, c[1]}

(* A wait of the shell or of one of its threads.  Two of them are left out, *)
(* which need not end: shstest's when a client is lost, and coretest's when *)
(* coretest has opened worker_lock with a worker of the last one inside:    *)
(* two workers may then be inside and one decrement be lost                 *)
(* (shell.c:558-560, 659).                                                  *)
Waiting ==
  \/ Pending # <<>>
  \/ shell.pc = "wait" /\ \A c \in Client : ~ Lost(c)
  \/ test.pc # "prompt" /\ ~ reset_held
  \/ \E s \in Sleeper : sleep[s].on

(* Every such wait ends, or becomes one of the two: keys typed are read,    *)
(* also those typed while a command ran; schedtest, coretest and ringtest   *)
(* come back to the prompt, with threads of earlier stages and commands     *)
(* still around, and so does shstest while the table has an entry for each  *)
(* section: as shipped it asks for 100 of 64 and does not (MCShstest);      *)
(* b_sleep returns although the clock may be set back during it.  All this  *)
(* if the scheduler starves none of the command's threads (MCFairness)      *)
(* (shell.c:115-135, 433-530, 639-670, 680-685; lib.c:84-89).               *)
EveryWaitEnds == Waiting ~> ~ Waiting
=============================================================================
