------------------------------ MODULE UserMode ------------------------------
(***************************************************************************)
(* In and out of ring 3 on one CPU: the syscall instruction and            *)
(* syscall_entry, interrupts taken in ring 3 and in ring 0, and the switch *)
(* between threads, down to which stack holds what.  A frame on a stack    *)
(* stands for everything pushed there: where to go on, and what was in the *)
(* registers.  Which thread runs next is module Sched's matter, here any   *)
(* may.                                                                    *)
(*                                                                         *)
(* An interrupt saves every register.  syscall_entry saves those of kept   *)
(* below and not r8, r9 and r10, of scratch, which come back as the        *)
(* handler leaves them.  rcx and r11 are the syscall instruction's and rax *)
(* is the call's result; they are left out.                                *)
(*                                                                         *)
(* User threads never move to another CPU, and everything here belongs to  *)
(* one CPU: its cpu_t, its TSS and the stacks of its threads.              *)
(* swapgs exchanges two bases that cpu_init has made equal (cpu.c:14-15),  *)
(* so it changes nothing and is left out.                                  *)
(***************************************************************************)
EXTENDS Naturals

CONSTANTS
  Boot,        \* the idle thread, which stays on the stack it was booted on
  Shell,       \* a kernel thread that spawns user threads
  User,        \* threads of sched_spawn_user
  MaxUse,      \* how far user code moves its stack pointer
  Unset

MaxFrames == 2
Thread == User \cup {Boot, Shell}

ASSUME UserModeAssumption ==
  /\ Boot # Shell /\ Boot \notin User /\ Shell \notin User
  /\ Unset \notin Thread /\ MaxUse \in Nat

StackTop(t) == <<"kernel", t>>
UserStack(t) == <<"user", t>>
Home(t) == IF t = Boot THEN <<"boot", t>> ELSE StackTop(t)
KernelStacks == {StackTop(t) : t \in Thread} \cup {Home(Boot)}
At(s, n) == [stack |-> s, at |-> n]

(* What a register may hold: something of a thread's own code, or what the  *)
(* kernel's code for a thread has left in it.                               *)
LeftBy(t) == <<"handler", t>>
Value == Thread \cup {LeftBy(t) : t \in User}
Regs == [kept : Value,      \* rbp, rbx, r12 to r15, rdi, rsi, rdx
         scratch : Value]   \* r8, r9, r10

VARIABLES
  sched_thread,
  kernel_stack, user_rsp,  \* gs:0 and gs:8, the head of cpu_t
  rsp0,                    \* the stack the TSS names
  cpu,                     \* the processor: [ring, rsp, pc, intr, regs]
  mem,                     \* mem[s][n]: the n-th frame from the top of kernel stack s
  saved,                   \* thread->rsp
  alive,                   \* threads that may be switched to
  usp,                     \* where each user thread's own code has its stack pointer
  scratch                  \* what it finds in r8, r9 and r10: its own or a system call's

own == <<usp, scratch>>
user_vars == <<sched_thread, kernel_stack, user_rsp, rsp0, cpu, mem, saved, alive, own>>

RegsOf(t) == [kept |-> t, scratch |-> scratch[t]]

(* A stack pointer; in a kernel stack there is always room for one frame    *)
(* more.                                                                    *)
Rsp == [stack : KernelStacks, at : 0 .. MaxFrames - 1]
         \cup [stack : {UserStack(t) : t \in User}, at : 0 .. MaxUse]
Frame == [ring : {0, 3}, rsp : Rsp, pc : {"code", "hlt"}, regs : Regs]
           \cup [kept : Value]

ASSUME UnsetAssumption == Unset \notin Frame

(* No kernel stack ever holds more than MaxFrames frames: what an interrupt *)
(* or a system call pushes is popped before the next one at the same depth  *)
(* (interrupt.asm:20-67, syscall_entry.asm:5-54).                           *)
UserModeTypeOK ==
  /\ sched_thread \in Thread
  /\ kernel_stack \in KernelStacks \cup {Unset} /\ rsp0 \in KernelStacks \cup {Unset}
  /\ user_rsp \in Rsp \cup {Unset}
  /\ cpu \in [ring : {0, 3}, rsp : Rsp, pc : {"code", "entry", "handler", "return", "hlt"},
              intr : BOOLEAN, regs : Regs]
  /\ mem \in [KernelStacks -> [1 .. MaxFrames -> Frame \cup {Unset}]]
  /\ saved \in [Thread -> [stack : KernelStacks, at : 1 .. MaxFrames] \cup {Unset}]
  /\ alive \subseteq Thread
  /\ usp \in [User -> 0 .. MaxUse] /\ scratch \in [Thread -> Value]

(* The frame a spawn lays down at the top of the kernel stack. *)
Fresh(t) == [kept |-> t, scratch |-> t]
FirstFrame(t) ==
  IF t \in User THEN [ring |-> 3, rsp |-> At(UserStack(t), 0), pc |-> "code", regs |-> Fresh(t)]
                ELSE [ring |-> 0, rsp |-> At(StackTop(t), 0), pc |-> "code", regs |-> Fresh(t)]

(* The idle thread runs, the shell has been spawned, and the stacks of the  *)
(* CPU are not set before the first switch.                                 *)
UserInit ==
  /\ sched_thread = Boot
  /\ kernel_stack = Unset /\ rsp0 = Unset /\ user_rsp = Unset
  /\ cpu = [ring |-> 0, rsp |-> At(Home(Boot), 0), pc |-> "code", intr |-> TRUE,
            regs |-> Fresh(Boot)]
  /\ mem = [s \in KernelStacks |-> [n \in 1 .. MaxFrames |->
              IF s = StackTop(Shell) /\ n = 1 THEN FirstFrame(Shell) ELSE Unset]]
  /\ saved = [t \in Thread |-> IF t = Shell THEN At(StackTop(Shell), 1) ELSE Unset]
  /\ alive = {Boot, Shell}
  /\ usp = [t \in User |-> 0] /\ scratch = [t \in Thread |-> t]

-----------------------------------------------------------------------------
(* sched_spawn_user; a thread that has gone leaves its stack to the next.   *)
sched_spawn_user(t) ==
  /\ sched_thread = Shell /\ cpu.pc = "code"
  /\ t \in User \ alive
  /\ mem' = [mem EXCEPT ![StackTop(t)][1] = FirstFrame(t)]
  /\ saved' = [saved EXCEPT ![t] = At(StackTop(t), 1)]
  /\ alive' = alive \cup {t}
  /\ usp' = [usp EXCEPT ![t] = 0] /\ scratch' = [scratch EXCEPT ![t] = t]
  /\ UNCHANGED <<sched_thread, kernel_stack, user_rsp, rsp0, cpu>>

(* User code at work on its own stack and in its registers. *)
UserCode(n) ==
  /\ cpu.ring = 3
  /\ cpu' = [cpu EXCEPT !.rsp.at = n, !.regs = Fresh(sched_thread)]
  /\ usp' = [usp EXCEPT ![sched_thread] = n]
  /\ scratch' = [scratch EXCEPT ![sched_thread] = sched_thread]
  /\ UNCHANGED <<sched_thread, kernel_stack, user_rsp, rsp0, mem, saved, alive>>

(* syscall_init: MSR 0xC0000084 has the interrupt flag cleared on entry.    *)
InterruptsInSyscall == FALSE

(* The syscall instruction: ring 0, still on the user's stack. *)
Syscall ==
  /\ cpu.ring = 3
  /\ cpu' = [cpu EXCEPT !.ring = 0, !.pc = "entry", !.intr = InterruptsInSyscall]
  /\ UNCHANGED <<sched_thread, kernel_stack, user_rsp, rsp0, mem, saved, alive, own>>

\* Mutant: interrupts are let in again once the stack has been switched.
syscall_entryOpen ==
  /\ cpu.pc = "entry"
  /\ user_rsp' = cpu.rsp
  /\ mem' = [mem EXCEPT ![kernel_stack][1] = [kept |-> cpu.regs.kept]]
  /\ cpu' = [cpu EXCEPT !.rsp = At(kernel_stack, 1), !.pc = "handler", !.intr = TRUE]
  /\ UNCHANGED <<sched_thread, kernel_stack, rsp0, saved, alive, own>>

(* syscall_entry up to the call. *)
syscall_entry ==
  /\ cpu.pc = "entry"
  /\ user_rsp' = cpu.rsp
  /\ mem' = [mem EXCEPT ![kernel_stack][1] = [kept |-> cpu.regs.kept]]
  /\ cpu' = [cpu EXCEPT !.rsp = At(kernel_stack, 1), !.pc = "handler"]
  /\ UNCHANGED <<sched_thread, kernel_stack, rsp0, saved, alive, own>>

(* sched_exit: interrupts on, and the thread waits to be switched out. *)
Exited(c) == [c EXCEPT !.pc = "hlt", !.intr = TRUE]

(* syscall_handler: call 2 exits, any other prints and returns.  It uses    *)
(* the registers as it likes; r8, r9 and r10 it may also leave alone.       *)
syscall_handler ==
  /\ cpu.pc = "handler"
  /\ \E s \in {cpu.regs.scratch, LeftBy(sched_thread)} :
       LET used == [cpu EXCEPT !.regs = [kept |-> LeftBy(sched_thread), scratch |-> s]] IN
       /\ scratch' = [scratch EXCEPT ![sched_thread] = s]
       /\ \/ cpu' = [used EXCEPT !.pc = "return"] /\ UNCHANGED alive
          \/ cpu' = Exited(used) /\ alive' = alive \ {sched_thread}
  /\ UNCHANGED <<sched_thread, kernel_stack, user_rsp, rsp0, mem, saved, usp>>

(* The rest of syscall_entry, with interrupts back as r11 had them: what    *)
(* was pushed is popped, r8, r9 and r10 stay as they are.                   *)
SyscallReturn ==
  /\ cpu.pc = "return"
  /\ cpu' = [ring |-> 3, rsp |-> user_rsp, pc |-> "code", intr |-> TRUE,
             regs |-> [kept |-> mem[cpu.rsp.stack][cpu.rsp.at].kept,
                       scratch |-> cpu.regs.scratch]]
  /\ UNCHANGED <<sched_thread, kernel_stack, user_rsp, rsp0, mem, saved, alive, own>>

-----------------------------------------------------------------------------
(* Where the processor pushes the frame of an interrupt. *)
Pushed == IF cpu.ring = 3 THEN At(rsp0, 1) ELSE At(cpu.rsp.stack, cpu.rsp.at + 1)
Interrupted == [ring |-> cpu.ring, rsp |-> cpu.rsp, pc |-> cpu.pc, regs |-> cpu.regs]
Push(p) == mem' = [mem EXCEPT ![p.stack][p.at] = Interrupted]

(* interrupt_handler for an exception in ring 3. *)
UserException ==
  /\ cpu.ring = 3
  /\ Push(Pushed)
  /\ cpu' = Exited([cpu EXCEPT !.ring = 0, !.rsp = Pushed])
  /\ alive' = alive \ {sched_thread}
  /\ UNCHANGED <<sched_thread, kernel_stack, user_rsp, rsp0, saved, own>>

\* Mutant: the stacks of the CPU are only set by the first switch.
StackFromOnce(n) == IF rsp0 = Unset THEN StackTop(n) ELSE rsp0

(* What tss_set_stack and cpu->kernel_stack are given. *)
StackFrom(n) == StackTop(n)

\* Mutant: what a kernel thread pushed is not taken off again.
PoppedLeaky(f) == IF f.ring = 0 THEN [f.rsp EXCEPT !.at = @ + 1] ELSE f.rsp

(* The stack pointer after the pops and the iretq. *)
Popped(f) == f.rsp

(* isr_common_stub and sched_reschedule: the frame is pushed, its address   *)
(* kept in the old thread and the new thread's frame popped.                *)
isr_common_stub(n) ==
  LET p == Pushed IN
  /\ cpu.intr
  /\ n \in alive
  /\ Push(p)
  /\ saved' = [saved EXCEPT ![sched_thread] = p]
  /\ sched_thread' = n
  /\ IF n = sched_thread
     THEN UNCHANGED <<rsp0, kernel_stack>>
     ELSE rsp0' = StackFrom(n) /\ kernel_stack' = StackFrom(n)
  /\ LET f == mem'[saved'[n].stack][saved'[n].at] IN
     cpu' = [ring |-> f.ring, rsp |-> Popped(f), pc |-> f.pc, intr |-> TRUE, regs |-> f.regs]
  /\ UNCHANGED <<user_rsp, alive, own>>

UserNext ==
  \/ \E t \in User : sched_spawn_user(t)
  \/ \E n \in 0 .. MaxUse : UserCode(n)
  \/ Syscall
  \/ syscall_entry
  \/ syscall_handler
  \/ SyscallReturn
  \/ UserException
  \/ \E n \in Thread : isr_common_stub(n)

UserSpec == UserInit /\ [][UserNext]_user_vars

-----------------------------------------------------------------------------
(* Only the first instructions of syscall_entry are on the user's stack     *)
(* (syscall_entry.asm:7-8, sched.c:241-242).                                *)
OnOwnStack ==
  cpu.rsp.stack = IF cpu.ring = 3 \/ cpu.pc = "entry" THEN UserStack(sched_thread)
                  ELSE Home(sched_thread)

(* Code goes on with what it had in its registers and with its stack        *)
(* pointer where it was, although all threads of a CPU share one slot for   *)
(* it.  r8, r9 and r10 are its own too after any interrupt and switch; a    *)
(* system call of its own, and no other thread's, may leave something else  *)
(* in them (interrupt.asm:20-67, syscall_entry.asm:7, 10-22, 31-47).        *)
ResumesWhereItLeft ==
  /\ cpu.pc = "code" => cpu.regs = RegsOf(sched_thread)
  /\ scratch[sched_thread] \in {sched_thread, LeftBy(sched_thread)}
  /\ cpu.ring = 3 => cpu.rsp.at = usp[sched_thread]

(* Stacks never mix: the kernel works for a thread on that thread's own,    *)
(* and what a thread that waits has left on its stack stays as it was,      *)
(* through other threads' interrupts, system calls and exits                *)
(* (interrupt.asm:20-67, the register test of shell.c:289-333).             *)
ContextsIntact ==
  /\ OnOwnStack
  /\ \A t \in alive \ {sched_thread} :
       LET f == mem[saved[t].stack][saved[t].at] IN
       /\ saved[t].stack = Home(t)
       /\ f # Unset /\ f.regs = RegsOf(t)
       /\ f.ring = 3 => t \in User /\ f.rsp = At(UserStack(t), usp[t])
       /\ f.ring = 0 => f.rsp.stack = Home(t) /\ f.rsp.at < saved[t].at

(* What a thread has to come back to. *)
Context(t) ==
  IF t \in User
  THEN [ring |-> 3, rsp |-> At(UserStack(t), usp[t]), pc |-> "code", regs |-> RegsOf(t)]
  ELSE [ring |-> 0, rsp |-> At(Home(t), 0), pc |-> "code", regs |-> RegsOf(t)]

(* Where the processor can be for the current thread t: in its code, in     *)
(* the first instructions of a system call, in the handler, or waiting to   *)
(* be switched out for good.                                                *)
InCode(t) ==
  /\ t \in alive
  /\ cpu = [ring |-> Context(t).ring, rsp |-> Context(t).rsp, pc |-> "code", intr |-> TRUE,
            regs |-> RegsOf(t)]
InEntry(t) ==
  /\ t \in alive \cap User
  /\ cpu = [ring |-> 0, rsp |-> At(UserStack(t), usp[t]), pc |-> "entry", intr |-> FALSE,
            regs |-> RegsOf(t)]
InService(t) ==
  /\ t \in alive \cap User
  /\ cpu.pc \in {"handler", "return"} /\ cpu.regs.scratch = scratch[t]
  /\ cpu = [ring |-> 0, rsp |-> At(StackTop(t), 1), pc |-> cpu.pc, intr |-> FALSE,
            regs |-> cpu.regs]
  /\ user_rsp = At(UserStack(t), usp[t])
  /\ mem[StackTop(t)][1] = [kept |-> t]
InExit(t) ==
  /\ t \in User \ alive
  /\ cpu = [ring |-> 0, rsp |-> At(StackTop(t), 1), pc |-> "hlt", intr |-> TRUE,
            regs |-> cpu.regs]

(* The invariant behind the two above: the current thread is at one of      *)
(* those places, with both of the CPU's stack pointers on its kernel stack  *)
(* if it is a user thread, and every other thread that may be switched to   *)
(* has exactly one frame on its stack, the one it goes on from              *)
(* (syscall_entry.asm:5-54, interrupt.asm:20-67, sched.c:239-242).          *)
UserModeInv ==
  /\ UserModeTypeOK
  /\ sched_thread \in User => rsp0 = StackTop(sched_thread) /\ kernel_stack = rsp0
  /\ \/ InCode(sched_thread)
     \/ InEntry(sched_thread)
     \/ InService(sched_thread)
     \/ InExit(sched_thread)
  /\ \A t \in alive \ {sched_thread} :
       saved[t] = At(Home(t), 1) /\ mem[Home(t)][1] = Context(t)
  /\ \A t \in Thread : scratch[t] \in {t, LeftBy(t)}
=============================================================================
