# Barium in TLA+

A verification project for the Barium kernel: TLA+ models of its way up from the
firmware, its scheduler, its clock, its message ports, its allocators, its page
tables, its locks, its shell and its way in and out of user mode, checked by TLC
on small instances. What is proved with TLAPS for every value of the constants
is the safety of the scheduler, the ports and sections, the clock, system calls and
interrupts, the page allocator and its search, the heap, the page tables, the locks,
the way of a key to the command line, the boot loader and the start of the cores.

Paths below are relative to the repository's `src/` (`kernel/sched.c`) unless
they say otherwise. `PROJECT.json` lists components, runs, mutants, the map from
definitions to source lines, findings, hazards and theorems.

## The system

Barium is an x86-64 SMP kernel started by a UEFI loader. These are the parts with
state that changes:

| part | source | shared between |
|---|---|---|
| scheduler: per-CPU run queues by priority, sleep queue, slices, ageing, handoff | `kernel/sched.c` | all CPUs; interrupt 0x20 and calls |
| interrupt stub, dispatch, timer | `kernel/interrupt.asm`, `idt.c`, `apic.c` | a CPU's threads |
| system calls and ring 3 | `kernel/syscall.c`, `syscall_entry.asm`, `gdt.c` | a CPU's threads |
| ALPC ports and sections | `kernel/alpc.c` | clients and servers on all CPUs |
| physical pages, heap, page tables | `kernel/pmm.c`, `heap.c`, `vmm.c` | all threads |
| keyboard ring, shell and console | `kernel/keyboard.c`, `shell.c`, `console.c` | interrupt 0x21, the shell, all threads that print |
| the shell's self-tests | `kernel/shell.c` | the shell and the threads they spawn |
| clock and `b_sleep` | `kernel/apic.c`, `lib.c` | the timer interrupts of all CPUs |
| spinlocks, interrupt flag | `kernel/lib.c` | everything |
| CPU start-up | `kernel/smp.c`, `smp_boot.asm`, `cpu.c`, `sched_init` | boot CPU and the cores it has started |
| boot loader, kernel entry, ACPI | `boot/main.c`, `kernel/kernel.c`, `entry.asm`, `acpi.c` | the firmware and the loader, then the boot CPU alone |

They meet in a few places. `efi_main` hands `kmain` the memory map from which
`pmm_init` and `vmm_init` build everything else, in memory where the map, the
kernel and the ACPI tables themselves lie. The timer interrupt runs the scheduler
on top of whatever thread it hits. `alpc_send` ends in `sched_handoff`, which pulls the
port's server to the sender's CPU. `alpc_map_section` calls `vmm_map`, which
calls `pmm_alloc`. The heap's pool comes from `pmm_alloc`, and the scheduler
allocates threads and stacks from the heap. Every one of these takes spinlocks.

The unit of atomicity: a section the code runs with interrupts off and a lock
held is one action; everything between two such sections can interleave with
other CPUs and, where interrupts are on, with interrupts. Where the code takes
no lock (`vmm_map`, `global_ticks++`, `cpus[cpu_count_actual++]`,
`finish_order++`, the tail of `isr_common_stub`, the boundary between two locked
halves of a spawn or a handoff) the model has a step per access. The Makefile
does not ask for optimisation, so each access in the source is one in the machine.

## Modules

| module | models | state and actions |
|---|---|---|
| `SchedCore` | what the scheduler promises, timing left open | queues as sets; `SpawnTid`/`SpawnPush` (the two locked halves of `sched_spawn` and `sched_spawn_user`), `Sleep`, `Exit`, `HandoffTake`/`HandoffInsert`, `Reschedule` (interrupt 0x20), `SwitchStack` (the `mov rsp, rax` of the stub) |
| `Sched` | `sched.c` as written | queues as lists, slices, ageing, tick loss, round-robin spawn, CPU-by-CPU handoff scan; refines `SchedCore` (`CoreSpec`) |
| `SchedAlive` | `sched_is_alive` beside `SchedCore` | `AskBegin`, `AskNext`: one CPU at a time |
| `SchedStepProofs`, `SchedProofs` | lemmas per action, and the theorems about `SchedCore` and `SchedAlive` | |
| `AlpcRing` | the tests and updates on a port's ring | `IsFull`, `Enqueue`, `Dequeue` ... |
| `Fifo` | abstract specification of a port: a bounded queue | `Send`, `Recv` |
| `AlpcPort` | one port under concurrent `alpc_send` and `alpc_recv`; implements `Fifo` | |
| `Shstest` | the shell's `shstest`: server, clients, port list, section table, wait flag | composes `AlpcRing`; each port refines `AlpcPort` and `Fifo` (`PortsAreFifo`) |
| `Pmm`, `PmmSearch` | page allocator; its two search loops step by step | `Alloc`, `Free` |
| `Heap` | `kmalloc`, `kfree` | block list in address order |
| `AllocatorProofs` | theorems about `Pmm`, `PmmSearch` and `Heap` | |
| `Vmm` | `vmm_map` load by load and store by store, `vmm_get_phys` | `Test`, `Store`, `Load`, `Write` |
| `VmmProofs` | theorems about `Vmm` | |
| `Console` | what `console.c` does to the screen | `console_putc`, `console_print` as functions on cursor and glyphs |
| `Keyboard` | ring from `keyboard_handler` to `shell_run`, the line editor and its echo on the `Console` | `keyboard_handler`, `GetKey` (one turn of `shell_run`), `NextPrompt` |
| `ShellProofs` | theorems about `Keyboard` and the sections of `Shstest` | |
| `Selftests` | `schedtest`, `coretest`, `ringtest`: the shell, the threads of each stage and the variables they share | `Setup`, `SpawnNext`, `WaitOver`, `WaitMore`; `RunOnce`, `LoopEnds`, `TimerRings`, `priority_racer`, `core_worker` |
| `Clock` | `apic_timer_handler`'s increment as load and store, `b_sleep` | `TickLoad`, `TickStore`, `b_sleep`, `Wake` |
| `UserMode` | `syscall` / `syscall_entry`, interrupts in ring 3 and ring 0, switches, down to which stack holds which frame | `Syscall`, `syscall_entry`, `syscall_handler`, `SyscallReturn`, `UserException`, `isr_common_stub` |
| `ServiceProofs` | theorems about `AlpcPort`, `Clock` and `UserMode` | |
| `Locks` | the calls that nest locks or share them with handlers, each as its sequence of lock, unlock, save and restore, with interrupts on top | `Begin`, `Step`, `Interrupt` |
| `LocksProofs` | theorems about `Locks` | |
| `Loader` | `efi_main` with the firmware's events, then `pmm_init`, `idt_init`, `vmm_init`, `acpi_init`, `heap_init` and the trampoline, by what they put in which page | one action per call |
| `SmpBoot` | `smp_init` beside the trampoline, `smp_ap_entry`, `cpu_init` and `sched_init` of each core | `Prepare`, `Sipi`, `Poll`; `Trampoline`, `Report`, `CountLoad` ... `Unlock` |
| `BootProofs` | theorems about `Loader` and `SmpBoot` | |
| `Boot` | composes `Loader` and `SmpBoot`: from power-on to the shell | |

`MC*` modules and `.cfg` files give the constants their values. An operator
whose name extends that of the operator after it, under the comment `Mutant:`,
is a plausible bug; replacing the original by it must break the property that
`PROJECT.json` pairs it with.

Data are abstract where no property looks at them: a thread is a model value,
memory contents are left out except for the `X` of a section and the frames of a
kernel stack, and outside `Clock` time is kept as the differences the code compares.

## Runs

States are distinct states found by TLC.

| run | configuration | checks | states |
|---|---|---|---|
| `sched_core` | 2 CPUs, shell, a server, a worker, 2 priorities; the shell asks for the worker | no thread is in two places or in none; stacks; resumption; priorities; who stays on its CPU; answers of `sched_is_alive`; the inductive invariant `AInv` | 96,591 |
| `sched_lists` | 2 CPUs, shell and server, which sleeps; an ageing pass every tick that is not lost | `Sched` implements `SchedCore`; the lists are sound | 50,067 |
| `sched_live` | 1 CPU, 3 priorities, shell sleeps, 2 workers; an ageing pass every tick | `StarvationFree`, `SleepEnds` | 11,294 |
| `sched_starve` | 1 CPU, 2 priorities, 2 sleepers | **violates** `StarvationFree` | |
| `shell` | typing: ring of 3, line of 2, 5 keys, screen of 4 by 4; `shstest`: 2 runs with 2 clients of 2 messages, 4 table entries, ring of 3; self-tests: 2 CPUs, 5 commands; clock: 3 CPUs, 5 ticks | no key lost, the line run is the line typed and the line shown; FIFO ports, intact sections, "done" and "complete" mean all; finish places; sleeps not short; every wait ends, but for two kinds | 167,058 |
| `shstest_full` | 4 sections, 3 entries | **violates** `NoNullSection` | |
| `memory` | 20 pages with holes, also in an incomplete last byte of the bitmap; pool of 32 bytes; 2 mappers in different root slots | allocators: owners, bitmap/list and counters agree, failure only when nothing fits, the loops of `pmm_alloc` find what the specification says; a mapping stays, and changes no other | 202,518 |
| `vmm_race` | 2 mappers in one root slot | **violates** `MapSticks` | |
| `user_mode` | idle, shell, 2 user threads | own stack, own registers, saved contexts untouched | 108,658 |
| `locks` | 2 CPUs, 3 threads, every lock pattern | no spinning with interrupts off on a holder that cannot go on; interrupts come back | 186,154 |
| `boot` | 9 pages, 2 maps; boot CPU and 2 cores | the map is current, memory is intact when used, cores do not get in each other's way, tids are unique, the boot ends | 709,857 |
| `boot_ok` | the same | **violates** `OkMeansUp` | |

### Why the bounds are enough

Two CPUs and one thread of each kind (idle, shell, server, worker) give every
pair of roles that can meet at a lock; the interesting scheduler cases (a handoff
from the other CPU inside the switch window, an exit during `sched_is_alive`, an
aged thread reaching the top) all occur, which the mutants confirm. The counters
of `Sched` are scaled down (`AgePeriod`, `AgeLimit`, `SliceUnit` stand for 20, 19
and 2) because only their order relations appear in guards. Rings have three
slots, so they fill, empty and wrap. The theorems remove the bounds for
`SchedCore`, `SchedAlive`, `AlpcPort`, the sections of `Shstest`, `Keyboard` but for the
screen, `Clock`, `UserMode`, `Pmm`, `PmmSearch`, `Heap`, `Vmm`, `Locks`, `Loader` and
`SmpBoot`.

Five keys overfill the ring and the line and still leave one to edit with; the
screen is narrow and low enough to wrap and to come back to the top. The script
runs `coretest` and `schedtest` twice, and `shstest` is run twice, so that each meets
threads or ports of itself left over, the self-tests on two CPUs, so that racers meet both on one CPU and across. In `Clock` a
sleep of two ticks among five, with three CPUs, has room for lost increments, for
a set-back and for a second one on top. The pages of `Boot` are one of each kind
that the code tells apart, six of them above the low memory, where bitmap,
tables and heap go; two extra cores are enough for one to be left behind while
the next one starts. `smp_init` prepares a core with two stores, `stack_top` and `status`,
which are one action (`Prepare`): only a core left behind could come between them.

The runs `memory` and `shell` take independent parts one at a time. The
allocators share no state after `heap_init`; the shell reads no key while a
command runs. So every interleaving projects to these.

Named bounds of the models: `MaxKeys` in `Keyboard`, `MaxTicks` in `Clock`,
`Script` in `Selftests`, `MaxWait` in `Sched`, `MaxUse` in `UserMode`, `Runs`,
`ClientsPerRun`, `Messages` in `Shstest`, and `Spare` in `Loader`, the pages the
firmware leaves for what the loader still asks for, so that `allocate_pool` does not fail. `MaxFrames` in
`UserMode` is not a bound on behaviour but a claim that is checked.

### What properties leave out

Some properties hold only under a condition that the code does not establish.
The models have the other case too; the condition is in the property, through a
variable that remembers what happened. Without it TLC refutes them.

| property | condition | otherwise |
|---|---|---|
| `StackSafe` | the thread serves no port | a handoff starts it on a stack still in use |
| `ScreenShowsLine` | the line has not wrapped and the text has not come back to the top | backspace does not go up a row, and glyphs are drawn over old ones |
| `SleepsLongEnough` | the clock was not set back when the sleep began (`set_back`) | the sleep is short by the set-back |
| `PlacesDistinct` | two racers on one CPU | on two CPUs they can get one place: `cli` keeps out only one's own CPU |
| `CoresApart`, stacks | no core was left without its stack (`unloaded`) | a core that is slower than its timeout takes the next one's stack |
| `CoresApart`, slots | no core was left under way (`late`) | two cores take one slot of `cpus[]` |
| `TidsUnique` | one core found itself the first (`firsts`) | the second reset opens a lock that is held |
| `MapCurrent` | the firmware was quiet while the loader left (`stirred`) | the map's buffer is too small, or `exit_boot_services` is refused, and nobody looks |
| `MemoryIntact`, the map | its buffer was large enough (`Garbage`) | `pmm_init` works from what the buffer held |
| `MemoryIntact`, the bitmap until `vmm_init` | boot services are over | firmware that goes on may take the page, until `idt_init` |
| `PmmInv` | the page is not a hole in an incomplete last byte of the bitmap (`stray`) | `memset` does not reach that byte; a hole may be given out, uncounted |
| `ResumesWhereItLeft`, `r8` to `r10` | the thread itself made no system call since it set them (`scratch`) | `syscall_entry` does not save them |
| `EveryWaitEnds`, `shstest` | every client got its sections and found the port of its own run (`Lost`) | the server waits for messages that never come |
| `EveryWaitEnds`, `coretest` | no old worker held `worker_lock` when it was reset (`reset_held`) | two workers are inside at once, and a decrement can be lost |

The last two are both reached in the run `shell`, but for the table that is too small: as
shipped, `shstest` asks for 100 sections of a table of 64 and so never ends (`shstest_full`).
`coretest` opens a held lock when it is entered while the last worker of the one before has
counted itself out and not yet unlocked; keys typed ahead make that a matter of a few
instructions. `CoretestComplete` has no such condition: a lost decrement makes the shell
wait too long, never too short.

### Fairness

- `Sched`: the APIC timer is periodic and interrupts are off only for bounded
  stretches, so each CPU takes interrupt 0x20 again and again and finishes what
  it began. `TimerInterrupt(c, 1)` is strongly fair because an increment of
  `global_ticks` is lost only to another CPU's increment.
- run `shell`: weak fairness of the shell when it has a key or its command is
  over, of the threads of a command taken together, and of each CPU's timer. This
  is no more than `StarvationFree` and `SleepEnds` say: no thread of a command is kept
  from running for ever. So `EveryWaitEnds` stands under the same condition as they do.
  The scheduler meets it in `sched_live`; in `sched_starve`, with sleepers that wake in
  turn at the top priority, it does not, and a command waiting for a thread that is
  starved there would not end. Nobody has to type.
- `Boot`: the loader runs alone and goes on; the boot CPU polls, and every core
  that was started executes. Start-up interrupts may be lost, and a timeout may
  come at any time.
- `Locks`: strong fairness of each CPU's steps. The spinlock is a test-and-set
  without a queue; strong fairness says a CPU that finds the lock free again and
  again gets it in the end, which hardware gives with probability one only.

`shstest_full` switches the deadlock check off: a client that has taken the
kernel exception stops, and so may everyone waiting for it. `boot` does too: the
model ends with the shell spawned, or where loader or kernel gives up.

## What the runs found

1. **Starvation at the top priority** (`sched_starve`). The repository's README
   promises "round-robin fairness". A woken sleeper is put at the head of its
   queue (`sched.c:199-200`) and ageing does not visit the queue of
   `MAX_PRIORITY`. Two threads that sleep in turn keep a third from running.
2. **Section table** (`shstest_full`). `shstest` asks for 100 sections and
   `sections[]` has 64 entries. The client that gets none writes through NULL,
   and page 0 is unmapped.
3. **`vmm_map` race** (`vmm_race`). Clients map sections concurrently. When two
   find the same table missing, one table replaces the other together with the
   mapping behind it.
4. **"ok" for a core that does not run** (`boot_ok`). Each core sets the status
   word twice, in the trampoline and at the end of `smp_ap_entry`. The first store
   ends the wait of `smp_init`, which clears the word and starts the next core;
   the second store then ends that wait too.

More is visible in the models without a statement in the repository that it
contradicts; the properties name these cases as conditions (above), and TLC refutes each
property without its condition:

- ports are never removed, so clients of a second `shstest` can connect to the port of
  the first one's dead server;
- `coretest` resets `worker_lock` (`shell.c:659`) whoever holds it;
- `syscall_entry` does not save `r8`, `r9` and `r10`, and the callers (`shell.c:30, 109`)
  do not list them as clobbered;
- the size of the page bitmap is rounded down (`pmm.c:39`), so up to seven bits at its end
  are never initialised.

## Proofs

Each proof module begins with `USE ZenonT(5), SMT` (15 seconds in the longer ones): a step is
tried with Zenon first and then with the SMT solver. In tlapm the cost of preparing a step for
the SMT solver grows with the number of steps it has prepared before, so a long module is
checked reliably only if the steps without arithmetic go to Zenon. Steps with arithmetic name
`SMT` themselves.

`SchedProofs` proves for any number of CPUs, threads and priorities, from
`CoreAssumption` (distinct idle threads, the shell and the servers are not idle
threads):

- `TypeCorrect`, `ThreadInOnePlace`, `NoThreadLost`, `StackSafety`,
  `NeverResumes`, `PriorityOrder`.

None of these is inductive alone. `IInv` adds that `thread->state` tells which
kind of place a thread is in (`StateTellsPlace`) and conversely (`Somewhere`),
that a queue holds READY threads of its own priority (`QueueMatches`), that every
CPU keeps its idle thread at home (`IdleAtHome`, which is why the fall-through of
`sched_reschedule` never resumes a stopped thread), and what the old stack of a
CPU inside the switch window may be (`StackAgrees`). Each action has a lemma that
it preserves `IInv` (`SchedStepProofs`). `Inductive` puts them together, and the
theorems follow from `Invariance`.

It also proves that an answer 0 from `sched_is_alive` can be trusted
for threads that no handoff moves (`AliveTrusted`). The strengthening is that
such a thread is only ever found on the CPU its `core_affinity` names (`Pinned`),
so a call that has passed that CPU asks about a thread that is gone
(`PassedIsDead`). With `Pinned`,
`ThreadStaysPut` says that a thread that owns no port never leaves its CPU, which
`sched_get_tid` and the self-tests take for granted.

`ServiceProofs` has what threads get from the kernel. It proves that a port of any size with any number of senders keeps
its indices in range (`PortInvariance`) and implements `Fifo`
(`PortImplementsFifo`), with the slots from head to tail as the abstract queue.

Of the clock it proves, from `ClockAssumption`, for any number of CPUs and sleepers
that what clock and handlers agree has passed stays passed (`NothingUnpasses`),
and that a sleep begun on a clock that is not set back is not short
(`SleepNotShort`). The second is not inductive, for a handler may hold a value
that the clock does not show yet. `ClockInv` adds that neither the clock nor any
handler is further from the sleeper's start than the interrupts it has lived
through (`NotAhead`).

`BootProofs` proves, from `SmpAssumption` (the tables name each core once), for
any number of cores of any speed that cores run on their own stacks
(`CoresOnTheirStacks`) and that no tid is given twice (`NoTidTwice`). `StackInv`
adds that a core without its stack is the one being started or was left behind.
`TidInv` adds that until the first core has stored its tid nobody else is past
the test of `next_tid`, so the lock it opens is not held, and that whoever is
inside holds it and has loaded the current `next_tid`. `SmpInv` is both.

For the slots of `cpus[]` (`CoresKeepApart`, which is all of `CoresApart`) two more
are needed, both under the condition that no core was left under way: `AloneInv`,
that the only core under way is the one `smp_init` waits for, and that the status
word speaks of that one; and `SlotInv`, that `cpus[]` is filled from the front, that
`cpu_count_actual` counts the cores in it, with the one that has stored the count
and not yet its slot, and that an index a core has loaded is still the first free.

Of system calls and interrupts `ServiceProofs` proves, for any set of user threads
on a CPU and from `UnsetAssumption` (an unwritten word is no frame), that user code
goes on with its own registers and stack pointer (`UserCodeResumes`; `r8` to `r10` only
until its next system call, and never with another thread's), that the
kernel works on the stack of the current thread and leaves the contexts of the
others alone (`StacksNeverMix`), and that no kernel stack holds more than two frames
(`StacksBounded`). `UserModeInv` says where the current thread can be: in its code,
at `syscall_entry`, in the handler, or in `hlt` after its exit, and what its stack
holds at each of these places; `rsp0` and `gs:0` are its own whenever it is a user
thread; every thread that waits has one frame, that from which it goes on.

`AllocatorProofs` proves, from `PmmAssumption` (the descriptors do not overlap, one above
low memory has room for the bitmap, and the last byte of the bitmap, if incomplete, is in a
page of the bitmap, as it is unless memory ends 1 to 7 pages after a multiple of 32768), for
every map, whatever that byte held, and every sequence of requests that no page has two
owners and that bitmap and counter agree with what was given out, but for the holes whose
bits were never set (`PmmInductive`), and that a request fails only when nothing fits but,
perhaps, the last run of memory (`RefusesOnlyFull`). `PmmInv` is inductive as it
stands. What takes work is the start: that `pmm_init` counts each page once, over a
list of descriptors of any length. That is an induction, done on the set of lengths
for which the count is right (`NatInductive`).

It also proves that the two loops of `pmm_alloc`, which jump behind the first taken page of
a run that does not fit, find the run that `Pmm` says they find (`LoopsAreNextFit`). The
loops are recursive functions whose argument only goes up to a limit: such a function exists
(`UpwardLoop`), and what holds at an index when it holds at all later ones holds everywhere
(`DownwardInduction`). With these, the inner loop stops at the first taken page
(`FirstTakenIs`), and since every run the outer loop jumps over holds that page, it misses
none that fits (`LoopIs`).

Of the heap it proves, from `HeapAssumption` (the header and the pool are multiples of the
alignment, and `NULL` is no place in the pool, where addresses count from its start), for
every pool and every sequence of `kmalloc` and `kfree` that the blocks tile the pool, that
every caller has a block of its own, large enough and aligned, and that no two free blocks
are neighbours (`HeapSound`). `HeapInv` follows from `HeapStrong`, which says the same block by
block and has what callers hold as the image of the blocks in use. `kmalloc` replaces a
block by one or two that fill its place (`CarveKeeps`). The merging loop of `kfree` is an
induction over the list: up to each block, what is done so far is laid out without a gap,
without free neighbours, and with every block in use that was there before (`AbsorbKeeps`,
`CoalesceKeeps`). From this, `HeapRefusesOnlyWhenFull`: `kmalloc` fails only when every stretch
of bytes outside the blocks in use is too short for the request and its header. This is
stronger than what the loop tests, and is what merging is for.

`LocksProofs` proves, from `LocksAssumption` (every CPU has a thread, and threads,
interrupts and `None` are different things), for any number of CPUs and threads making
any of the calls, that a call gives back on every return path what it took
(`EverythingGivenBack`) and that a CPU that spins with interrupts off waits for one
that runs, and that one for nobody who waits (`NoDeadlock`). Neither is inductive: in
the middle of a call one must know what is left of it. `LocksInv` says that what is
left takes the context from the mode it is in (how often interrupts are off, which
locks it holds) back to the idle one, by operations that keep a discipline (`Goes`):
the section lock is taken with interrupts on and nothing held, every other lock with
interrupts off, and a second lock only if the first is a scheduler's or `alpc_test` and
the second the heap's or the console's (`Outer`, `Inner`). The code states this order
nowhere. It is also part of the invariant that a thread with interrupts off keeps its
CPU. Every call is shown to be such a program once, the loops over all CPUs from
their rounds, each of which ends in the mode it began in (`GoesLoop`); then each step only moves along. A chain of
waiting CPUs has at most two links, since the holder of an `Inner` lock asks for no
other.

`VmmProofs` proves, for any number of threads inside `vmm_map` at once, that the
tables stay a tree and mappings stay (`VmmInductive`), and that a call changes no
translation but that of its own address (`MapTouchesOnlyItsOwn`). Both are under
the hypothesis `RootsApart`: addresses that different threads map differ in the
first index. The code does not establish it, and it cannot be dropped, as `vmm_race`
shows. It holds where one thread does all the mapping, as `vmm_init` does, and in
the run `memory`, which evaluates it. `VmmInv` adds to the tree that entries of each
level lead to what belongs there (`LevelsRight`), that a walk is at the table its
indices lead to, with a new table that nobody else has seen (`WalkRight`), and that
an unused page is empty and nothing refers to it (`Detached`).

Of the loader `BootProofs` proves, from `LoaderAssumption` (kernel and trampoline are apart in
low memory, the firmware's first map has boot data and ACPI tables, the latter not
in page 0, which `vmm_init` leaves out, and there is a graphics mode), for every machine and whatever the firmware allocates or
frees and writes to its own memory, between the calls of `efi_main` and, if it refused to
stop, until `idt_init`, that the kernel has the last map
if the firmware was quiet at the end (`KernelHasTheMap`) and that what it reads or runs is where it was put
(`NothingOverwritten`, with the two conditions in the table above). `LoaderInv` adds which page belongs to what at each point
(`Accounts`), that the buffer has room for the map as it will be when it is read
(`RoomEnough`; a page that changes its type starts at most two more descriptors,
`StartsGrow`), and that bitmap, tables and heap each have a page of their own, no
longer free and above the low memory where the trampoline goes (`Taken`, `HighFree`).

`ShellProofs` proves, from `KeyboardAssumption` (0, newline and backspace are not printable),
for every size of the ring and of the line, every key table and every interleaving of the
interrupt with the shell, that no key the ring accepted is lost, doubled or read out of turn
(`EveryKeyInOrder`), and that the shell runs exactly the lines that were typed
(`OnlyWhatWasTyped`). `KeysInv` says slot by slot which key the ring holds, without the modulo
arithmetic (`Held`, `Place`). `EditInv` says that between prompts `cmd` up to `pos` is the line
that the keys read so far mean, with a 0 behind it. What keys mean (`Meant`) is a recursive
function of the keys; `MeantAppend` unrolls it by one.

Of `shstest` it proves, from `ShstestAssumption`, for any number of runs, clients, messages,
table entries and ring slots, that a server maps only what its client has written and that no
two clients write to one section (`SectionsArriveIntact`), also when the table is full and a
client gets none. `SectionsInv` adds that ids in the table are below the next one
(`TableInv`), that a client about to write has an id nobody else has (`OwnersInv`), and that
what clients are about to send, what lies between head and tail of each ring and what was
received are sections in the table that were written to (`SentInv`).

Only model-checked:

- every liveness property: fairness is outside the prover's reach;
- the refinement `Sched` to `SchedCore` and `ListsSound`, which need facts about filtered,
  reversed and concatenated lists that the library does not state;
- `ScreenShowsLine` and `DoneMeansAll`: the screen is a fold over all that was printed, and
  the number of messages a sum over the clients. Inductions that can be put as a set of
  numbers closed under successor are in the provers' reach, as the heap shows, and these
  might be; they are not done;
- `CoretestComplete` and `PlacesDistinct`, which are not proved yet;
- `LocksInv` is proved and not run: it asks whether some function from places of a
  program to modes exists, which TLC would have to enumerate.

## Not modelled

- The contents of the GDT, TSS and IDT, the PIC, the calibration of the APIC and
  the flag bits of page table entries: tables and device registers written once.
  What depends on them (which stack an interrupt uses, which vectors there are)
  is in `UserMode` and `Locks`.
- The declarations of `efi.h`. The firmware is modelled from the calls `efi_main`
  makes, and `allocate_pool` is never seen to fail (`Spare`). After `idt_init` an interrupt
  of a firmware timer that still runs goes to the kernel's handlers.
- What the kernel does without room for its bitmap, with a map that was never written or a
  bitmap that the firmware has taken (`"noram"`, `"astray"` in `Loader`), or when `kmalloc`
  or `pmm_alloc` fails inside spawn, port creation and `vmm_map`: the code does not check, and what follows is memory corruption.
- A last byte of the bitmap that lies in a page behind the bitmap's (`PmmAssumption`).
- `port_list_lock` and `worker_lock` in `Locks`: like `kbd_lock` they are taken with
  interrupts off and nothing is taken inside. What goes wrong with `worker_lock`, its reset,
  is in `Selftests`.
- `pmm_alloc` of several pages near the end of the bitmap, where the second loop
  reads past it (`Called` in `Pmm`); only `heap_init` asks for several pages.
- `current_tick - last_age_tick` after the clock was set back: `Clock` has the
  set-back, `Sched` loses single increments only.
- Machines with more than 64 processors.
- `gdttest`, `tsstest`, `idttest`, `pmmtest`, `heaptest`, `vmmtest`, `timertest`
  and the commands that only print: sequential, each drives one component that is
  modelled. What the stages of `schedtest` measure is not modelled, only that
  they end and how their threads share state.
- The glyphs of the font, colours and wording of the console.
