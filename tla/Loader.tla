------------------------------- MODULE Loader -------------------------------
(***************************************************************************)
(* From the firmware to smp_init: efi_main (src/boot/main.c) gathers what  *)
(* the kernel needs, loads it, takes the memory map and leaves boot        *)
(* services; kmain (src/kernel/kernel.c) then builds its page allocator    *)
(* (pmm_init) and its page tables (vmm_init) from that map, reads the ACPI *)
(* tables, takes the heap's pool and lays the trampoline out in low        *)
(* memory.  The question is whether everything is still where it was put   *)
(* when it is used.                                                        *)
(*                                                                         *)
(* Memory is a few pages: memmap is the firmware's account of them, mem    *)
(* says what was last written where.  The firmware is modelled from the    *)
(* calls efi_main makes.  Its own timers may allocate and free at any time *)
(* while boot services last: the way out does not turn interrupts off, so  *)
(* when the firmware refuses to stop, until idt_init takes the interrupt   *)
(* table from it.                                                          *)
(***************************************************************************)
EXTENDS Naturals, Sequences, FiniteSetsExt

CONSTANTS
  Pages,       \* pages of the machine
  Maps,        \* memory maps the firmware may begin with
  KernelAt,    \* the pages at 0x100000 that efi_main asks for
  LowPages,    \* 0x1000000 / 4096
  SmpAt,       \* the pages at 0x7000 and 0x8000
  Modes,       \* graphics modes: [pixels, framebuffer], 0 pixels if not available
  Nowhere

Page == 0 .. Pages - 1
Slack == 2     \* descriptors added to the size of the map

ASSUME LoaderAssumption ==
  /\ Pages \in Nat /\ LowPages \in 1 .. Pages
  /\ KernelAt \subseteq 1 .. LowPages - 1 /\ SmpAt \subseteq 1 .. LowPages - 1
  /\ KernelAt \cap SmpAt = {}
  /\ \A m \in Maps : /\ m \in [Page -> {"free", "boot", "acpi", "hole"}]
                     /\ \E p, q \in Page : m[p] = "boot" /\ m[q] = "acpi"
                     /\ \A p \in SmpAt : m[p] # "hole"
                     /\ m[0] # "acpi"
  /\ Modes # <<>> /\ Modes \in Seq([pixels : Nat, framebuffer : SUBSET Page])
  /\ Nowhere \notin Page

VARIABLES
  memmap,    \* what the firmware says of each page; "loader" is LoaderData
  mem,       \* what was last written to it
  at,        \* where things are: boot_info, the ACPI tables, the copy of the map
  loader,    \* where efi_main is, or kmain
  room,      \* descriptors the map's buffer has room for
  info,      \* boot_info.memory_map: the copy, NoMap before, or Garbage
  services,  \* boot services are running
  stirred,   \* the firmware took or gave memory while the loader was leaving
  fb,        \* boot_info.framebuffer_base
  free,      \* pages the page allocator has
  mapped     \* pages the page tables in use map

boot_vars == <<memmap, mem, at, loader, room, info, services, stirred, fb, free, mapped>>
kernel_vars == <<free, mapped>>

Described(m) == {p \in Page : m[p] # "hole"}

(* Descriptors of a map: the stretches of one type. *)
Starts(m) == {p \in Described(m) : p = 0 \/ m[p - 1] # m[p]}

NoMap == [p \in Page |-> "hole"]

(* What a buffer holds that nothing was written to. *)
Garbage == [p \in Page |-> "garbage"]

LoaderInit ==
  /\ memmap \in Maps
  /\ at \in [info : {p \in Page : memmap[p] = "boot"}, acpi : {p \in Page : memmap[p] = "acpi"},
             map : {Nowhere}, pool : {Nowhere}]
  /\ mem = [p \in Page |-> CASE p = at.info -> "info" [] p = at.acpi -> "acpi" [] OTHER -> ""]
  /\ loader = "graphics"
  /\ room = 0 /\ info = NoMap /\ services = TRUE /\ stirred = FALSE /\ fb = {}
  /\ free = {} /\ mapped = Page

Put(ps, what) == mem' = [p \in Page |-> IF p \in ps THEN what ELSE mem[p]]

-----------------------------------------------------------------------------
FreePages == {p \in Page : memmap[p] = "free"}

Loading == {"graphics", "rsdp", "open", "place", "read"}
Leaving == {"size", "pool", "get", "exit"}

(* Pages the firmware never takes: what the loader still asks for, so that  *)
(* allocate_pool is never seen to fail.                                     *)
Spare == CASE loader \in {"graphics", "rsdp", "open", "place"} -> Cardinality(KernelAt) + 2
           [] loader = "read" -> 2
           [] loader \in {"size", "pool"} -> 1
           [] OTHER -> 0

(* The firmware's own work: pages of its data come and go, and it writes    *)
(* to those it has.                                                         *)
FirmwareEvent ==
  /\ services /\ loader \in Loading \cup Leaving \cup {"pmm", "idt"}
  /\ stirred' = (stirred \/ loader \in Leaving)
  /\ \E p \in Page \ {at.info} :
       \/ /\ memmap[p] = "free" /\ Cardinality(FreePages) > Spare
          /\ memmap' = [memmap EXCEPT ![p] = "boot"] /\ Put({p}, "")
       \/ memmap[p] = "boot" /\ Put({p}, "") /\ memmap' \in {memmap, [memmap EXCEPT ![p] = "free"]}
  /\ UNCHANGED <<at, loader, room, info, services, fb, kernel_vars>>

(* A step that finds what it looks for or prints and loops for ever. *)
OrHalt(found) == loader' = found \/ loader' = "halt"

(* The mode with the most pixels, the first of them. *)
BestMode == CHOOSE i \in DOMAIN Modes :
              \A j \in DOMAIN Modes : /\ Modes[j].pixels <= Modes[i].pixels
                                      /\ Modes[j].pixels = Modes[i].pixels => i <= j

FindGraphics ==
  /\ loader = "graphics"
  /\ OrHalt("rsdp")
  /\ fb' = Modes[BestMode].framebuffer
  /\ UNCHANGED <<memmap, mem, at, room, info, services, stirred, kernel_vars>>

(* get_rsdp, and the file. *)
FindFiles ==
  /\ loader \in {"rsdp", "open"}
  /\ OrHalt(IF loader = "rsdp" THEN "open" ELSE "place")
  /\ UNCHANGED <<memmap, mem, at, room, info, services, stirred, fb, kernel_vars>>

(* allocate_pages at a fixed address: given only when all of it is free.    *)
PlaceKernel ==
  /\ loader = "place"
  /\ IF \A p \in KernelAt : memmap[p] = "free"
     THEN /\ memmap' = [p \in Page |-> IF p \in KernelAt THEN "loader" ELSE memmap[p]]
          /\ loader' = "read"
     ELSE loader' = "halt" /\ UNCHANGED memmap
  /\ UNCHANGED <<mem, at, room, info, services, stirred, fb, kernel_vars>>

(* allocate_pool takes a new page, or part of one it has already.           *)
Pool(p) ==
  /\ p = at.pool \/ (p \in FreePages)
  /\ memmap' = [memmap EXCEPT ![p] = "loader"]

(* The file's information and the kernel itself. *)
ReadKernel ==
  /\ loader = "read"
  /\ \E p \in Page : Pool(p) /\ at' = [at EXCEPT !.pool = p]
  /\ Put(KernelAt, "kernel")
  /\ loader' = "size"
  /\ UNCHANGED <<room, info, services, stirred, fb, kernel_vars>>

\* Mutant: room for one descriptor more.
SizeMapTight ==
  /\ loader = "size"
  /\ room' = Cardinality(Starts(memmap)) + 1
  /\ loader' = "pool"
  /\ UNCHANGED <<memmap, mem, at, info, services, stirred, fb, kernel_vars>>

(* The first get_memory_map: only the size. *)
SizeMap ==
  /\ loader = "size"
  /\ room' = Cardinality(Starts(memmap)) + Slack
  /\ loader' = "pool"
  /\ UNCHANGED <<memmap, mem, at, info, services, stirred, fb, kernel_vars>>

AllocateMap ==
  /\ loader = "pool"
  /\ \E p \in Page : Pool(p) /\ at' = [at EXCEPT !.map = p]
  /\ loader' = "get"
  /\ UNCHANGED <<mem, room, info, services, stirred, fb, kernel_vars>>

(* The second: a buffer too small gets nothing, and nobody looks; what is   *)
(* passed on is what the buffer happens to hold, with the size that would   *)
(* have been needed.                                                        *)
GetMap ==
  /\ loader = "get"
  /\ IF Cardinality(Starts(memmap)) <= room
     THEN Put({at.map}, "map") /\ info' = memmap
     ELSE info' = Garbage /\ UNCHANGED mem
  /\ loader' = "exit"
  /\ UNCHANGED <<memmap, at, room, services, stirred, fb, kernel_vars>>

(* exit_boot_services: refused when the map is no longer the one the key    *)
(* stands for, or has changed and changed back; a key that was never        *)
(* written may be any.  The result is not looked at.  The kernel is entered.*)
ExitBootServices ==
  /\ loader = "exit"
  /\ \/ services' = (info # memmap)
     \/ stirred /\ services' = TRUE
     \/ info = Garbage /\ services' = FALSE
  /\ loader' = "pmm"
  /\ UNCHANGED <<memmap, mem, at, room, info, stirred, fb, kernel_vars>>

-----------------------------------------------------------------------------
Usable7 == {p \in Page : info[p] = "free"}

(* Where pmm_init puts its bitmap: the first descriptor of free memory that *)
(* begins above the low pages.                                              *)
BitmapAt == {p \in Starts(info) \cap Usable7 : p >= LowPages}

\* Mutant: low memory is given out too.
pmm_initLow ==
  /\ loader = "pmm"
  /\ \/ info = Garbage /\ loader' = "astray" /\ UNCHANGED <<mem, free>>
     \/ /\ info # Garbage /\ BitmapAt = {}
        /\ loader' = "noram" /\ UNCHANGED <<mem, free>>
     \/ /\ info # Garbage /\ BitmapAt # {}
        /\ Put({Min(BitmapAt)}, "bitmap")
        /\ free' = Usable7 \ {0, Min(BitmapAt)}
        /\ loader' = "idt"
  /\ UNCHANGED <<memmap, at, room, info, services, stirred, fb, mapped>>

(* pmm_init; without room for the bitmap it returns, and what the kernel    *)
(* does from then on is not modelled.  Nor is what it does with a map that  *)
(* is none: it takes memory for free that may not even be there.            *)
pmm_init ==
  /\ loader = "pmm"
  /\ \/ info = Garbage /\ loader' = "astray" /\ UNCHANGED <<mem, free>>
     \/ /\ info # Garbage /\ BitmapAt = {}
        /\ loader' = "noram" /\ UNCHANGED <<mem, free>>
     \/ /\ info # Garbage /\ BitmapAt # {}
        /\ Put({Min(BitmapAt)}, "bitmap")
        /\ free' = {p \in Usable7 : p >= LowPages} \ {Min(BitmapAt)}
        /\ loader' = "idt"
  /\ UNCHANGED <<memmap, at, room, info, services, stirred, fb, mapped>>

(* idt_init: from here on the kernel's handlers are run, not the firmware's.*)
idt_init ==
  /\ loader = "idt" /\ loader' = "vmm"
  /\ UNCHANGED <<memmap, mem, at, room, info, services, stirred, fb, kernel_vars>>

(* pmm_alloc of a page for a purpose; without one the kernel is lost.       *)
Take(what, next) ==
  IF free = {} THEN loader' = "noram" /\ UNCHANGED <<mem, free>>
  ELSE /\ Put({Min(free)}, what)
       /\ free' = free \ {Min(free)}
       /\ loader' = next

(* vmm_init: every page of every descriptor but page 0, and the screen.     *)
(* With a bitmap the firmware has written over, the pages it takes may be   *)
(* anyone's.                                                                *)
BitmapKept == \E p \in Page : mem[p] = "bitmap"
IdentityMap == (Described(info) \ {0}) \cup fb

vmm_init ==
  /\ loader = "vmm"
  /\ \/ BitmapKept /\ Take("tables", "acpi") /\ mapped' = IdentityMap
     \/ ~ BitmapKept /\ loader' = "astray" /\ UNCHANGED <<mem, kernel_vars>>
  /\ UNCHANGED <<memmap, at, room, info, services, stirred, fb>>

(* acpi_init reads (what it finds is CpuIds of module SmpBoot); heap_init   *)
(* takes the pool.                                                          *)
acpi_init ==
  /\ loader = "acpi" /\ loader' = "heap"
  /\ UNCHANGED <<memmap, mem, at, room, info, services, stirred, fb, kernel_vars>>

heap_init ==
  /\ loader = "heap"
  /\ Take("heap", "smp")
  /\ UNCHANGED <<memmap, at, room, info, services, stirred, fb, mapped>>

(* smp_init's copy of the trampoline and its data.                          *)
Trampolines ==
  /\ loader = "smp"
  /\ Put(SmpAt, "smp")
  /\ loader' = "cores"
  /\ UNCHANGED <<memmap, at, room, info, services, stirred, fb, kernel_vars>>

LoaderSteps ==
  \/ FindGraphics \/ FindFiles \/ PlaceKernel \/ ReadKernel \/ SizeMap
  \/ AllocateMap \/ GetMap \/ ExitBootServices \/ pmm_init \/ idt_init \/ vmm_init
  \/ acpi_init \/ heap_init \/ Trampolines

LoaderNext == FirmwareEvent \/ LoaderSteps

LoaderSpec == LoaderInit /\ [][LoaderNext]_boot_vars

-----------------------------------------------------------------------------
InKernel == loader \in {"pmm", "idt", "vmm", "acpi", "heap", "smp", "cores"}

(* Unless the firmware moved memory while the loader was leaving, the map   *)
(* the kernel works from is whole and is the firmware's last word: two more *)
(* descriptors are enough for what allocating the buffer itself does to the *)
(* map, boot services are over, and the kernel does not go astray on a map  *)
(* that was never written or on a bitmap that was written over              *)
(* (main.c:106-115).                                                        *)
MapCurrent == InKernel \/ loader = "astray" => stirred \/ (info = memmap /\ ~ services)

Intact(what, ps) == \A p \in ps : mem[p] = what /\ p \in mapped

(* What the kernel reads or runs is what was put there, and is mapped: the  *)
(* kernel, boot_info and the map until vmm_init, the ACPI tables, then the  *)
(* page tables, the heap and the trampoline, whatever the firmware does to  *)
(* its memory on the way.  Two things the code leaves to luck are stated as *)
(* conditions: that the buffer was large enough for the map, nobody looks   *)
(* (main.c:109-112), and, for the bitmap until vmm_init, that boot services *)
(* are over, nobody looks either (main.c:115).  From vmm_init on the bitmap *)
(* is safe.  Of a kernel that went astray on either, nothing is said        *)
(* (main.c:84-118, pmm.c:61-85, vmm.c:19-44, smp.c:33-37).                  *)
MemoryIntact ==
  /\ loader \in Leaving => Intact("kernel", KernelAt)
  /\ InKernel => Intact("kernel", KernelAt)
  /\ loader \in {"pmm", "idt", "vmm"} => Intact("info", {at.info})
  /\ loader \in {"pmm", "idt", "vmm"} /\ info # Garbage => Intact("map", {at.map})
  /\ loader = "acpi" => Intact("acpi", {at.acpi})
  /\ (loader \in {"idt", "vmm"} /\ ~ services) \/ loader \in {"acpi", "heap", "smp"} =>
       Cardinality({p \in mapped : mem[p] = "bitmap"}) = 1
  /\ loader = "cores" => /\ Intact("smp", SmpAt)
                         /\ \A what \in {"bitmap", "tables", "heap"} :
                              Cardinality({p \in mapped : mem[p] = what}) = 1
  /\ InKernel => fb \subseteq mapped

-----------------------------------------------------------------------------
(* Inductive strengthening of MapCurrent and MemoryIntact. *)
Tabled == {"acpi", "heap", "smp", "cores"}
Running == Loading \cup Leaving \cup {"pmm", "idt", "vmm"} \cup Tabled

LoaderTypeOK ==
  /\ memmap \in [Page -> {"free", "boot", "acpi", "hole", "loader"}]
  /\ mem \in [Page -> {"", "info", "acpi", "kernel", "map", "bitmap", "tables", "heap", "smp"}]
  /\ at \in [info : Page, acpi : Page \ {0}, map : Page \cup {Nowhere}, pool : Page \cup {Nowhere}]
  /\ loader \in Running \cup {"halt", "noram", "astray"}
  /\ room \in Nat /\ services \in BOOLEAN /\ stirred \in BOOLEAN
  /\ info \in [Page -> {"free", "boot", "acpi", "hole", "loader"}] \cup {Garbage}
  /\ fb \subseteq Page /\ free \subseteq Page /\ mapped \subseteq Page

(* A map that knows of everything that has been put into memory so far.     *)
Accounts(m) ==
  /\ m[at.info] = "boot" /\ m[at.acpi] = "acpi"
  /\ \A p \in SmpAt : m[p] # "hole"
  /\ loader \in Running \ {"graphics", "rsdp", "open", "place"} => \A p \in KernelAt : m[p] = "loader"
  /\ \A p \in {at.map, at.pool} \ {Nowhere} : m[p] = "loader" /\ p \notin KernelAt

(* The size of the map's buffer allows for what the pool takes from it      *)
(* (main.c:106-112).                                                        *)
RoomEnough ==
  ~ stirred =>
    /\ loader = "pool" => room = Cardinality(Starts(memmap)) + Slack
    /\ loader = "get" => Cardinality(Starts(memmap)) <= room
    /\ loader = "exit" \/ InKernel => info = memmap
    /\ InKernel => ~ services
    /\ loader # "astray"

(* What the kernel takes, and from where on it has it; the firmware may     *)
(* take the bitmap away again as long as it goes on.                        *)
Taken == [bitmap |-> {"idt", "vmm"} \cup Tabled, tables |-> Tabled, heap |-> {"smp", "cores"}]
Own(what) == {p \in Page : mem[p] = what}
HighFree == {p \in Usable7 : p >= LowPages}

LoaderInv ==
  /\ LoaderTypeOK
  /\ loader \in Running => Accounts(memmap) /\ (info \notin {NoMap, Garbage} => Accounts(info))
  /\ loader \in Loading \cup (Leaving \ {"exit"}) => info = NoMap
  /\ loader \in {"get", "exit"} \/ InKernel => at.map # Nowhere
  /\ RoomEnough
  /\ loader \in Leaving \/ InKernel => \A p \in KernelAt : mem[p] = "kernel"
  /\ loader \in Running \ Tabled => mem[at.info] = "info" /\ mapped = Page
  /\ loader \in Running \ {"cores"} => mem[at.acpi] = "acpi"
  /\ loader \in {"exit", "pmm", "idt", "vmm"} =>
       info # NoMap /\ (info # Garbage => mem[at.map] = "map")
  /\ loader \in {"idt", "vmm"} \cup Tabled =>
       info \notin {NoMap, Garbage} /\ free \subseteq HighFree
  /\ loader \in Tabled => mapped = IdentityMap
  /\ loader = "cores" => \A p \in SmpAt : mem[p] = "smp"
  /\ \A what \in DOMAIN Taken :
       /\ loader \in Taken[what] =>
            \/ \E p \in HighFree \ free : Own(what) = {p}
            \/ what = "bitmap" /\ loader \in {"idt", "vmm"} /\ services /\ Own(what) = {}
       /\ loader \in Running \ Taken[what] => Own(what) = {}
=============================================================================
