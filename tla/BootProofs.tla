---------------------------- MODULE BootProofs ------------------------------
(***************************************************************************)
(* From the firmware to the trampoline, for every machine and every memory *)
(* map: the kernel works from the firmware's last word when nothing        *)
(* stirred, and nothing that was put into memory is overwritten or lost,   *)
(* on the conditions MemoryIntact states, when something did.              *)
(***************************************************************************)
EXTENDS Boot, FiniteSetTheorems, WellFoundedInduction, TLAPS

(* The provers, in the order in which they are tried. *)
USE ZenonT(15), SMT

(* A set of numbers has a least one. *)
LEMMA NatMin ==
  ASSUME NEW S \in SUBSET Nat, S # {}
  PROVE  \E x \in S : \A y \in S : x <= y
<1> DEFINE R == OpToRel(<, Nat)
<1>1. \A x, y \in Nat : y < x => <<y, x>> \in R
  BY DEF OpToRel
<1>2. IsWellFoundedOn(R, Nat)
  BY NatLessThanWellFounded
<1> HIDE DEF R
<1>3. PICK x \in S : \A y \in S : <<y, x>> \notin R
  BY <1>2, WFMin
<1>4. \A y \in S : ~ (y < x)
  BY <1>1, <1>3
<1> QED
  BY SMT, <1>4

(* Induction, with a set for the predicate. *)
LEMMA NatInductive ==
  ASSUME NEW S, 0 \in S, \A n \in Nat : n \in S => n + 1 \in S
  PROVE  Nat \subseteq S
<1> SUFFICES ASSUME NEW m \in Nat, m \notin S PROVE FALSE
  OBVIOUS
<1>1. PICK n \in Nat \ S : \A l \in Nat \ S : n <= l
  BY NatMin
<1>2. n - 1 \in Nat /\ n - 1 + 1 = n /\ ~ (n <= n - 1)
  BY SMT
<1> QED
  BY <1>1, <1>2

(* Min, by which free pages are found (pmm.c:92-112).                       *)
LEMMA MinIsLeast ==
  ASSUME NEW S \in SUBSET Nat, S # {}
  PROVE  Min(S) \in S /\ \A y \in S : Min(S) <= y
BY NatMin DEF Min

-----------------------------------------------------------------------------
(* efi_main sets a mode that the firmware has, the first of the largest     *)
(* (main.c:32-47).                                                          *)
LEMMA ModeChosen == BestMode \in DOMAIN Modes /\ Modes[BestMode].framebuffer \subseteq Page
<1> DEFINE Best(n, i) == \A j \in 1 .. n : /\ Modes[j].pixels <= Modes[i].pixels
                                           /\ Modes[j].pixels = Modes[i].pixels => i <= j
           M == [pixels : Nat, framebuffer : SUBSET Page]
           S == {n \in Nat : n \in 1 .. Len(Modes) => \E i \in 1 .. n : Best(n, i)}
<1>1. Modes \in Seq(M) /\ Modes # <<>>
  BY LoaderAssumption
<1>2. DOMAIN Modes = 1 .. Len(Modes) /\ Len(Modes) \in Nat \ {0}
  BY SMT, <1>1
<1>3. \A i \in 1 .. Len(Modes) : Modes[i].pixels \in Nat /\ Modes[i].framebuffer \subseteq Page
  <2> TAKE i \in 1 .. Len(Modes)
  <2>1. Modes[i] \in M
    <3> HIDE DEF M
    <3> QED
      BY SMT, <1>1, <1>2
  <2> QED
    BY <2>1
<1>4. 0 \in S
  BY SMT
<1>5. ASSUME NEW n \in Nat, n \in S PROVE n + 1 \in S
  <2> SUFFICES ASSUME n + 1 \in 1 .. Len(Modes) PROVE \E i \in 1 .. n + 1 : Best(n + 1, i)
    BY SMT
  <2>1. CASE n = 0
    <3>1. Best(n + 1, 1)
      BY SMT, <2>1, <1>3
    <3> QED
      BY SMT, <3>1, <2>1
  <2>2. CASE n # 0
    <3>0. n \in 1 .. Len(Modes)
      <4> HIDE DEF Best, S
      <4> QED
        BY SMT, <1>2, <2>2
    <3>1. PICK i \in 1 .. n : Best(n, i)
      <4> HIDE DEF Best
      <4> QED
        BY <1>5, <3>0
    <3>2. \A j \in 1 .. n + 1 : Modes[j].pixels \in Nat
      BY SMT, <1>2, <1>3
    <3>3. CASE Modes[n + 1].pixels > Modes[i].pixels
      <4>1. \A j \in 1 .. n : Modes[j].pixels < Modes[n + 1].pixels
        BY SMT, <3>1, <3>2, <3>3
      <4>2. Best(n + 1, n + 1)
        BY SMTT(30), <4>1, <3>2
      <4>3. n + 1 \in 1 .. n + 1
        BY SMT
      <4> HIDE DEF Best
      <4> QED
        BY <4>2, <4>3
    <3>4. CASE Modes[n + 1].pixels <= Modes[i].pixels
      <4>1. Best(n + 1, i)
        BY SMTT(30), <3>1, <3>2, <3>4
      <4>2. i \in 1 .. n + 1
        BY SMT, <3>1
      <4> HIDE DEF Best
      <4> QED
        BY <4>1, <4>2
    <3> QED
      BY SMT, <3>2, <3>3, <3>4
  <2> QED
    BY <2>1, <2>2
<1>6. Nat \subseteq S
  <2> HIDE DEF S
  <2> QED
    BY <1>4, <1>5, NatInductive
<1>7. \E i \in DOMAIN Modes : Best(Len(Modes), i)
  <2>1. Len(Modes) \in S
    <3> HIDE DEF S
    <3> QED
      BY <1>2, <1>6
  <2>2. Len(Modes) \in 1 .. Len(Modes)
    BY SMT, <1>2
  <2> HIDE DEF Best
  <2> QED
    BY <1>2, <2>1, <2>2
<1>8. BestMode \in DOMAIN Modes
  BY <1>7, <1>2 DEF BestMode
<1> QED
  BY <1>2, <1>3, <1>8

(* One page more of another type makes at most two descriptors more         *)
(* (main.c:107).                                                            *)
LEMMA StartsGrow ==
  ASSUME NEW m, NEW n, NEW p \in Page, \A q \in Page \ {p} : n[q] = m[q]
  PROVE  /\ Cardinality(Starts(m)) \in Nat
         /\ Cardinality(Starts(n)) <= Cardinality(Starts(m)) + 2
<1>1. IsFiniteSet(Page) /\ Page \subseteq Nat
  BY SMT, LoaderAssumption, FS_Interval DEF Page
<1>2. IsFiniteSet(Starts(m))
  BY <1>1, FS_Subset DEF Starts, Described
<1>3. Starts(n) \subseteq (Starts(m) \cup {p}) \cup {p + 1}
  <2> SUFFICES ASSUME NEW q \in Starts(n), q # p, q # p + 1 PROVE q \in Starts(m)
    OBVIOUS
  <2>1. q \in Page /\ n[q] = m[q] /\ (q = 0 \/ n[q - 1] # n[q])
    BY DEF Starts, Described
  <2>2. q # 0 => q - 1 \in Page \ {p}
    BY SMT, <2>1, <1>1, LoaderAssumption DEF Page
  <2> QED
    BY <2>1, <2>2 DEF Starts, Described
<1>4. /\ IsFiniteSet((Starts(m) \cup {p}) \cup {p + 1})
      /\ Cardinality((Starts(m) \cup {p}) \cup {p + 1}) <= Cardinality(Starts(m)) + 2
  <2>1. Cardinality(Starts(m)) \in Nat
    BY <1>2, FS_CardinalityType
  <2>2. /\ IsFiniteSet(Starts(m) \cup {p})
        /\ Cardinality(Starts(m) \cup {p}) <= Cardinality(Starts(m)) + 1
        /\ Cardinality(Starts(m) \cup {p}) \in Nat
    <3>1. IsFiniteSet(Starts(m) \cup {p})
      BY <1>2, FS_AddElement
    <3>2. Cardinality(Starts(m) \cup {p}) \in Nat
      BY <3>1, FS_CardinalityType
    <3> QED
      BY SMT, <1>2, <2>1, <3>1, <3>2, FS_AddElement
  <2> QED
    BY SMT, <2>1, <2>2, FS_AddElement
<1>5. Cardinality(Starts(n)) <= Cardinality((Starts(m) \cup {p}) \cup {p + 1})
  BY <1>3, <1>4, FS_Subset
<1>6. IsFiniteSet(Starts(n))
  BY <1>3, <1>4, FS_Subset
<1>7. Cardinality(Starts(m)) \in Nat /\ Cardinality(Starts(n)) \in Nat
      /\ Cardinality((Starts(m) \cup {p}) \cup {p + 1}) \in Nat
  BY <1>2, <1>4, <1>6, FS_CardinalityType
<1> QED
  BY SMT, <1>4, <1>5, <1>7

-----------------------------------------------------------------------------
USE DEF Running, Loading, Leaving, Tabled, InKernel

(* What there is to take (kernel.c:22-32). *)
LEMMA TakenValues ==
  /\ DOMAIN Taken = {"bitmap", "tables", "heap"}
  /\ Taken["bitmap"] = {"idt", "vmm"} \cup Tabled /\ Taken["tables"] = Tabled /\ Taken["heap"] = {"smp", "cores"}
BY DEF Taken

(* What the firmware writes is a map (main.c:109). *)
LEMMA NotGarbage ==
  ASSUME NEW m \in [Page -> {"free", "boot", "acpi", "hole", "loader"}]
  PROVE  m # Garbage
<1>1. 0 \in Page
  BY SMT, LoaderAssumption DEF Page
<1>2. m[0] \in {"free", "boot", "acpi", "hole", "loader"} /\ Garbage[0] = "garbage"
  BY <1>1 DEF Garbage
<1> QED
  BY <1>2

(* Everything is put into pages of the machine (main.c:83-118). *)
LEMMA PlacesArePages ==
  ASSUME LoaderTypeOK
  PROVE  /\ at.info \in Page /\ at.acpi \in Page \ {0} /\ {at.map, at.pool} \ {Nowhere} \subseteq Page
         /\ SmpAt \subseteq Page \ {0} /\ KernelAt \subseteq Page \ {0}
         /\ \A p \in SmpAt \cup KernelAt : p < LowPages
         /\ Page \subseteq Nat /\ LowPages \in Nat \ {0}
<1>1. at.info \in Page /\ at.acpi \in Page \ {0} /\ {at.map, at.pool} \ {Nowhere} \subseteq Page
  BY DEF LoaderTypeOK
<1>2. Page \subseteq Nat /\ LowPages \in Nat \ {0} /\ 1 .. LowPages - 1 \subseteq Page \ {0}
  BY SMT, LoaderAssumption DEF Page
<1>3. \A p \in 1 .. LowPages - 1 : p < LowPages
  BY SMT, <1>2
<1> QED
  BY <1>1, <1>2, <1>3, LoaderAssumption

(* The firmware's first map (main.c:20). *)
LEMMA LoaderInitInv == LoaderInit => LoaderInv
<1> SUFFICES ASSUME LoaderInit PROVE LoaderInv
  OBVIOUS
<1>1. PICK m \in Maps : memmap = m
  BY DEF LoaderInit
<1>2. /\ m \in [Page -> {"free", "boot", "acpi", "hole"}]
      /\ \A p \in SmpAt : m[p] # "hole"
      /\ m[0] # "acpi"
  BY LoaderAssumption
<1>3. /\ at.info \in Page /\ m[at.info] = "boot" /\ at.acpi \in Page \ {0} /\ m[at.acpi] = "acpi"
      /\ at.map = Nowhere /\ at.pool = Nowhere
      /\ at \in [info : Page, acpi : Page \ {0}, map : Page \cup {Nowhere}, pool : Page \cup {Nowhere}]
  BY <1>1, <1>2 DEF LoaderInit
<1>4. /\ mem \in [Page -> {"", "info", "acpi"}] /\ mem[at.info] = "info" /\ mem[at.acpi] = "acpi"
  BY <1>2, <1>3 DEF LoaderInit
<1>5. LoaderTypeOK
  BY ZenonT(30), <1>1, <1>2, <1>3, <1>4 DEF LoaderInit, LoaderTypeOK, NoMap, Garbage
<1>6. Accounts(memmap) /\ RoomEnough
  BY <1>1, <1>2, <1>3 DEF LoaderInit, Accounts, RoomEnough
<1>7. \A what \in DOMAIN Taken : loader \notin Taken[what] /\ Own(what) = {}
  <2>1. \A p \in Page : mem[p] \notin {"bitmap", "tables", "heap"}
    BY <1>4
  <2>2. loader = "graphics"
    BY DEF LoaderInit
  <2> QED
    BY SMT, <2>1, <2>2, TakenValues DEF Own
<1> QED
  BY <1>3, <1>4, <1>5, <1>6, <1>7 DEF LoaderInit, LoaderInv

(* What Put leaves (main.c:97, pmm.c:61-85, smp.c:33-37). *)
LEMMA PutWhere ==
  ASSUME NEW ps, NEW what, Put(ps, what)
  PROVE  \A p \in Page : mem'[p] = IF p \in ps THEN what ELSE mem[p]
BY DEF Put

(* The firmware neither takes nor gives what the loader stands on, and      *)
(* writes to nothing of it but, while it refuses to stop, the bitmap        *)
(* (main.c:20-118, kernel.c:22-23).                                         *)
LEMMA FirmwareInv ==
  ASSUME LoaderInv, FirmwareEvent
  PROVE  LoaderInv'
<1>1. PICK p \in Page, k \in {"boot", "free"} :
        /\ memmap[p] \in {"boot", "free"} /\ p # at.info
        /\ memmap' = [memmap EXCEPT ![p] = k]
        /\ Put({p}, "")
  <2>1. memmap \in [Page -> {"free", "boot", "acpi", "hole", "loader"}]
    BY DEF LoaderInv, LoaderTypeOK
  <2>2. \A p \in Page : memmap[p] = "boot" => memmap = [memmap EXCEPT ![p] = "boot"]
    BY <2>1
  <2> QED
    BY <2>2 DEF FirmwareEvent
<1>2. /\ services /\ loader \in Loading \cup Leaving \cup {"pmm", "idt"}
      /\ stirred' = (stirred \/ loader \in Leaving)
      /\ UNCHANGED <<at, loader, room, info, services, fb, free, mapped>>
  BY DEF FirmwareEvent, kernel_vars
<1>3. \A q \in Page : mem'[q] = IF q = p THEN "" ELSE mem[q]
  BY <1>1, PutWhere
<1>4. LoaderTypeOK'
  <2>1. mem' \in [Page -> {"", "info", "acpi", "kernel", "map", "bitmap", "tables", "heap", "smp"}]
    BY <1>1 DEF LoaderInv, LoaderTypeOK, Put
  <2> QED
    BY <1>1, <1>2, <2>1 DEF LoaderInv, LoaderTypeOK
<1>5. /\ at.info \in Page /\ at.acpi \in Page /\ {at.map, at.pool} \ {Nowhere} \subseteq Page
      /\ SmpAt \subseteq Page /\ KernelAt \subseteq Page
  BY PlacesArePages DEF LoaderInv
<1>6. Accounts(memmap)
  BY <1>2 DEF LoaderInv
<1>7. Accounts(memmap)'
  <2>1. memmap \in [Page -> {"free", "boot", "acpi", "hole", "loader"}]
    BY DEF LoaderInv, LoaderTypeOK
  <2>2. \A q \in Page : memmap'[q] = IF q = p THEN k ELSE memmap[q]
    BY <1>1, <2>1
  <2>3. memmap[p] \in {"boot", "free"} /\ p # at.info /\ at' = at /\ loader' = loader
    BY <1>1, <1>2
  <2> QED
    BY SMT, <1>5, <1>6, <2>2, <2>3 DEF Accounts
<1>8. (info \notin {NoMap, Garbage} => Accounts(info))'
  BY <1>2 DEF LoaderInv, Accounts, NoMap, Garbage
<1>9. RoomEnough'
  <2>1. loader \in Loading \/ stirred'
    BY <1>2 DEF LoaderInv, RoomEnough, LoaderTypeOK
  <2> QED
    BY <1>2, <2>1 DEF RoomEnough
<1>10. p # at.info /\ p # at.acpi /\ p # at.map
  BY <1>1, <1>5, <1>6, LoaderAssumption DEF Accounts
<1>11. loader \in Leaving \/ InKernel => p \notin KernelAt
  BY <1>1, <1>6 DEF Accounts
<1>12. \A what \in DOMAIN Taken : Own(what)' = Own(what) \ {p}
  BY <1>3, TakenValues DEF Own
<1>13. ASSUME NEW what \in DOMAIN Taken
       PROVE  /\ (loader \in Taken[what] =>
                    \/ \E q \in HighFree \ free : Own(what) = {q}
                    \/ what = "bitmap" /\ loader \in {"idt", "vmm"} /\ services /\ Own(what) = {})'
              /\ (loader \in Running \ Taken[what] => Own(what) = {})'
  <2>1. HighFree' = HighFree /\ free' = free
    BY <1>2 DEF HighFree, Usable7
  <2>2. CASE loader \in Taken[what]
    <3>1. what = "bitmap" /\ loader = "idt"
      BY <1>2, <2>2, TakenValues
    <3>2. \/ \E q \in HighFree \ free : Own(what) = {q}
          \/ Own(what) = {}
      BY <2>2 DEF LoaderInv
    <3>3. \/ \E q \in HighFree \ free : Own(what)' = {q}
          \/ Own(what)' = {}
      BY <1>12, <3>2
    <3> QED
      BY <1>2, <2>1, <2>2, <3>1, <3>3
  <2>3. CASE loader \notin Taken[what]
    <3>1. Own(what) = {}
      BY <1>2, <2>3 DEF LoaderInv
    <3> QED
      BY <1>2, <1>12, <2>3, <3>1
  <2> QED
    BY <2>2, <2>3
<1>14. /\ (loader \in Leaving \/ InKernel => \A q \in KernelAt : mem[q] = "kernel")'
       /\ (loader \in Running \ Tabled => mem[at.info] = "info" /\ mapped = Page)'
       /\ (loader \in Running \ {"cores"} => mem[at.acpi] = "acpi")'
       /\ (loader \in {"exit", "pmm", "idt", "vmm"} =>
              info # NoMap /\ (info # Garbage => mem[at.map] = "map"))'
  <2>1. (loader \in Leaving \/ InKernel => \A q \in KernelAt : mem[q] = "kernel")'
    BY <1>2, <1>3, <1>5, <1>11 DEF LoaderInv
  <2>2. mem'[at.info] = mem[at.info] /\ mem'[at.acpi] = mem[at.acpi]
    BY <1>3, <1>5, <1>10
  <2>3. loader \in {"exit", "pmm", "idt", "vmm"} => at.map # Nowhere
    BY DEF LoaderInv
  <2>4. at.map # Nowhere => mem'[at.map] = mem[at.map]
    BY <1>3, <1>5, <1>10
  <2> QED
    BY <1>2, <2>1, <2>2, <2>3, <2>4 DEF LoaderInv, NoMap, Garbage
<1>15. /\ (loader \in Loading \cup (Leaving \ {"exit"}) => info = NoMap)'
       /\ (loader \in {"get", "exit"} \/ InKernel => at.map # Nowhere)'
       /\ (loader \in {"idt", "vmm"} \cup Tabled =>
              info \notin {NoMap, Garbage} /\ free \subseteq HighFree)'
       /\ loader' \notin Tabled
  <2>1. HighFree' = HighFree
    BY <1>2 DEF HighFree, Usable7
  <2> QED
    BY <1>2, <2>1 DEF LoaderInv, NoMap, Garbage
<1> QED
  BY <1>4, <1>7, <1>8, <1>9, <1>13, <1>14, <1>15 DEF LoaderInv

(* What only looks for something keeps the invariant: the graphics mode     *)
(* (main.c:24-51), the RSDP and the file (main.c:57-81).                    *)
LEMMA FindInv ==
  ASSUME LoaderInv, FindGraphics \/ FindFiles
  PROVE  LoaderInv'
<1>1. /\ loader \in {"graphics", "rsdp", "open"} /\ loader' \in {"rsdp", "open", "place", "halt"}
      /\ UNCHANGED <<memmap, mem, at, room, info, services, stirred, free, mapped>>
  BY DEF FindGraphics, FindFiles, OrHalt, kernel_vars
<1>2. fb' \subseteq Page
  <2>1. CASE FindGraphics
    BY <2>1, ModeChosen DEF FindGraphics
  <2>2. CASE FindFiles
    BY <2>2 DEF FindFiles, LoaderInv, LoaderTypeOK
  <2> QED
    BY <2>1, <2>2
<1>3. LoaderTypeOK'
  BY <1>1, <1>2 DEF LoaderInv, LoaderTypeOK
<1>4. Accounts(memmap)' /\ RoomEnough'
  BY <1>1 DEF LoaderInv, Accounts, RoomEnough
<1>5. \A what \in DOMAIN Taken : Own(what) = {} /\ Own(what)' = {} /\ loader' \notin Taken[what]
  BY SMT, <1>1, TakenValues DEF LoaderInv, Own
<1> QED
  BY <1>1, <1>3, <1>4, <1>5 DEF LoaderInv, NoMap, Garbage

(* allocate_pages takes the kernel's pages when all are free (main.c:83-88). *)
LEMMA PlaceInv ==
  ASSUME LoaderInv, PlaceKernel
  PROVE  LoaderInv'
<1>1. /\ loader = "place" /\ loader' \in {"read", "halt"}
      /\ UNCHANGED <<mem, at, room, info, services, stirred, fb, free, mapped>>
  BY DEF PlaceKernel, kernel_vars
<1>2. LoaderTypeOK'
  <2>1. memmap \in [Page -> {"free", "boot", "acpi", "hole", "loader"}]
    BY DEF LoaderInv, LoaderTypeOK
  <2>2. memmap' \in [Page -> {"free", "boot", "acpi", "hole", "loader"}]
    BY <2>1 DEF PlaceKernel
  <2> QED
    BY <1>1, <2>2 DEF LoaderInv, LoaderTypeOK
<1>3. loader' = "read" => Accounts(memmap)'
  <2> SUFFICES ASSUME loader' = "read" PROVE Accounts(memmap)'
    OBVIOUS
  <2>1. \A p \in KernelAt : memmap[p] = "free"
    BY DEF PlaceKernel
  <2>2. \A p \in Page : memmap'[p] = IF p \in KernelAt THEN "loader" ELSE memmap[p]
    BY <2>1 DEF PlaceKernel
  <2>3. Accounts(memmap)
    BY <1>1 DEF LoaderInv
  <2>4. at.info \in Page /\ at.acpi \in Page /\ {at.map, at.pool} \ {Nowhere} \subseteq Page
        /\ SmpAt \subseteq Page /\ KernelAt \subseteq Page
    BY PlacesArePages DEF LoaderInv
  <2> QED
    BY <1>1, <2>1, <2>2, <2>3, <2>4 DEF Accounts
<1>4. RoomEnough'
  BY <1>1 DEF RoomEnough
<1>5. \A what \in DOMAIN Taken : Own(what) = {} /\ Own(what)' = {} /\ loader' \notin Taken[what]
  BY SMT, <1>1, TakenValues DEF LoaderInv, Own
<1> QED
  BY <1>1, <1>2, <1>3, <1>4, <1>5 DEF LoaderInv, NoMap, Garbage

(* allocate_pool takes a page nothing else is in, and the account stays     *)
(* right (main.c:92, main.c:108).                                           *)
LEMMA PoolAccounts ==
  ASSUME LoaderInv, loader \in {"read", "pool"}, loader' \in {"size", "get"}, NEW p \in Page, Pool(p),
         \/ at' = [at EXCEPT !.pool = p]
         \/ at' = [at EXCEPT !.map = p]
  PROVE  /\ memmap' \in [Page -> {"free", "boot", "acpi", "hole", "loader"}]
         /\ at' \in [info : Page, acpi : Page \ {0}, map : Page \cup {Nowhere}, pool : Page \cup {Nowhere}]
         /\ at'.info = at.info /\ at'.acpi = at.acpi
         /\ p \notin KernelAt /\ memmap[p] \in {"free", "loader"}
         /\ \A q \in Page \ {p} : memmap'[q] = memmap[q]
         /\ Accounts(memmap)'
<1>1. /\ Accounts(memmap) /\ memmap \in [Page -> {"free", "boot", "acpi", "hole", "loader"}]
      /\ at \in [info : Page, acpi : Page \ {0}, map : Page \cup {Nowhere}, pool : Page \cup {Nowhere}]
  BY DEF LoaderInv, LoaderTypeOK
<1>2. /\ at.info \in Page /\ at.acpi \in Page /\ {at.map, at.pool} \ {Nowhere} \subseteq Page
      /\ SmpAt \subseteq Page /\ KernelAt \subseteq Page /\ p # Nowhere
  BY PlacesArePages, LoaderAssumption DEF LoaderInv
<1>3. \A q \in Page : memmap'[q] = IF q = p THEN "loader" ELSE memmap[q]
  BY <1>1 DEF Pool
<1>4. p \notin KernelAt /\ memmap[p] \in {"free", "loader"}
  <2>1. \A q \in KernelAt : memmap[q] = "loader"
    BY <1>1 DEF Accounts
  <2>2. CASE p = at.pool
    BY <2>2, <1>1, <1>2 DEF Accounts
  <2>3. CASE p \in FreePages
    BY <2>1, <2>3 DEF FreePages
  <2> QED
    BY <2>2, <2>3 DEF Pool
<1>5. /\ at' \in [info : Page, acpi : Page \ {0}, map : Page \cup {Nowhere}, pool : Page \cup {Nowhere}]
      /\ at'.info = at.info /\ at'.acpi = at.acpi
      /\ {at'.map, at'.pool} \subseteq {at.map, at.pool, p}
  BY <1>1
<1>6. memmap' \in [Page -> {"free", "boot", "acpi", "hole", "loader"}]
  BY <1>1 DEF Pool
<1>7. Accounts(memmap)'
  BY SMT, <1>1, <1>2, <1>3, <1>4, <1>5 DEF Accounts
<1> QED
  BY <1>3, <1>4, <1>5, <1>6, <1>7

(* The kernel is read to its pages (main.c:90-97). *)
LEMMA ReadInv ==
  ASSUME LoaderInv, ReadKernel
  PROVE  LoaderInv'
<1>1. /\ loader = "read" /\ loader' = "size"
      /\ UNCHANGED <<room, info, services, stirred, fb, free, mapped>>
      /\ Put(KernelAt, "kernel")
  BY DEF ReadKernel, kernel_vars
<1>2. PICK p \in Page : Pool(p) /\ at' = [at EXCEPT !.pool = p]
  BY DEF ReadKernel
<1>3. /\ memmap' \in [Page -> {"free", "boot", "acpi", "hole", "loader"}]
      /\ at' \in [info : Page, acpi : Page \ {0}, map : Page \cup {Nowhere}, pool : Page \cup {Nowhere}]
      /\ at'.info = at.info /\ at'.acpi = at.acpi
      /\ Accounts(memmap)'
  BY <1>1, <1>2, PoolAccounts
<1>4. \A q \in Page : mem'[q] = IF q \in KernelAt THEN "kernel" ELSE mem[q]
  BY <1>1, PutWhere
<1>5. /\ at.info \in Page \ KernelAt /\ at.acpi \in Page \ KernelAt /\ KernelAt \subseteq Page
  BY <1>1, PlacesArePages DEF LoaderInv, Accounts
<1>6. mem' \in [Page -> {"", "info", "acpi", "kernel", "map", "bitmap", "tables", "heap", "smp"}]
  BY <1>1 DEF LoaderInv, LoaderTypeOK, Put
<1>7. LoaderTypeOK'
  BY <1>1, <1>3, <1>6 DEF LoaderInv, LoaderTypeOK
<1>8. \A what \in DOMAIN Taken : Own(what) = {} /\ Own(what)' = {} /\ loader' \notin Taken[what]
  BY SMT, <1>1, <1>4, TakenValues DEF LoaderInv, Own
<1>9. RoomEnough'
  BY <1>1 DEF RoomEnough
<1> QED
  BY SMTT(20), <1>1, <1>3, <1>4, <1>5, <1>7, <1>8, <1>9 DEF LoaderInv, NoMap, Garbage

(* The size of the map, and two descriptors more (main.c:106-107).          *)
LEMMA SizeInv ==
  ASSUME LoaderInv, SizeMap
  PROVE  LoaderInv'
<1>1. /\ loader = "size" /\ loader' = "pool" /\ room' = Cardinality(Starts(memmap)) + Slack
      /\ UNCHANGED <<memmap, mem, at, info, services, stirred, fb, free, mapped>>
  BY DEF SizeMap, kernel_vars
<1>2. Cardinality(Starts(memmap)) \in Nat
  BY StartsGrow, LoaderAssumption DEF LoaderInv, LoaderTypeOK
<1>3. LoaderTypeOK'
  <2>1. room' \in Nat
    BY SMT, <1>1, <1>2 DEF Slack
  <2> QED
    BY <1>1, <2>1 DEF LoaderInv, LoaderTypeOK
<1>4. Accounts(memmap)'
  BY <1>1 DEF LoaderInv, Accounts
<1>5. RoomEnough'
  BY <1>1 DEF RoomEnough, Starts, Described
<1>6. \A what \in DOMAIN Taken : Own(what) = {} /\ Own(what)' = {} /\ loader' \notin Taken[what]
  BY SMT, <1>1, TakenValues DEF LoaderInv, Own
<1> QED
  BY <1>1, <1>3, <1>4, <1>5, <1>6 DEF LoaderInv, NoMap, Garbage

(* The buffer of the map: it changes the map by one page at most            *)
(* (main.c:108).                                                            *)
LEMMA AllocateInv ==
  ASSUME LoaderInv, AllocateMap
  PROVE  LoaderInv'
<1>1. /\ loader = "pool" /\ loader' = "get"
      /\ UNCHANGED <<mem, room, info, services, stirred, fb, free, mapped>>
  BY DEF AllocateMap, kernel_vars
<1>2. PICK p \in Page : Pool(p) /\ at' = [at EXCEPT !.map = p]
  BY DEF AllocateMap
<1>3. /\ memmap' \in [Page -> {"free", "boot", "acpi", "hole", "loader"}]
      /\ at' \in [info : Page, acpi : Page \ {0}, map : Page \cup {Nowhere}, pool : Page \cup {Nowhere}]
      /\ at'.info = at.info /\ at'.acpi = at.acpi
      /\ \A q \in Page \ {p} : memmap'[q] = memmap[q]
      /\ Accounts(memmap)'
  BY <1>1, <1>2, PoolAccounts
<1>4. at'.map = p /\ p # Nowhere
  <2>1. at \in [info : Page, acpi : Page \ {0}, map : Page \cup {Nowhere}, pool : Page \cup {Nowhere}]
    BY DEF LoaderInv, LoaderTypeOK
  <2>2. at'.map = p
    BY <1>2, <2>1
  <2> QED
    BY <2>2, LoaderAssumption
<1>5. RoomEnough'
  <2>1. /\ Cardinality(Starts(memmap)) \in Nat
        /\ Cardinality(Starts(memmap')) <= Cardinality(Starts(memmap)) + 2
    BY <1>3, StartsGrow
  <2>2. Cardinality(Starts(memmap))' = Cardinality(Starts(memmap'))
    BY DEF Starts, Described
  <2> QED
    BY <1>1, <2>1, <2>2 DEF LoaderInv, RoomEnough, Slack
<1>6. \A what \in DOMAIN Taken : Own(what) = {} /\ Own(what)' = {} /\ loader' \notin Taken[what]
  BY SMT, <1>1, TakenValues DEF LoaderInv, Own
<1>7. LoaderTypeOK'
  BY <1>1, <1>3 DEF LoaderInv, LoaderTypeOK
<1> QED
  BY <1>1, <1>3, <1>4, <1>5, <1>6, <1>7 DEF LoaderInv, NoMap, Garbage

(* The copy of the map is the map, if there is room (main.c:109).           *)
LEMMA GetInv ==
  ASSUME LoaderInv, GetMap
  PROVE  LoaderInv'
<1>1. /\ loader = "get" /\ loader' = "exit"
      /\ UNCHANGED <<memmap, at, room, services, stirred, fb, free, mapped>>
  BY DEF GetMap, kernel_vars
<1>2. Accounts(memmap)' /\ (info' = memmap => Accounts(info)')
  BY SMT, <1>1 DEF LoaderInv, Accounts
<1>3. info = NoMap /\ at.map # Nowhere
  BY <1>1 DEF LoaderInv
<1>4. CASE Cardinality(Starts(memmap)) <= room
  <2>1. Put({at.map}, "map") /\ info' = memmap
    BY <1>4 DEF GetMap
  <2>2. \A q \in Page : mem'[q] = IF q = at.map THEN "map" ELSE mem[q]
    BY <2>1, PutWhere
  <2>3. /\ at.map \in Page \ KernelAt /\ at.map # at.info /\ at.map # at.acpi
        /\ at.info \in Page /\ at.acpi \in Page /\ KernelAt \subseteq Page
    BY <1>1, <1>3, PlacesArePages DEF LoaderInv, Accounts
  <2>4. mem' \in [Page -> {"", "info", "acpi", "kernel", "map", "bitmap", "tables", "heap", "smp"}]
    BY <2>1 DEF LoaderInv, LoaderTypeOK, Put
  <2>5. LoaderTypeOK'
    BY <1>1, <2>1, <2>4 DEF LoaderInv, LoaderTypeOK
  <2>6. RoomEnough'
    BY <1>1, <2>1 DEF RoomEnough
  <2>7. \A what \in DOMAIN Taken : Own(what) = {} /\ Own(what)' = {} /\ loader' \notin Taken[what]
    BY SMTT(20), <1>1, <2>2, TakenValues DEF LoaderInv, Own
  <2> QED
    <3>1. info' # NoMap
      <4>1. at.acpi \in Page /\ memmap[at.acpi] = "acpi" /\ NoMap[at.acpi] = "hole"
        BY <1>1, <2>3 DEF LoaderInv, Accounts, NoMap
      <4> QED
        BY <2>1, <4>1
    <3> QED
      BY <1>1, <1>2, <1>3, <2>1, <2>2, <2>3, <2>5, <2>6, <2>7, <3>1 DEF LoaderInv, NoMap
<1>5. CASE ~ (Cardinality(Starts(memmap)) <= room)
  <2>1. mem' = mem /\ info' = Garbage
    BY <1>5 DEF GetMap
  <2>2. LoaderTypeOK'
    BY <1>1, <2>1 DEF LoaderInv, LoaderTypeOK, Garbage
  <2>5. Garbage # NoMap
    BY NotGarbage DEF NoMap
  <2>3. RoomEnough'
    BY <1>1, <1>5 DEF LoaderInv, RoomEnough
  <2>4. \A what \in DOMAIN Taken : Own(what) = {} /\ Own(what)' = {} /\ loader' \notin Taken[what]
    BY SMT, <1>1, <2>1, TakenValues DEF LoaderInv, Own
  <2> QED
    BY <1>1, <1>2, <1>3, <2>1, <2>2, <2>3, <2>4, <2>5 DEF LoaderInv, NoMap, Garbage
<1> QED
  BY <1>4, <1>5

(* exit_boot_services changes no memory (main.c:115-118).                   *)
LEMMA ExitInv ==
  ASSUME LoaderInv, ExitBootServices
  PROVE  LoaderInv'
<1>1. /\ loader = "exit" /\ loader' = "pmm"
      /\ UNCHANGED <<memmap, mem, at, room, info, stirred, fb, free, mapped>>
      /\ \/ services' = (info # memmap)
         \/ stirred /\ services' = TRUE
         \/ info = Garbage /\ services' = FALSE
  BY DEF ExitBootServices, kernel_vars
<1>2. services' \in BOOLEAN /\ (~ stirred => services' = (info # memmap))
  <2>1. ~ stirred => info # Garbage
    BY <1>1, NotGarbage DEF LoaderInv, LoaderTypeOK, RoomEnough
  <2> QED
    BY <1>1, <2>1
<1>3. LoaderTypeOK'
  BY <1>1, <1>2 DEF LoaderInv, LoaderTypeOK
<1>4. Accounts(memmap)' /\ (info \notin {NoMap, Garbage} => Accounts(info))'
  BY <1>1 DEF LoaderInv, Accounts, NoMap, Garbage
<1>5. RoomEnough'
  BY <1>1, <1>2 DEF LoaderInv, RoomEnough
<1>6. \A what \in DOMAIN Taken : Own(what) = {} /\ Own(what)' = {} /\ loader' \notin Taken[what]
  BY SMT, <1>1, TakenValues DEF LoaderInv, Own
<1> QED
  BY <1>1, <1>3, <1>4, <1>5, <1>6 DEF LoaderInv, NoMap, Garbage

(* The kernel stops where it finds no memory (pmm.c:52-55). *)
LEMMA NoRamInv ==
  ASSUME LoaderInv, InKernel, loader' = "noram", UNCHANGED <<memmap, mem, at, room, info, services, stirred, fb, free>>,
         mapped' \subseteq Page
  PROVE  LoaderInv'
<1>1. LoaderTypeOK'
  BY DEF LoaderInv, LoaderTypeOK
<1>2. RoomEnough'
  BY DEF RoomEnough
<1> QED
  BY SMTT(20), <1>1, <1>2, TakenValues DEF LoaderInv

(* The kernel goes astray only if the firmware stirred (main.c:109-115).    *)
LEMMA AstrayInv ==
  ASSUME LoaderInv, loader' = "astray", stirred,
         UNCHANGED <<memmap, mem, at, room, info, services, stirred, fb, free, mapped>>
  PROVE  LoaderInv'
<1>1. LoaderTypeOK'
  BY DEF LoaderInv, LoaderTypeOK
<1>2. RoomEnough'
  BY DEF RoomEnough
<1> QED
  BY SMTT(20), <1>1, <1>2, TakenValues DEF LoaderInv

(* A page the kernel takes for itself holds nothing else, and stays its own *)
(* (pmm.c:61-85, pmm.c:92-134).                                             *)
LEMMA TakeInv ==
  ASSUME LoaderInv, NEW what,
         \/ loader = "pmm" /\ what = "bitmap" /\ loader' = "idt"
         \/ loader = "vmm" /\ what = "tables" /\ loader' = "acpi"
         \/ loader = "heap" /\ what = "heap" /\ loader' = "smp",
         NEW b \in HighFree, Put({b}, what), free' \subseteq HighFree \ {b},
         loader # "pmm" => b \in free /\ free' \subseteq free,
         loader = "vmm" => BitmapKept,
         mapped' = IF loader = "pmm" THEN mapped ELSE IdentityMap,
         UNCHANGED <<memmap, at, room, info, services, stirred, fb>>
  PROVE  LoaderInv'
<1>1. /\ b \in Page /\ info[b] = "free" /\ b >= LowPages /\ info \notin {NoMap, Garbage}
  BY DEF HighFree, Usable7, NoMap, Garbage
<1>2. Accounts(info) /\ Accounts(memmap) /\ Accounts(info)' /\ Accounts(memmap)'
  BY <1>1 DEF LoaderInv, Accounts
<1>3. /\ b \notin KernelAt /\ b # at.info /\ b # at.acpi /\ b # at.map
      /\ at.info \in Page /\ at.acpi \in Page /\ at.map \in Page /\ KernelAt \subseteq Page
  BY <1>1, <1>2, PlacesArePages DEF LoaderInv, Accounts
<1>4. \A q \in Page : mem'[q] = IF q = b THEN what ELSE mem[q]
  BY PutWhere
<1>5. mem' \in [Page -> {"", "info", "acpi", "kernel", "map", "bitmap", "tables", "heap", "smp"}]
  BY DEF LoaderInv, LoaderTypeOK, Put
<1>6. IdentityMap \subseteq Page /\ IdentityMap' = IdentityMap /\ HighFree' = HighFree /\ HighFree \subseteq Page
  <2>1. IdentityMap \subseteq Page /\ HighFree \subseteq Page
    BY DEF LoaderInv, LoaderTypeOK, IdentityMap, Described, HighFree, Usable7
  <2>2. IdentityMap' = IdentityMap
    BY DEF IdentityMap, Described
  <2>3. HighFree' = HighFree
    BY DEF HighFree, Usable7
  <2> QED
    BY <2>1, <2>2, <2>3
<1>7. LoaderTypeOK'
  BY <1>5, <1>6 DEF LoaderInv, LoaderTypeOK
<1>8. RoomEnough'
  BY DEF LoaderInv, RoomEnough
<1>9. Own(what) = {} /\ Own(what)' = {b}
  BY SMT, <1>1, <1>4, TakenValues DEF LoaderInv, Own
<1>10. ASSUME NEW w \in DOMAIN Taken, w # what PROVE Own(w)' = Own(w) \ {b}
  BY <1>4, <1>10 DEF Own
<1>11. ASSUME NEW w \in DOMAIN Taken
       PROVE  /\ loader' \in Taken[w] => \E p \in HighFree \ free' : Own(w)' = {p}
              /\ loader' \in Running \ Taken[w] => Own(w)' = {}
  <2>1. CASE w = what
    BY <1>9, <2>1, TakenValues
  <2>2. CASE w # what /\ loader' \in Taken[w]
    <3>1. loader \in Taken[w] /\ loader # "pmm"
      BY <2>2, TakenValues
    <3>2. PICK p \in HighFree \ free : Own(w) = {p}
      <4>1. loader = "vmm" /\ w = "bitmap" => Own(w) # {}
        BY DEF BitmapKept, Own
      <4>2. loader # "idt"
        BY <3>1
      <4> QED
        BY <3>1, <4>1, <4>2 DEF LoaderInv
    <3>3. p # b /\ p \notin free'
      BY <3>1, <3>2
    <3> QED
      BY <1>10, <2>2, <3>2, <3>3, TakenValues
  <2>3. CASE w # what /\ loader' \notin Taken[w]
    <3>1. Own(w) = {}
      BY <2>3, TakenValues DEF LoaderInv
    <3> QED
      BY <1>10, <2>3, <3>1
  <2> QED
    BY <2>1, <2>2, <2>3
<1> QED
  BY <1>1, <1>2, <1>3, <1>4, <1>6, <1>7, <1>8, <1>11 DEF LoaderInv, NoMap, Garbage

(* The bitmap (pmm.c:25-86). *)
LEMMA PmmInitInv ==
  ASSUME LoaderInv, pmm_init
  PROVE  LoaderInv'
<1>1. loader = "pmm" /\ UNCHANGED <<memmap, at, room, info, services, stirred, fb, mapped>>
  BY DEF pmm_init
<1>4. CASE info = Garbage
  <2>1. loader' = "astray" /\ UNCHANGED <<mem, free>>
    BY <1>4 DEF pmm_init
  <2>2. stirred
    BY <1>1, <1>4, NotGarbage DEF LoaderInv, LoaderTypeOK, RoomEnough
  <2> QED
    BY <1>1, <2>1, <2>2, AstrayInv
<1>2. CASE info # Garbage /\ BitmapAt = {}
  <2>1. loader' = "noram" /\ UNCHANGED <<mem, free>> /\ mapped' \subseteq Page
    BY <1>1, <1>2 DEF pmm_init, LoaderInv, LoaderTypeOK
  <2> QED
    BY <1>1, <2>1, NoRamInv
<1>3. CASE info # Garbage /\ BitmapAt # {}
  <2> DEFINE b == Min(BitmapAt)
  <2>1. BitmapAt \subseteq HighFree /\ HighFree \subseteq Nat
    BY SMT, LoaderAssumption DEF BitmapAt, HighFree, Usable7, Page
  <2>2. b \in HighFree
    BY <1>3, <2>1, MinIsLeast
  <2>3. loader' = "idt" /\ Put({b}, "bitmap") /\ free' = HighFree \ {b}
    BY <1>3 DEF pmm_init, HighFree
  <2> HIDE DEF b
  <2> QED
    BY <1>1, <2>2, <2>3, TakeInv
<1> QED
  BY <1>2, <1>3, <1>4

(* idt_init only ends the firmware's work (idt.c:60-69).                    *)
LEMMA IdtInv ==
  ASSUME LoaderInv, idt_init
  PROVE  LoaderInv'
<1>1. /\ loader = "idt" /\ loader' = "vmm"
      /\ UNCHANGED <<memmap, mem, at, room, info, services, stirred, fb, free, mapped>>
  BY DEF idt_init, kernel_vars
<1>2. LoaderTypeOK'
  BY <1>1 DEF LoaderInv, LoaderTypeOK
<1>3. Accounts(memmap)' /\ (info \notin {NoMap, Garbage} => Accounts(info))' /\ RoomEnough'
  BY <1>1 DEF LoaderInv, Accounts, NoMap, Garbage, RoomEnough
<1>4. HighFree' = HighFree /\ \A what : Own(what)' = Own(what)
  BY <1>1 DEF HighFree, Usable7, Own
<1>5. \A what \in DOMAIN Taken : loader' \in Taken[what] <=> loader \in Taken[what]
  BY SMT, <1>1, TakenValues
<1> QED
  BY <1>1, <1>2, <1>3, <1>4, <1>5 DEF LoaderInv, NoMap, Garbage

(* A page of pmm_alloc is one of the allocator's, and no longer its own     *)
(* (pmm.c:92-134).                                                          *)
LEMMA TakeShape ==
  ASSUME LoaderInv, loader \in {"vmm", "heap"}, NEW what, NEW next, Take(what, next)
  PROVE  \/ loader' = "noram" /\ UNCHANGED <<mem, free>>
         \/ /\ loader' = next
            /\ \E b \in HighFree : b \in free /\ free' = free \ {b} /\ Put({b}, what)
<1>1. free \subseteq HighFree /\ free \subseteq Nat
  BY SMT, LoaderAssumption DEF LoaderInv, HighFree, Usable7, Page
<1>2. free # {} => Min(free) \in free
  BY <1>1, MinIsLeast
<1> QED
  BY <1>1, <1>2 DEF Take

(* The page tables and the heap's pool (vmm.c:19-44, heap.c:16-23).         *)
LEMMA TablesHeapInv ==
  ASSUME LoaderInv, (vmm_init /\ BitmapKept) \/ heap_init
  PROVE  LoaderInv'
<1> DEFINE what == IF loader = "vmm" THEN "tables" ELSE "heap"
           next == IF loader = "vmm" THEN "acpi" ELSE "smp"
<1>1. /\ loader \in {"vmm", "heap"} /\ mapped' = IdentityMap /\ Take(what, next)
      /\ loader = "vmm" => BitmapKept
      /\ UNCHANGED <<memmap, at, room, info, services, stirred, fb>>
  BY DEF vmm_init, heap_init, LoaderInv
<1>2. CASE loader' = "noram" /\ UNCHANGED <<mem, free>>
  <2>1. IdentityMap \subseteq Page
    BY DEF LoaderInv, LoaderTypeOK, IdentityMap, Described
  <2> QED
    BY <1>1, <1>2, <2>1, NoRamInv
<1>3. ASSUME NEW b \in HighFree, loader' = next, b \in free, free' = free \ {b}, Put({b}, what) PROVE LoaderInv'
  <2>1. free' \subseteq HighFree \ {b} /\ free' \subseteq free
    BY <1>1, <1>3 DEF LoaderInv
  <2>2. \/ loader = "vmm" /\ what = "tables" /\ loader' = "acpi"
        \/ loader = "heap" /\ what = "heap" /\ loader' = "smp"
    BY <1>1, <1>3
  <2> HIDE DEF what, next
  <2> QED
    BY <1>1, <1>3, <2>1, <2>2, TakeInv
<1> HIDE DEF what, next
<1> QED
  BY <1>1, <1>2, <1>3, TakeShape

(* Without a bitmap the firmware had not stopped (main.c:115, vmm.c:13).    *)
LEMMA NoBitmapInv ==
  ASSUME LoaderInv, vmm_init, ~ BitmapKept
  PROVE  LoaderInv'
<1>1. /\ loader = "vmm" /\ loader' = "astray"
      /\ UNCHANGED <<memmap, mem, at, room, info, services, stirred, fb, free, mapped>>
  BY DEF vmm_init, kernel_vars
<1>2. Own("bitmap") = {}
  BY DEF BitmapKept, Own
<1>3. services
  <2>1. "bitmap" \in DOMAIN Taken /\ loader \in Taken["bitmap"]
    BY <1>1, TakenValues
  <2> QED
    BY <1>2, <2>1 DEF LoaderInv
<1>4. stirred
  BY <1>1, <1>3 DEF LoaderInv, LoaderTypeOK, RoomEnough
<1> QED
  BY <1>1, <1>4, AstrayInv

(* acpi_init only reads (acpi.c). *)
LEMMA AcpiInv ==
  ASSUME LoaderInv, acpi_init
  PROVE  LoaderInv'
<1>1. /\ loader = "acpi" /\ loader' = "heap"
      /\ UNCHANGED <<memmap, mem, at, room, info, services, stirred, fb, free, mapped>>
  BY DEF acpi_init, kernel_vars
<1>2. LoaderTypeOK'
  BY <1>1 DEF LoaderInv, LoaderTypeOK
<1>3. Accounts(memmap)' /\ (info \notin {NoMap, Garbage} => Accounts(info))' /\ RoomEnough'
  BY <1>1 DEF LoaderInv, Accounts, NoMap, Garbage, RoomEnough
<1>4. IdentityMap' = IdentityMap /\ HighFree' = HighFree /\ \A what : Own(what)' = Own(what)
  BY <1>1 DEF IdentityMap, Described, HighFree, Usable7, Own
<1>5. \A what \in DOMAIN Taken : loader' \in Taken[what] <=> loader \in Taken[what]
  BY SMT, <1>1, TakenValues
<1> QED
  BY <1>1, <1>2, <1>3, <1>4, <1>5 DEF LoaderInv, NoMap, Garbage

(* The trampoline goes to low memory, where the allocator has nothing       *)
(* (smp.c:33-37).                                                           *)
LEMMA TrampolinesInv ==
  ASSUME LoaderInv, Trampolines
  PROVE  LoaderInv'
<1>1. /\ loader = "smp" /\ loader' = "cores" /\ Put(SmpAt, "smp")
      /\ UNCHANGED <<memmap, at, room, info, services, stirred, fb, free, mapped>>
  BY DEF Trampolines, kernel_vars
<1>2. \A q \in Page : mem'[q] = IF q \in SmpAt THEN "smp" ELSE mem[q]
  BY <1>1, PutWhere
<1>3. mem' \in [Page -> {"", "info", "acpi", "kernel", "map", "bitmap", "tables", "heap", "smp"}]
  BY <1>1 DEF LoaderInv, LoaderTypeOK, Put
<1>4. LoaderTypeOK'
  BY <1>1, <1>3 DEF LoaderInv, LoaderTypeOK
<1>5. Accounts(memmap)' /\ (info \notin {NoMap, Garbage} => Accounts(info))' /\ RoomEnough'
  BY <1>1 DEF LoaderInv, Accounts, NoMap, Garbage, RoomEnough
<1>6. IdentityMap' = IdentityMap /\ HighFree' = HighFree
  BY <1>1 DEF IdentityMap, Described, HighFree, Usable7
<1>7. SmpAt \subseteq Page /\ KernelAt \subseteq Page /\ SmpAt \cap KernelAt = {}
  BY PlacesArePages, LoaderAssumption DEF LoaderInv
<1>8. ASSUME NEW what \in DOMAIN Taken
      PROVE  loader \in Taken[what] /\ \E p \in HighFree \ free : Own(what)' = {p}
  <2>1. loader \in Taken[what] /\ what # "smp"
    BY <1>1, TakenValues
  <2>2. PICK p \in HighFree \ free : Own(what) = {p}
    BY <1>1, <2>1 DEF LoaderInv
  <2>3. p \notin SmpAt
    BY SMT, PlacesArePages DEF LoaderInv, HighFree, Usable7
  <2> QED
    BY <1>2, <2>1, <2>2, <2>3 DEF Own
<1>9. \A what \in DOMAIN Taken : loader' \in Taken[what]
  BY <1>1, TakenValues
<1> QED
  BY <1>1, <1>2, <1>4, <1>5, <1>6, <1>7, <1>8, <1>9 DEF LoaderInv, NoMap, Garbage

-----------------------------------------------------------------------------
(* A step of the firmware, of the loader or of the kernel (main.c:20-118,   *)
(* kernel.c).                                                               *)
LEMMA LoaderStepInv ==
  ASSUME LoaderInv, LoaderNext
  PROVE  LoaderInv'
BY FirmwareInv, FindInv, PlaceInv, ReadInv, SizeInv, AllocateInv, GetInv, ExitInv, PmmInitInv,
   IdtInv, TablesHeapInv, NoBitmapInv, AcpiInv, TrampolinesInv
   DEF LoaderNext, LoaderSteps

(* Nothing happens to what a state without a step holds. *)
LEMMA LoaderStutter ==
  ASSUME LoaderInv, UNCHANGED boot_vars
  PROVE  LoaderInv'
<1>1. UNCHANGED <<memmap, mem, at, loader, room, info, services, stirred, fb, free, mapped>>
  BY DEF boot_vars
<1>2. LoaderTypeOK' /\ RoomEnough'
  BY <1>1 DEF LoaderInv, LoaderTypeOK, RoomEnough
<1>3. (loader \in Running => Accounts(memmap) /\ (info \notin {NoMap, Garbage} => Accounts(info)))'
  BY <1>1 DEF LoaderInv, Accounts, NoMap, Garbage
<1>4. IdentityMap' = IdentityMap /\ HighFree' = HighFree /\ \A what : Own(what)' = Own(what)
  BY <1>1 DEF IdentityMap, Described, HighFree, Usable7, Own
<1> QED
  BY <1>1, <1>2, <1>3, <1>4 DEF LoaderInv, NoMap, Garbage

(* What the invariant says of the map and of memory (main.c:84-118,         *)
(* pmm.c:61-85, vmm.c:19-44, smp.c:33-37).                                  *)
LEMMA LoaderInvSays ==
  ASSUME LoaderInv
  PROVE  MapCurrent /\ MemoryIntact
<1>1. MapCurrent
  BY DEF LoaderInv, LoaderTypeOK, RoomEnough, MapCurrent
<1>2. /\ at.info \in Page /\ at.acpi \in Page \ {0} /\ {at.map, at.pool} \ {Nowhere} \subseteq Page
      /\ SmpAt \subseteq Page \ {0} /\ KernelAt \subseteq Page \ {0}
  BY PlacesArePages DEF LoaderInv
<1>3. InKernel => Accounts(memmap) /\ (info \notin {NoMap, Garbage} => Accounts(info))
  BY DEF LoaderInv
<1>4. loader \in Tabled => KernelAt \cup SmpAt \cup {at.acpi} \subseteq mapped
  BY SMT, <1>2, <1>3 DEF LoaderInv, Accounts, IdentityMap, Described
<1>5. loader \in Leaving \/ InKernel => Intact("kernel", KernelAt)
  BY <1>2, <1>4 DEF LoaderInv, Intact
<1>6. loader \in {"pmm", "idt", "vmm"} =>
        Intact("info", {at.info}) /\ (info # Garbage => Intact("map", {at.map}))
  BY SMTT(20), <1>2 DEF LoaderInv, Intact
<1>7. loader = "acpi" => Intact("acpi", {at.acpi})
  BY <1>4 DEF LoaderInv, Intact
<1>8. loader = "cores" => Intact("smp", SmpAt)
  BY <1>4 DEF LoaderInv, Intact
<1>9. ASSUME NEW what \in {"bitmap", "tables", "heap"}, loader \in Taken[what],
             loader \in {"idt", "vmm"} => ~ services
      PROVE  Cardinality({p \in mapped : mem[p] = what}) = 1
  <2>1. PICK p \in HighFree : Own(what) = {p}
    <3>1. what \in DOMAIN Taken
      BY TakenValues
    <3> QED
      BY <1>9, <3>1 DEF LoaderInv
  <2>2. p \in mapped /\ mapped \subseteq Page
    <3>1. p # 0 /\ p \in Page /\ info[p] # "hole"
      BY SMT, PlacesArePages DEF LoaderInv, HighFree, Usable7
    <3>2. p \in IdentityMap
      BY <3>1 DEF IdentityMap, Described
    <3>3. mapped = Page \/ mapped = IdentityMap
      BY <1>9, TakenValues DEF LoaderInv
    <3> QED
      BY <3>1, <3>2, <3>3 DEF LoaderInv, LoaderTypeOK
  <2>3. {q \in mapped : mem[q] = what} = {p}
    BY <2>1, <2>2 DEF Own
  <2> QED
    BY <2>3, FS_Singleton
<1>11. /\ (loader \in {"idt", "vmm"} /\ ~ services) \/ loader \in {"acpi", "heap", "smp"} =>
            Cardinality({p \in mapped : mem[p] = "bitmap"}) = 1
       /\ loader = "cores" => \A what \in {"bitmap", "tables", "heap"} :
                                Cardinality({p \in mapped : mem[p] = what}) = 1
  BY <1>9, TakenValues
<1>10. InKernel => fb \subseteq mapped
  BY ZenonT(30) DEF LoaderInv, LoaderTypeOK, IdentityMap
<1> QED
  BY <1>1, <1>5, <1>6, <1>7, <1>8, <1>10, <1>11 DEF MemoryIntact

-----------------------------------------------------------------------------
(* The invariant of the way up holds for every machine. *)
THEOREM LoaderInductive == LoaderSpec => []LoaderInv
BY LoaderInitInv, LoaderStepInv, LoaderStutter, PTL DEF LoaderSpec

(* Two spare descriptors are enough for every memory map: unless the        *)
(* firmware stirs while the loader leaves, the kernel has the whole of its  *)
(* last map, boot services are over, and the kernel does not go astray      *)
(* (main.c:106-115).                                                        *)
THEOREM KernelHasTheMap == LoaderSpec => []MapCurrent
BY LoaderInductive, LoaderInvSays, PTL

(* On every machine and with every map, what the kernel reads or runs is    *)
(* where it was put, and is mapped, on the two conditions MemoryIntact      *)
(* states: the map's buffer was large enough, and for the bitmap until      *)
(* vmm_init, boot services are over (main.c:84-118, pmm.c:61-85,            *)
(* vmm.c:19-44, smp.c:33-37).                                               *)
THEOREM NothingOverwritten == LoaderSpec => []MemoryIntact
BY LoaderInductive, LoaderInvSays, PTL

-----------------------------------------------------------------------------
(* The entries of the table are cores. *)
LEMMA IdIsCore ==
  ASSUME NEW i \in DOMAIN CpuIds
  PROVE  CpuIds[i] \in Core
BY SMT, SmpAssumption

(* What Go does to the cores. *)
LEMMA GoCore ==
  ASSUME core \in [Core -> CoreRecord], NEW c \in Core, NEW p \in Points,
         core' = [core EXCEPT ![c].pc = p]
  PROVE  /\ core' \in [Core -> CoreRecord]
         /\ core'[c].pc = p /\ core'[c].rsp = core[c].rsp /\ core'[c].tmp = core[c].tmp
         /\ \A d \in Core \ {c} : core'[d] = core[d]
<1>1. core'[c] = [core[c] EXCEPT !.pc = p] /\ core[c] \in CoreRecord
  OBVIOUS
<1>2. core'[c] \in CoreRecord /\ core'[c].pc = p /\ core'[c].rsp = core[c].rsp /\ core'[c].tmp = core[c].tmp
  BY <1>1 DEF CoreRecord
<1> QED
  BY <1>2

(* What has nothing to do with tids keeps TidInv. *)
LEMMA TidKept ==
  ASSUME TidInv, UNCHANGED sched,
         \A c \in Core : core'[c] = core[c] \/ core'[c].pc \notin {"reset", "lock", "tid", "bump", "unlock"}
  PROVE  TidInv'
<1>1. Locked' \subseteq Locked /\ Tested' \subseteq Tested
  BY DEF Locked, Tested
<1>2. \A c \in Core : /\ At(c, "reset")' => At(c, "reset")
                      /\ At(c, "bump")' => At(c, "bump") /\ core'[c].tmp = core[c].tmp
  BY DEF At
<1>3. OneFirst' = OneFirst
  BY DEF OneFirst, sched
<1>4. UNCHANGED <<next_tid, global_sched_lock, tids, firsts>>
  BY DEF sched
<1> SUFFICES ASSUME OneFirst' PROVE TidInv'
  BY DEF TidInv
<1>5. /\ next_tid' = 1 => Tested' \subseteq firsts'
      /\ \A c, d \in Locked' : c = d
      /\ Locked' # {} => global_sched_lock' = 1
  BY <1>1, <1>3, <1>4 DEF TidInv
<1>6. /\ \A c \in Core : At(c, "reset")' => c \in firsts' /\ next_tid' = 1
      /\ \A c \in Core : At(c, "bump")' => core'[c].tmp = next_tid'
  BY <1>2, <1>3, <1>4 DEF TidInv
<1>7. /\ \A c \in Core : \A k \in DOMAIN tids'[c] : tids'[c][k] < next_tid'
      /\ \A c, d \in Core : \A k \in DOMAIN tids'[c], l \in DOMAIN tids'[d] :
           tids'[c][k] = tids'[d][l] => c = d /\ k = l
  BY SMT, <1>3, <1>4 DEF TidInv
<1> QED
  BY <1>5, <1>6, <1>7 DEF TidInv

(* What neither starts a core nor loads a stack keeps StackInv. *)
LEMMA StackKept ==
  ASSUME StackInv, UNCHANGED <<bsp, stack_top, unloaded>>, At(Bsp, "off") => At(Bsp, "off")',
         \A c \in Ap : /\ At(c, "start")' => At(c, "start")
                       /\ c \in Started' => c \in Started /\ core'[c].rsp = core[c].rsp
  PROVE  StackInv'
<1>1. Started' \subseteq Ap /\ Id' = Id
  BY DEF Started, Id
<1> QED
  BY <1>1 DEF StackInv, StacksApart

-----------------------------------------------------------------------------
(* The boot CPU prepares a core, or skips itself (smp.c:42-56). *)
LEMMA PrepareInv ==
  ASSUME SmpInv, Prepare
  PROVE  SmpInv'
<1>t. SmpTypeOK /\ StackInv /\ TidInv
  BY DEF SmpInv
<1>i. bsp.i \in DOMAIN CpuIds /\ Id \in Core
  BY SMT, <1>t, SmpAssumption, IdIsCore DEF Prepare, SmpTypeOK, Id, SmpInit
<1>1. CASE Id = Bsp
  <2>1. bsp' = [bsp EXCEPT !.i = @ + 1] /\ UNCHANGED <<handshake, core, slots, sched, unsaid>>
    BY <1>1 DEF Prepare
  <2>2. SmpTypeOK'
    BY SMTT(30), <1>t, <2>1 DEF SmpTypeOK, handshake, slots, sched, Prepare, Waiting
  <2>3. StackInv'
    BY <1>t, <2>1 DEF StackInv, StacksApart, Started, At, handshake, unsaid, Waiting, Prepare, SmpTypeOK
  <2> QED
    BY <1>t, <2>1, <2>2, <2>3, TidKept DEF SmpInv
<1>2. CASE Id # Bsp
  <2>1. /\ bsp' = [bsp EXCEPT !.pc = "sipi"] /\ stack_top' = Id
        /\ core' = [core EXCEPT ![Id].pc = "wait"] /\ UNCHANGED <<slots, sched, unsaid>>
    BY <1>2 DEF Prepare, BspGo, Go
  <2>2. bsp'.i = bsp.i /\ bsp'.pc = "sipi" /\ Id' = Id
    BY <1>t, <2>1 DEF SmpTypeOK, Id
  <2>c. core' \in [Core -> CoreRecord] /\ core'[Id].pc = "wait" /\ \A d \in Core \ {Id} : core'[d] = core[d]
    <3>1. core \in [Core -> CoreRecord] /\ "wait" \in Points
      BY <1>t DEF SmpTypeOK, Points
    <3> QED
      BY <1>i, <2>1, <3>1, GoCore
  <2>3. SmpTypeOK'
    BY <1>t, <1>i, <1>2, <2>1, <2>2, <2>c DEF SmpTypeOK, slots, sched, Waiting
  <2>4. StackInv'
    <3>1. \A c \in Ap : At(c, "start")' => At(c, "start")
      BY <2>c DEF At, Core
    <3>2. \A c \in Ap : c \in Started' => c \in Started /\ core'[c].rsp = core[c].rsp
      BY <2>c DEF Started, Core
    <3>3. Started' \subseteq Ap /\ unloaded' = unloaded
      BY <2>1 DEF Started, unsaid
    <3>4. At(Bsp, "off")'
      BY <1>t, <1>2, <2>c DEF StackInv, At, Prepare, Core
    <3> QED
      BY <1>t, <2>1, <2>2, <3>1, <3>2, <3>3, <3>4 DEF StackInv, StacksApart, Prepare, Waiting
  <2>5. \A c \in Core : core'[c] = core[c] \/ core'[c].pc = "wait"
    BY <2>c
  <2> QED
    BY <1>t, <2>1, <2>3, <2>4, <2>5, TidKept DEF SmpInv
<1> QED
  BY <1>1, <1>2

(* A start-up interrupt (smp.c:57-60). *)
LEMMA SipiInv ==
  ASSUME SmpInv, NEW from \in {"sipi", "sipi2"}, NEW to \in {"sipi2", "poll"}, Sipi(from, to)
  PROVE  SmpInv'
<1>t. SmpTypeOK /\ StackInv /\ TidInv
  BY DEF SmpInv
<1>i. bsp.i \in DOMAIN CpuIds /\ Id \in Ap /\ stack_top = Id /\ bsp.pc \in Waiting
  <2>1. bsp.pc \in Waiting
    BY DEF Sipi, Waiting
  <2> QED
    BY <1>t, <2>1, IdIsCore DEF SmpTypeOK, StackInv, Id, Core
<1>1. bsp' = [bsp EXCEPT !.pc = to] /\ UNCHANGED <<handshake, slots, sched, unsaid>>
  BY DEF Sipi, BspGo
<1>2. bsp'.i = bsp.i /\ bsp'.pc \in Waiting /\ Id' = Id
  BY <1>t, <1>1 DEF SmpTypeOK, Id, Waiting
<1>3. core' = [core EXCEPT ![Id].pc = "start"] \/ core' = core
  BY DEF Sipi, Go
<1>5. core' \in [Core -> CoreRecord] /\ \A c \in Core : core'[c] = core[c] \/ (c = Id /\ core'[c].pc = "start")
  <2>1. core \in [Core -> CoreRecord] /\ Id \in Core /\ "start" \in Points
    BY <1>t, <1>i DEF SmpTypeOK, Points, Core
  <2> QED
    BY SMT, <1>3, <2>1, GoCore
<1>4. SmpTypeOK'
  BY <1>t, <1>i, <1>1, <1>2, <1>5 DEF SmpTypeOK, handshake, slots, sched, Waiting
<1>6. StackInv'
  <2>1. At(Bsp, "off")'
    BY <1>t, <1>i, <1>5 DEF StackInv, At, Waiting, Core, Ap
  <2>2. \A c \in Ap : At(c, "start")' => At(c, "start") \/ c = Id
    BY <1>5 DEF At, Core
  <2>3. /\ Started' \subseteq Started /\ \A c \in Started' : core'[c].rsp = core[c].rsp
        /\ unloaded' = unloaded /\ stack_top' = stack_top
    BY <1>1, <1>5 DEF Started, Core, unsaid, handshake
  <2> QED
    BY <1>t, <1>i, <1>2, <2>1, <2>2, <2>3 DEF StackInv, StacksApart
<1> QED
  BY <1>t, <1>1, <1>4, <1>5, <1>6, TidKept DEF SmpInv

(* The boot CPU goes on to the next core (smp.c:61-67). *)
LEMMA PollInv ==
  ASSUME SmpInv, Poll
  PROVE  SmpInv'
<1>t. SmpTypeOK /\ StackInv /\ TidInv
  BY DEF SmpInv
<1>1. bsp' = [pc |-> "loop", i |-> bsp.i + 1] /\ UNCHANGED <<core, handshake, slots, sched>>
  BY DEF Poll
<1>2. SmpTypeOK'
  BY SMTT(20), <1>t, <1>1 DEF SmpTypeOK, handshake, slots, sched, Waiting
<1>3. StackInv'
  BY SMT, <1>t, <1>1 DEF Poll, StackInv, StacksApart, Started, At, handshake, Waiting
<1> QED
  BY <1>t, <1>1, <1>2, <1>3, TidKept DEF SmpInv

(* smp_init returns (smp.c:69, kernel.c:34-36). *)
LEMMA SmpDoneInv ==
  ASSUME SmpInv, SmpDone
  PROVE  SmpInv'
<1>t. SmpTypeOK /\ StackInv /\ TidInv
  BY DEF SmpInv
<1>1. /\ bsp.pc = "loop" /\ bsp' = [bsp EXCEPT !.pc = "sched"]
      /\ core' = [core EXCEPT ![Bsp].pc = "test"] /\ UNCHANGED <<handshake, slots, sched, unsaid>>
  BY DEF SmpDone, BspGo, Go
<1>3. /\ core' \in [Core -> CoreRecord]
      /\ \A c \in Core : core'[c] = core[c] \/ (c = Bsp /\ core'[c].pc = "test")
  <2>1. core \in [Core -> CoreRecord] /\ Bsp \in Core /\ "test" \in Points
    BY <1>t DEF SmpTypeOK, Points, Core
  <2> QED
    BY <1>1, <2>1, GoCore
<1>2. SmpTypeOK'
  BY <1>t, <1>1, <1>3 DEF SmpTypeOK, handshake, slots, sched, Waiting
<1>4. StackInv'
  BY <1>t, <1>1, <1>3 DEF SmpTypeOK, StackInv, StacksApart, Started, At, handshake, unsaid, Waiting, Ap, Core
<1> QED
  BY <1>t, <1>1, <1>2, <1>3, <1>4, TidKept DEF SmpInv

-----------------------------------------------------------------------------
(* The trampoline and smp_ap_entry outside sched_init (smp_boot.asm:55-63,  *)
(* smp.c:14-26, cpu.c:9-16): a core loads the stack made for it.            *)
LEMMA EntryInv ==
  ASSUME SmpInv, NEW c \in Core, smp_ap_entry(c)
  PROVE  SmpInv'
<1>t. SmpTypeOK /\ StackInv /\ TidInv
  BY DEF SmpInv
<1>r. core \in [Core -> CoreRecord] /\ core[c] \in CoreRecord
  BY <1>t DEF SmpTypeOK
<1>n. stack_top \in Core \cup {None} /\ cpu_count_actual \in Nat
  BY <1>t DEF SmpTypeOK
<1>1. /\ core' \in [Core -> CoreRecord] /\ \A d \in Core \ {c} : core'[d] = core[d]
      /\ core'[c].pc \in {"report", "count", "counted", "slot", "test", "idle"}
      /\ \/ core'[c].rsp = core[c].rsp /\ core[c].pc \notin {"off", "wait", "start"}
         \/ Trampoline(c)
  <2>1. CASE Trampoline(c)
    BY <2>1, <1>r, <1>n DEF Trampoline, CoreRecord, Points
  <2>2. CASE Report(c) \/ CountStore(c) \/ ReportAgain(c)
    BY SMTT(20), <2>2, <1>r DEF Report, CountStore, ReportAgain, Go, At, CoreRecord, Points
  <2>3. CASE CountLoad(c)
    BY <2>3, <1>r, <1>n DEF CountLoad, At, CoreRecord, Points
  <2>4. CASE SlotStore(c)
    BY <2>4, <1>r DEF SlotStore, At, CoreRecord, Points
  <2> QED
    BY <2>1, <2>2, <2>3, <2>4 DEF smp_ap_entry
<1>2. /\ UNCHANGED <<bsp, stack_top, sched, unloaded>> /\ cpu_count_actual' \in Nat
  BY SMT, <1>n, <1>r DEF smp_ap_entry, Trampoline, Report, CountLoad, CountStore, SlotStore, ReportAgain,
                    handshake, slots, unsaid, CoreRecord
<1>3. SmpTypeOK'
  BY <1>t, <1>1, <1>2 DEF SmpTypeOK, sched, Id
<1>4. TidInv'
  BY <1>t, <1>1, <1>2, TidKept
<1>5. StackInv'
  <2>1. (\A d \in Ap : At(d, "start")' => At(d, "start")) /\ (At(Bsp, "off") => At(Bsp, "off")')
    BY <1>1 DEF At, Core, Trampoline
  <2>2. CASE ~ Trampoline(c)
    <3>1. \A d \in Ap : d \in Started' => d \in Started /\ core'[d].rsp = core[d].rsp
      BY <1>1, <2>2 DEF Started, Core
    <3> QED
      BY <1>t, <1>2, <2>1, <3>1, StackKept
  <2>3. CASE Trampoline(c)
    <3>1. core'[c].rsp = stack_top /\ At(c, "start")
      BY <2>3, <1>r DEF Trampoline, CoreRecord
    <3>2. unloaded = {} /\ c \in Ap => stack_top = c
      BY <1>t, <3>1 DEF StackInv
    <3>3. \A d \in Started' : d \in Ap /\ (d = c \/ (d \in Started /\ core'[d].rsp = core[d].rsp))
      BY <1>1 DEF Started, Core
    <3>4. StacksApart'
      BY <1>t, <1>2, <3>1, <3>2, <3>3 DEF StackInv, StacksApart
    <3> QED
      BY <1>t, <1>2, <2>1, <3>4 DEF StackInv, Id
  <2> QED
    BY <2>2, <2>3
<1> QED
  BY <1>3, <1>4, <1>5 DEF SmpInv

-----------------------------------------------------------------------------
(* sched_init leaves the stacks alone and keeps the types (sched.c:18-56). *)
LEMMA SchedInitShape ==
  ASSUME SmpInv, NEW c \in Core, sched_init(c)
  PROVE  SmpTypeOK' /\ StackInv' /\ \A d \in Core \ {c} : core'[d] = core[d]
<1>t. SmpTypeOK /\ StackInv
  BY DEF SmpInv
<1>r. core \in [Core -> CoreRecord] /\ core[c] \in CoreRecord /\ next_tid \in Nat \ {0}
  BY <1>t DEF SmpTypeOK
<1>1. /\ core' \in [Core -> CoreRecord] /\ \A d \in Core \ {c} : core'[d] = core[d]
      /\ core[c].pc \notin {"off", "wait", "start"} /\ core'[c].pc \notin {"off", "wait", "start"}
      /\ core'[c].rsp = core[c].rsp
  <2>1. CASE Test(c) \/ Reset(c) \/ Lock(c) \/ Unlock(c)
    BY SMT, <2>1, <1>r DEF Test, Reset, Lock, Unlock, Go, At, CoreRecord, Points
  <2>2. CASE TidLoad(c)
    BY <2>2, <1>r DEF TidLoad, At, CoreRecord, Points
  <2>3. CASE TidStore(c)
    BY <2>3, <1>r DEF TidStore, At, CoreRecord, Points
  <2> QED
    BY <2>1, <2>2, <2>3 DEF sched_init
<1>2. UNCHANGED <<stack_top, slots, unloaded>>
  BY DEF sched_init, Test, Reset, Lock, Unlock, TidLoad, TidStore, handshake, unsaid
<1>4. next_tid' \in Nat \ {0} /\ global_sched_lock' \in {0, 1} /\ tids' \in [Core -> Seq(Nat)]
      /\ firsts' \subseteq Core
  <2>1. CASE TidStore(c)
    BY SMTT(20), <2>1, <1>t, <1>r DEF TidStore, SmpTypeOK, CoreRecord
  <2>2. CASE ~ TidStore(c)
    BY <2>2, <1>t DEF sched_init, Test, Reset, Lock, Unlock, TidLoad, SmpTypeOK, sched
  <2> QED
    BY <2>1, <2>2
<1>3. core[Bsp].pc # "off" => bsp.pc \in {"sched", "ready"}
  BY <1>t DEF StackInv, At
<1>5. bsp' = bsp \/ (c = Bsp /\ bsp' = [bsp EXCEPT !.pc = "ready"])
  BY DEF sched_init, Test, Reset, Lock, Unlock, TidLoad, TidStore, BspGo
<1>7. SmpTypeOK'
  BY <1>t, <1>1, <1>2, <1>4, <1>5 DEF SmpTypeOK, slots, Waiting, Id
<1>8. StackInv'
  <2>1. \A d \in Ap : /\ At(d, "start")' => At(d, "start")
                      /\ d \in Started' => d \in Started /\ core'[d].rsp = core[d].rsp
    BY <1>1 DEF At, Started, Core
  <2>2. At(Bsp, "off") => At(Bsp, "off")'
    BY <1>1 DEF At, Core
  <2>3. CASE bsp' = bsp
    BY <1>t, <1>2, <2>1, <2>2, <2>3, StackKept
  <2>4. CASE c = Bsp /\ bsp' = [bsp EXCEPT !.pc = "ready"]
    <3>1. bsp.pc \in {"sched", "ready"} /\ bsp'.pc = "ready"
      BY <1>t, <1>1, <1>3, <2>4 DEF SmpTypeOK
    <3>2. Started' \subseteq Ap
      BY DEF Started
    <3> QED
      BY <1>t, <1>2, <2>1, <3>1, <3>2 DEF StackInv, StacksApart, Waiting
  <2> QED
    BY <1>5, <2>3, <2>4
<1> QED
  BY <1>1, <1>7, <1>8

(* The test and the reset: the first core finds the lock free              *)
(* (sched.c:27-33).                                                        *)
LEMMA TestResetTid ==
  ASSUME SmpInv, NEW c \in Core, Test(c) \/ Reset(c)
  PROVE  TidInv'
<1>s. \A d \in Core \ {c} : core'[d] = core[d]
  BY SchedInitShape DEF sched_init
<1>r. core \in [Core -> CoreRecord]
  BY DEF SmpInv, SmpTypeOK
<1>u. UNCHANGED <<next_tid, tids>>
  BY DEF Test, Reset
<1> SUFFICES ASSUME OneFirst' PROVE TidInv'
  BY DEF TidInv
<1>f. OneFirst /\ firsts \subseteq firsts'
  BY DEF OneFirst, Test, Reset
<1>j. TidInv
  BY DEF SmpInv
<1>1. CASE Test(c)
  <2>1. /\ core'[c].pc = IF next_tid = 1 THEN "reset" ELSE "lock"
        /\ next_tid = 1 => c \in firsts'
        /\ global_sched_lock' = global_sched_lock
    BY <1>1, <1>r DEF Test, Go, CoreRecord
  <2>2. Locked' \subseteq Locked /\ Tested' \subseteq Tested \cup {c}
    BY <1>s, <2>1 DEF Locked, Tested
  <2>3. \A d \in Core : /\ At(d, "reset")' => d = c \/ At(d, "reset")
                        /\ At(d, "bump")' => At(d, "bump") /\ core'[d].tmp = core[d].tmp
    BY <1>s, <2>1 DEF At
  <2>4. \A d \in Core : At(d, "reset")' => d \in firsts' /\ next_tid' = 1
    BY <1>f, <1>j, <1>u, <1>s, <2>1 DEF TidInv, At
  <2> QED
    BY SMTT(20), <1>f, <1>j, <1>u, <2>1, <2>2, <2>3, <2>4 DEF TidInv
<1>2. CASE Reset(c)
  <2>1. core'[c].pc = "lock" /\ At(c, "reset") /\ firsts' = firsts
    BY <1>2, <1>r DEF Reset, Go, CoreRecord
  <2>2. c \in firsts /\ next_tid = 1 /\ Tested \subseteq firsts
    BY <1>f, <1>j, <2>1 DEF TidInv
  <2>3. Tested \subseteq {c}
    BY <1>f, <2>2 DEF OneFirst
  <2>4. Tested' \subseteq firsts /\ Locked' = {}
    BY <1>s, <2>1, <2>2, <2>3 DEF Tested, Locked, At
  <2>5. \A d \in Core : ~ At(d, "reset")' /\ ~ At(d, "bump")'
    BY <1>s, <2>1, <2>3 DEF Tested, Locked, At
  <2> QED
    BY SMTT(30), <1>f, <1>j, <1>u, <2>1, <2>4, <2>5 DEF TidInv
<1> QED
  BY <1>1, <1>2

(* Taking and giving back the lock, and the load under it (sched.c:36-38). *)
LEMMA LockTid ==
  ASSUME SmpInv, NEW c \in Core, Lock(c) \/ TidLoad(c) \/ Unlock(c)
  PROVE  TidInv'
<1>s. \A d \in Core \ {c} : core'[d] = core[d]
  BY SchedInitShape DEF sched_init
<1>r. core \in [Core -> CoreRecord]
  BY DEF SmpInv, SmpTypeOK
<1>u. UNCHANGED <<next_tid, tids, firsts>>
  BY DEF Lock, TidLoad, Unlock, sched
<1> SUFFICES ASSUME OneFirst PROVE TidInv'
  BY <1>u DEF TidInv, OneFirst
<1>j. TidInv
  BY DEF SmpInv
<1>1. CASE Lock(c)
  <2>1. core'[c].pc = "tid" /\ core[c].pc = "lock" /\ global_sched_lock = 0 /\ global_sched_lock' = 1
    BY <1>1, <1>r DEF Lock, Go, At, CoreRecord
  <2>2. Locked = {}
    BY SMT, <1>j, <2>1 DEF TidInv
  <2>3. Locked' = {c} /\ Tested' \subseteq Tested
    BY <1>s, <2>1, <2>2 DEF Locked, Tested
  <2>4. \A d \in Core : (At(d, "reset")' => At(d, "reset")) /\ ~ At(d, "bump")'
    BY <1>s, <2>1, <2>2 DEF At, Locked
  <2> QED
    BY SMT, <1>j, <1>u, <2>1, <2>3, <2>4 DEF TidInv
<1>2. CASE TidLoad(c)
  <2>1. core'[c].pc = "bump" /\ core[c].pc = "tid" /\ core'[c].tmp = next_tid
        /\ global_sched_lock' = global_sched_lock
    BY <1>2, <1>r DEF TidLoad, At, CoreRecord, sched
  <2>3. Locked' = Locked /\ Tested' = Tested
    BY <1>s, <2>1 DEF Locked, Tested
  <2>4. \A d \in Core : /\ At(d, "reset")' => At(d, "reset")
                        /\ At(d, "bump")' => d = c \/ (At(d, "bump") /\ core'[d].tmp = core[d].tmp)
    BY <1>s, <2>1 DEF At
  <2> QED
    BY SMT, <1>j, <1>u, <2>1, <2>3, <2>4 DEF TidInv
<1>3. CASE Unlock(c)
  <2>1. core'[c].pc \in {"lock", "again", "idle"} /\ core[c].pc = "unlock"
    BY <1>3, <1>r DEF Unlock, Go, At, CoreRecord
  <2>2. Locked = {c}
    BY <1>j, <2>1 DEF TidInv, Locked
  <2>3. Locked' = {} /\ Tested' \subseteq Tested
    BY <1>s, <2>1, <2>2 DEF Locked, Tested
  <2>4. \A d \in Core : (At(d, "reset")' => At(d, "reset")) /\ ~ At(d, "bump")'
    BY <1>s, <2>1, <2>2 DEF At, Locked
  <2> QED
    BY SMT, <1>j, <1>u, <2>3, <2>4 DEF TidInv
<1> QED
  BY <1>1, <1>2, <1>3

(* The store of next_tid, by the one core that holds the lock              *)
(* (sched.c:37).                                                           *)
LEMMA StoreTid ==
  ASSUME SmpInv, NEW c \in Core, TidStore(c)
  PROVE  TidInv'
<1>s. \A d \in Core \ {c} : core'[d] = core[d]
  BY SchedInitShape DEF sched_init
<1>r. core \in [Core -> CoreRecord] /\ tids \in [Core -> Seq(Nat)] /\ next_tid \in Nat \ {0}
  BY DEF SmpInv, SmpTypeOK
<1>u. UNCHANGED <<global_sched_lock, firsts>>
  BY DEF TidStore
<1> SUFFICES ASSUME OneFirst PROVE TidInv'
  BY <1>u DEF TidInv, OneFirst
<1>j. TidInv
  BY DEF SmpInv
<1>1. core'[c].pc = "unlock" /\ core[c].pc = "bump" /\ core[c].tmp = next_tid
  BY SMT, <1>r, <1>j DEF TidStore, At, CoreRecord, TidInv
<1>2. next_tid' = next_tid + 1 /\ tids' = [tids EXCEPT ![c] = Append(@, next_tid)]
  BY <1>1 DEF TidStore
<1>3. Locked = {c} /\ Locked' = {c}
  BY SMT, <1>s, <1>j, <1>1 DEF TidInv, Locked
<1>4. \A d \in Core : ~ At(d, "bump")' /\ (At(d, "reset")' => At(d, "reset"))
  BY <1>s, <1>1, <1>3 DEF Locked, At
<1>5. \A d \in Core : ~ At(d, "reset")
  <2> SUFFICES ASSUME NEW d \in Core, At(d, "reset") PROVE FALSE
    OBVIOUS
  <2>1. d \in firsts /\ Tested \subseteq firsts
    BY <1>j DEF TidInv
  <2>2. c \in Tested
    BY <1>3 DEF Tested
  <2> QED
    BY <1>1, <2>1, <2>2 DEF OneFirst, At
<1>6. /\ \A d \in Core \ {c} : tids'[d] = tids[d]
      /\ DOMAIN tids'[c] = DOMAIN tids[c] \cup {Len(tids[c]) + 1}
      /\ \A k \in DOMAIN tids[c] : tids'[c][k] = tids[c][k]
      /\ tids'[c][Len(tids[c]) + 1] = next_tid
      /\ Len(tids[c]) + 1 \notin DOMAIN tids[c]
  BY SMT, <1>r, <1>2
<1>7. \A d \in Core : \A k \in DOMAIN tids[d] : tids[d][k] \in Nat /\ tids[d][k] < next_tid
  BY SMT, <1>r, <1>j DEF TidInv
<1>8. \A d \in Core : \A k \in DOMAIN tids'[d] :
        \/ k \in DOMAIN tids[d] /\ tids'[d][k] = tids[d][k]
        \/ d = c /\ k = Len(tids[c]) + 1 /\ tids'[d][k] = next_tid
  BY <1>6
<1>9. \A d \in Core : \A k \in DOMAIN tids'[d] : tids'[d][k] < next_tid'
  BY SMT, <1>r, <1>2, <1>7, <1>8
<1>10. ASSUME NEW d \in Core, NEW e \in Core, NEW k \in DOMAIN tids'[d], NEW l \in DOMAIN tids'[e],
              tids'[d][k] = tids'[e][l]
       PROVE  d = e /\ k = l
  <2>1. \A i \in DOMAIN tids[d], j \in DOMAIN tids[e] : tids[d][i] = tids[e][j] => d = e /\ i = j
    BY <1>j DEF TidInv
  <2>2. \/ k \in DOMAIN tids[d] /\ tids'[d][k] = tids[d][k]
        \/ d = c /\ k = Len(tids[c]) + 1 /\ tids'[d][k] = next_tid
    BY <1>8
  <2>3. \/ l \in DOMAIN tids[e] /\ tids'[e][l] = tids[e][l]
        \/ e = c /\ l = Len(tids[c]) + 1 /\ tids'[e][l] = next_tid
    BY <1>8
  <2>4. k \in DOMAIN tids[d] => tids[d][k] # next_tid
    BY SMT, <1>r, <1>7
  <2>5. l \in DOMAIN tids[e] => tids[e][l] # next_tid
    BY SMT, <1>r, <1>7
  <2> QED
    BY <1>10, <2>1, <2>2, <2>3, <2>4, <2>5
<1>11. next_tid' # 1
  BY SMT, <1>r, <1>2
<1> QED
  BY <1>u, <1>j, <1>3, <1>4, <1>5, <1>9, <1>10, <1>11 DEF TidInv

-----------------------------------------------------------------------------
(* Every step of the start-up keeps the invariant. *)
LEMMA SmpNextInv ==
  ASSUME SmpInv, [SmpNext]_smp_vars
  PROVE  SmpInv'
<1>1. CASE BspStep
  BY <1>1, PrepareInv, SipiInv, PollInv, SmpDoneInv DEF BspStep
<1>2. ASSUME NEW c \in Core, CoreStep(c) PROVE SmpInv'
  <2>1. CASE smp_ap_entry(c)
    BY <2>1, EntryInv
  <2>2. CASE sched_init(c)
    <3>1. SmpTypeOK' /\ StackInv'
      BY <2>2, SchedInitShape
    <3>2. TidInv'
      BY <2>2, TestResetTid, LockTid, StoreTid DEF sched_init
    <3> QED
      BY <3>1, <3>2 DEF SmpInv
  <2> QED
    BY <1>2, <2>1, <2>2 DEF CoreStep
<1>3. CASE UNCHANGED smp_vars
  <2>1. SmpTypeOK' /\ TidInv'
    BY <1>3, TidKept DEF SmpInv, SmpTypeOK, smp_vars, sched, Id
  <2>2. StackInv'
    BY <1>3, StackKept DEF SmpInv, smp_vars, At, Started
  <2> QED
    BY <2>1, <2>2 DEF SmpInv
<1> QED
  BY <1>1, <1>2, <1>3 DEF SmpNext

(* The invariant of the start-up holds for any number of cores. *)
THEOREM SmpInvariance == SmpSpec => []SmpInv
<1>1. SmpInit => SmpInv
  <2> SUFFICES ASSUME SmpInit PROVE SmpInv
    OBVIOUS
  <2>1. /\ bsp.pc = "loop" /\ bsp.i = 1 /\ \A c \in Core : core[c].pc = "off" /\ tids[c] = <<>>
    BY DEF SmpInit
  <2>2. SmpTypeOK
    BY SMT DEF SmpInit, SmpTypeOK, CoreRecord, Points, Waiting
  <2>3. StackInv
    BY <2>1 DEF StackInv, StacksApart, Started, At, Waiting, Core
  <2>4. Locked = {} /\ Tested = {}
    BY <2>1 DEF Locked, Tested
  <2>5. TidInv
    BY SMT, <2>1, <2>4 DEF TidInv, At
  <2> QED
    BY <2>2, <2>3, <2>5 DEF SmpInv
<1> QED
  BY <1>1, SmpNextInv, PTL DEF SmpSpec

(* Each core runs on the stack made for it unless one was left without      *)
(* (smp.c:50-61, smp_boot.asm:55-60).                                       *)
THEOREM CoresOnTheirStacks == SmpSpec => []StacksApart
<1>1. SmpInv => StacksApart
  BY DEF SmpInv, StackInv
<1> QED
  BY <1>1, SmpInvariance, PTL

(* No two threads made during the start-up have one tid, unless two cores   *)
(* took themselves for the first (sched.c:27-38).                           *)
THEOREM NoTidTwice == SmpSpec => []TidsUnique
<1>1. SmpInv => TidsUnique
  <2> SUFFICES ASSUME SmpInv, OneFirst, NEW g \in Given, NEW h \in Given,
                      tids[g[1]][g[2]] = tids[h[1]][h[2]]
               PROVE  g = h
    BY DEF TidsUnique, OneFirst
  <2>1. /\ g \in Core \X {1, 2} /\ h \in Core \X {1, 2}
        /\ g[2] \in DOMAIN tids[g[1]] /\ h[2] \in DOMAIN tids[h[1]]
    BY SMT DEF SmpInv, SmpTypeOK, Given
  <2>2. g[1] = h[1] /\ g[2] = h[2]
    BY SMT, <2>1 DEF SmpInv, TidInv
  <2> QED
    BY SMT, <2>1, <2>2
<1> QED
  BY <1>1, SmpInvariance, PTL

-----------------------------------------------------------------------------

(* The table is finite, and so are the cores (acpi.c). *)
LEMMA CoresFinite ==
  /\ IsFiniteSet(Core) /\ Cardinality(Core) \in Nat \ {0}
  /\ Slot = 0 .. Cardinality(Core) - 1 /\ 0 \in Slot
<1> DEFINE R == {CpuIds[k] : k \in DOMAIN CpuIds}
<1>1. CpuIds \in Seq(Core) /\ IsFiniteSet(DOMAIN CpuIds)
  <2>1. CpuIds \in Seq(Core)
    BY SmpAssumption
  <2>2. DOMAIN CpuIds = 1 .. Len(CpuIds) /\ Len(CpuIds) \in Nat
    BY SMT, <2>1
  <2> QED
    BY SMT, <2>1, <2>2, FS_Interval
<1>2. CpuIds \in Surjection(DOMAIN CpuIds, R)
  BY SMT, <1>1 DEF Surjection
<1>3. IsFiniteSet(R)
  <2> HIDE DEF R
  <2> QED
    BY <1>1, <1>2, FS_Surjection
<1>4. IsFiniteSet(Core)
  <2>1. IsFiniteSet(R \cup {Bsp})
    BY <1>3, FS_AddElement
  <2>2. Core = R \cup {Bsp}
    BY DEF Core, Ap
  <2> QED
    BY <2>1, <2>2
<1>5. Cardinality(Core) \in Nat /\ Cardinality(Core) # 0
  <2>1. Core # {}
    BY DEF Core
  <2> QED
    BY <1>4, <2>1, FS_CardinalityType, FS_EmptySet
<1> QED
  BY SMT, <1>4, <1>5 DEF Slot

(* One more core with a slot. *)
LEMMA OneMoreUp ==
  ASSUME NEW U \in SUBSET Core
  PROVE  /\ IsFiniteSet(U) /\ Cardinality(U) \in Nat /\ (Bsp \in U => Cardinality(U) > 0)
         /\ \A c \in Core \ U : Cardinality(U \cup {c}) = Cardinality(U) + 1 /\ Cardinality(U) \in Slot
<1>1. IsFiniteSet(U) /\ Cardinality(U) \in Nat
  BY CoresFinite, FS_Subset, FS_CardinalityType
<1>2. Bsp \in U => Cardinality(U) > 0
  BY SMT, <1>1, FS_EmptySet
<1>3. ASSUME NEW c \in Core \ U
      PROVE  Cardinality(U \cup {c}) = Cardinality(U) + 1 /\ Cardinality(U) \in Slot
  <2>1. Cardinality(U \cup {c}) = Cardinality(U) + 1
    BY <1>1, FS_AddElement
  <2>2. Cardinality(U \cup {c}) <= Cardinality(Core)
    BY CoresFinite, FS_Subset
  <2>3. Cardinality(U) + 1 <= Cardinality(Core) /\ Cardinality(Core) \in Nat
    BY <2>1, <2>2, CoresFinite
  <2> QED
    BY SMT, <1>1, <2>1, <2>3, CoresFinite
<1> QED
  BY <1>1, <1>2, <1>3

(* The entries of the table are different cores (acpi.c). *)
LEMMA IdsApart ==
  ASSUME SmpTypeOK, bsp.pc \in Waiting
  PROVE  bsp.i \in DOMAIN CpuIds /\ bsp.i \in Nat /\ Id \in Ap /\ \A k \in DOMAIN CpuIds : CpuIds[k] = Id => k = bsp.i
BY SmpAssumption, IdIsCore DEF SmpTypeOK, Id, Core

(* A step of a core changes that core only, and what is printed not at all  *)
(* (smp.c:14-26).                                                           *)
LEMMA CoreStepShape ==
  ASSUME SmpInv, NEW c \in Core, CoreStep(c)
  PROVE  /\ core' \in [Core -> CoreRecord] /\ core[c] \in CoreRecord
         /\ \A d \in Core \ {c} : core'[d] = core[d]
         /\ UNCHANGED <<said, late>> /\ core[c].pc \notin {"off", "wait", "idle"}
         /\ bsp' = bsp \/ (c = Bsp /\ bsp'.i = bsp.i /\ bsp'.pc = "ready")
<1>1. core \in [Core -> CoreRecord] /\ core[c] \in CoreRecord /\ bsp \in [pc : {"loop", "sched", "ready"} \cup Waiting, i : Nat \ {0}]
  BY DEF SmpInv, SmpTypeOK
<1>2. core' \in [Core -> CoreRecord]
  <2>1. SmpInv'
    BY SmpNextInv DEF SmpNext
  <2> QED
    BY <2>1 DEF SmpInv, SmpTypeOK
<1>3. \A d \in Core \ {c} : core'[d] = core[d]
  BY <1>1 DEF CoreStep, sched_init, smp_ap_entry, Test, Reset, Lock, TidLoad, TidStore, Unlock, Trampoline,
     Report, CountLoad, CountStore, SlotStore, ReportAgain, Go
<1>4. UNCHANGED <<said, late>> /\ core[c].pc \notin {"off", "wait", "idle"}
  BY DEF CoreStep, sched_init, smp_ap_entry, Test, Reset, Lock, TidLoad, TidStore, Unlock, Trampoline,
     Report, CountLoad, CountStore, SlotStore, ReportAgain, At, unsaid
<1>5. bsp' = bsp \/ (c = Bsp /\ bsp' = [bsp EXCEPT !.pc = "ready"])
  BY DEF CoreStep, sched_init, smp_ap_entry, Test, Reset, Lock, TidLoad, TidStore, Unlock, Trampoline,
     Report, CountLoad, CountStore, SlotStore, ReportAgain, BspGo
<1> QED
  BY <1>1, <1>2, <1>3, <1>4, <1>5

(* Where a core's steps lead, and what they do to the status word and to    *)
(* cpus[] (smp_boot.asm:55-63, smp.c:14-26, cpu.c:9-16, sched.c:18-56).     *)
LEMMA CoreMoves ==
  ASSUME SmpInv, NEW c \in Core, CoreStep(c)
  PROVE  \/ /\ core[c].pc \in {"test", "reset", "lock", "tid", "bump", "unlock"}
            /\ core'[c].pc \in {"reset", "lock", "tid", "bump", "unlock"}
                 \cup (IF c = Bsp THEN {"idle"} ELSE {"again"})
            /\ UNCHANGED <<status, slots>>
         \/ core[c].pc = "start" /\ core'[c].pc = "report" /\ UNCHANGED <<status, slots>>
         \/ core[c].pc = "report" /\ core'[c].pc = "count" /\ status' = 1 /\ UNCHANGED slots
         \/ /\ core[c].pc = "count" /\ core'[c].pc = "counted" /\ core'[c].idx = cpu_count_actual
            /\ UNCHANGED <<status, slots>>
         \/ /\ core[c].pc = "counted" /\ core'[c].pc = "slot" /\ core'[c].idx = core[c].idx
            /\ cpu_count_actual' = core[c].idx + 1 /\ UNCHANGED <<status, cpus>>
         \/ /\ core[c].pc = "slot" /\ core'[c].pc = "test"
            /\ cpus' = [cpus EXCEPT ![core[c].idx] = c] /\ UNCHANGED <<status, cpu_count_actual>>
         \/ core[c].pc = "again" /\ core'[c].pc = "idle" /\ status' = 1 /\ UNCHANGED slots
<1>1. core \in [Core -> CoreRecord] /\ core[c] \in CoreRecord
  BY DEF SmpInv, SmpTypeOK
<1>2. CASE Test(c) \/ Reset(c) \/ Lock(c)
  BY <1>1, <1>2 DEF Test, Reset, Lock, Go, At, CoreRecord, handshake
<1>3. CASE TidLoad(c)
  BY <1>1, <1>3 DEF TidLoad, At, CoreRecord, handshake
<1>4. CASE TidStore(c)
  BY <1>1, <1>4 DEF TidStore, At, CoreRecord, handshake
<1>5. CASE Unlock(c)
  BY <1>1, <1>5 DEF Unlock, Go, At, CoreRecord, handshake
<1>6. CASE Trampoline(c)
  BY <1>1, <1>6 DEF Trampoline, At, CoreRecord, handshake
<1>7. CASE Report(c) \/ ReportAgain(c)
  BY <1>1, <1>7 DEF Report, ReportAgain, Go, At, CoreRecord
<1>8. CASE CountLoad(c)
  BY <1>1, <1>8 DEF CountLoad, At, CoreRecord, handshake
<1>9. CASE CountStore(c)
  BY <1>1, <1>9 DEF CountStore, Go, At, CoreRecord, handshake
<1>10. CASE SlotStore(c)
  BY <1>1, <1>10 DEF SlotStore, At, CoreRecord, handshake
<1> QED
  BY <1>2, <1>3, <1>4, <1>5, <1>6, <1>7, <1>8, <1>9, <1>10 DEF CoreStep, sched_init, smp_ap_entry

(* The core that is under way reports and goes on (smp_boot.asm:55-63,      *)
(* smp.c:14-26).                                                            *)
LEMMA CoreAlone ==
  ASSUME SmpInv, AloneInv, NEW c \in Core, CoreStep(c)
  PROVE  AloneInv'
<1>1. /\ core' \in [Core -> CoreRecord] /\ core[c] \in CoreRecord
      /\ \A d \in Core \ {c} : core'[d] = core[d]
      /\ UNCHANGED <<said, late>> /\ core[c].pc \notin {"off", "wait", "idle"}
      /\ bsp' = bsp \/ (c = Bsp /\ bsp'.i = bsp.i /\ bsp'.pc = "ready")
  BY CoreStepShape
<1>2. CASE c = Bsp
  <2>2. /\ core'[c].pc \in {"reset", "lock", "tid", "bump", "unlock", "idle"} /\ status' = status
        /\ core[c].pc # "off"
    BY <1>2, CoreMoves DEF AloneInv
  <2>3. bsp.pc \in {"sched", "ready"}
    BY <1>2, <2>2 DEF SmpInv, StackInv, At
  <2>4. bsp'.i = bsp.i /\ bsp'.pc \in {"sched", "ready"}
    BY <1>1, <2>3
  <2>5. \A d \in Ap : d \in Core /\ d # c /\ core'[d] = core[d]
    BY <1>1, <1>2 DEF Core, Ap
  <2>6. \A k \in DOMAIN CpuIds : (Pending(k)' <=> Pending(k)) /\ CpuIds[k] \in Core
    BY <2>3, <2>4, IdIsCore DEF Pending
  <2> QED
    BY SMTT(20), <1>1, <1>2, <2>2, <2>3, <2>4, <2>5, <2>6 DEF AloneInv, At, Waiting, Core
<1>3. CASE c \in Ap
  <2>1. bsp' = bsp /\ c # Bsp
    BY <1>1, <1>3 DEF Ap
  <2>2. core'[Bsp] = core[Bsp]
    BY <1>1, <2>1 DEF Core
  <2> SUFFICES ASSUME late = {} PROVE AloneInv'
    BY <1>1, <2>2 DEF AloneInv
  <2>3. bsp.pc \in Waiting /\ c = Id /\ Id' = Id
    BY <1>1, <1>3, <2>1 DEF AloneInv, Id
  <2>4. /\ core'[c].pc \notin {"off", "wait", "start"}
        /\ status' = 1 <=> core'[c].pc # "report"
    <3>1. status = 1 <=> core[c].pc \notin {"wait", "start", "report"}
      BY <2>3 DEF AloneInv
    <3> QED
      BY <2>1, <3>1, CoreMoves
  <2>5. \A k \in DOMAIN CpuIds : Pending(k)' => Pending(k) /\ CpuIds[k] # c /\ CpuIds[k] \in Core
    BY SMT, <2>1, <2>3, IdsApart, IdIsCore DEF SmpInv, Pending, Waiting
  <2> QED
    BY SMT, <1>1, <1>3, <2>1, <2>2, <2>3, <2>4, <2>5 DEF AloneInv, At, Core
<1> QED
  BY <1>2, <1>3 DEF Core

(* The boot CPU starts a core that was never started (smp.c:42-56).         *)
LEMMA PrepareAlone ==
  ASSUME SmpInv, AloneInv, Prepare
  PROVE  AloneInv'
<1>t. /\ core \in [Core -> CoreRecord]
      /\ bsp \in [pc : {"loop", "sched", "ready"} \cup Waiting, i : Nat \ {0}]
  BY DEF SmpInv, SmpTypeOK
<1>1. /\ bsp.pc = "loop" /\ bsp.i \in DOMAIN CpuIds /\ Id \in Core /\ bsp.i \in Nat /\ DOMAIN CpuIds \subseteq Nat
      /\ \A k \in DOMAIN CpuIds : CpuIds[k] = Id => k = bsp.i
      /\ UNCHANGED <<said, late>>
  BY SMT, <1>t, SmpAssumption, IdIsCore DEF Prepare, Id, unsaid
<1>2. CASE Id = Bsp
  <2>1. bsp' = [bsp EXCEPT !.i = @ + 1] /\ UNCHANGED <<status, core>>
    BY <1>2 DEF Prepare, handshake
  <2>2. bsp'.pc = "loop" /\ bsp'.i = bsp.i + 1
    BY <1>t, <1>1, <2>1
  <2>3. \A k \in DOMAIN CpuIds : Pending(k)' => Pending(k)
    BY SMT, <1>1, <2>2 DEF Pending
  <2> QED
    BY <1>1, <2>1, <2>2, <2>3 DEF AloneInv, At, Waiting
<1>3. CASE Id # Bsp
  <2>1. /\ bsp' = [bsp EXCEPT !.pc = "sipi"] /\ status' = 0 /\ core' = [core EXCEPT ![Id].pc = "wait"]
    BY <1>3 DEF Prepare, BspGo, Go
  <2>2. bsp'.i = bsp.i /\ bsp'.pc = "sipi" /\ Id' = Id
    BY <1>t, <2>1 DEF Id
  <2>3. core'[Id].pc = "wait" /\ \A d \in Core \ {Id} : core'[d] = core[d]
    BY <1>t, <1>1, <2>1 DEF CoreRecord
  <2>4. \A k \in DOMAIN CpuIds : Pending(k)' => Pending(k) /\ CpuIds[k] # Id /\ CpuIds[k] \in Core
    BY SMT, <1>1, <2>2, IdIsCore DEF Pending
  <2>5. late = {} => At(Id, "off") /\ said[Id] = None
    BY <1>1, <1>3 DEF AloneInv, Pending, Id
  <2>6. core'[Bsp] = core[Bsp] /\ \A d \in Ap : d \in Core
    BY <1>3, <2>3 DEF Core
  <2>7. (late = {})' => \A d \in Ap : core'[d].pc \in {"off", "wait", "idle"}
    BY <1>1, <2>3, <2>6 DEF AloneInv, Waiting
  <2>8. (late = {})' => \A d \in Ap : said[d] # None => d # Id /\ (said[d] = "ok" <=> core'[d].pc = "idle")
    BY <1>1, <2>3, <2>5, <2>6 DEF AloneInv, At
  <2>9. (late = {})' => \A k \in DOMAIN CpuIds :
          Pending(k)' => (CpuIds[k] # Bsp => core'[CpuIds[k]].pc = "off") /\ said[CpuIds[k]] = None
    BY <1>1, <2>3, <2>4 DEF AloneInv, At
  <2>10. (late = {})' => /\ said'[Id'] = None /\ core'[Id'].pc # "off"
                         /\ status' = 1 <=> core'[Id'].pc \notin {"wait", "start", "report"}
    BY SMT, <1>1, <2>1, <2>2, <2>3, <2>5
  <2>11. /\ core'[Bsp].pc \notin {"wait", "start", "report", "count", "counted", "slot", "again"}
         /\ said' \in [Core -> {None, "ok", "timeout"}]
    BY <1>1, <2>6 DEF AloneInv
  <2> QED
    BY <1>1, <2>7, <2>8, <2>9, <2>10, <2>11 DEF AloneInv, At
<1> QED
  BY <1>2, <1>3

(* A start-up interrupt (smp.c:57-60). *)
LEMMA SipiAlone ==
  ASSUME SmpInv, AloneInv, NEW from \in {"sipi", "sipi2"}, NEW to \in {"sipi2", "poll"}, Sipi(from, to)
  PROVE  AloneInv'
<1>t. /\ core \in [Core -> CoreRecord]
      /\ bsp \in [pc : {"loop", "sched", "ready"} \cup Waiting, i : Nat \ {0}]
  BY DEF SmpInv, SmpTypeOK
<1>1. /\ bsp.pc \in Waiting /\ UNCHANGED <<said, late, status>> /\ bsp' = [bsp EXCEPT !.pc = to]
  BY DEF Sipi, BspGo, Waiting, unsaid, handshake
<1>2. /\ bsp.i \in DOMAIN CpuIds /\ Id \in Ap /\ Id # Bsp /\ \A d \in Ap : d \in Core
      /\ \A k \in DOMAIN CpuIds : CpuIds[k] = Id => k = bsp.i
  BY <1>1, IdsApart DEF SmpInv, Core, Ap
<1>3. bsp'.i = bsp.i /\ bsp'.pc \in Waiting /\ Id' = Id
  BY <1>t, <1>1 DEF Id, Waiting
<1>4. \A k \in DOMAIN CpuIds : Pending(k)' => Pending(k) /\ CpuIds[k] # Id /\ CpuIds[k] \in Core
  BY SMTT(20), <1>t, <1>1, <1>2, <1>3, IdIsCore DEF Pending, Waiting
<1>5. CASE core' = core
  BY <1>1, <1>3, <1>4, <1>5 DEF AloneInv, At
<1>6. CASE At(Id, "wait") /\ core' = [core EXCEPT ![Id].pc = "start"]
  <2>1. core'[Id].pc = "start" /\ \A d \in Core \ {Id} : core'[d] = core[d]
    BY <1>t, <1>2, <1>6 DEF CoreRecord, Core
  <2>2. core'[Bsp] = core[Bsp] /\ \A d \in Ap : d # Id => core'[d] = core[d]
    BY <1>2, <2>1 DEF Core
  <2> QED
    BY SMTT(20), <1>1, <1>2, <1>3, <1>4, <1>6, <2>1, <2>2 DEF AloneInv, At
<1> QED
  BY <1>5, <1>6 DEF Sipi, Go

(* The result is printed, and is true of a core that was not left behind    *)
(* (smp.c:61-67).                                                           *)
LEMMA PollAlone ==
  ASSUME SmpInv, AloneInv, Poll
  PROVE  AloneInv'
<1>1. /\ bsp.pc = "poll" /\ bsp' = [pc |-> "loop", i |-> bsp.i + 1] /\ UNCHANGED <<core, status>>
      /\ said' = [said EXCEPT ![Id] = IF status = 1 THEN "ok" ELSE "timeout"]
      /\ late' = late \cup {c \in Ap : core[c].pc \notin {"off", "wait", "idle"}}
  BY DEF Poll, handshake
<1>2. /\ bsp.i \in DOMAIN CpuIds /\ bsp.i \in Nat /\ DOMAIN CpuIds \subseteq Nat /\ Id \in Ap /\ Id \in Core
      /\ \A d \in Ap : d \in Core
      /\ \A k \in DOMAIN CpuIds : CpuIds[k] = Id => k = bsp.i
  BY SMT, <1>1, IdsApart, SmpAssumption DEF SmpInv, Core, Ap, Waiting
<1>3. /\ said' \in [Core -> {None, "ok", "timeout"}] /\ \A d \in Core \ {Id} : said'[d] = said[d]
      /\ said'[Id] = IF status = 1 THEN "ok" ELSE "timeout"
  BY <1>1, <1>2 DEF AloneInv
<1> SUFFICES ASSUME late' = {} PROVE AloneInv'
  BY <1>1, <1>3 DEF AloneInv
<1>4. late = {} /\ \A c \in Ap : core[c].pc \in {"off", "wait", "idle"}
  BY <1>1
<1>5. \A k \in DOMAIN CpuIds : Pending(k)' => Pending(k) /\ CpuIds[k] # Id /\ CpuIds[k] \in Core
  BY SMT, <1>1, <1>2, IdIsCore DEF Pending
<1>6. said'[Id] = "ok" <=> At(Id, "idle")
  BY <1>1, <1>2, <1>3, <1>4 DEF AloneInv, At, Waiting
<1> QED
  BY <1>1, <1>2, <1>3, <1>4, <1>5, <1>6 DEF AloneInv, At, Waiting

(* smp_init returns (smp.c:69). *)
LEMMA SmpDoneAlone ==
  ASSUME SmpInv, AloneInv, SmpDone
  PROVE  AloneInv'
<1>t. /\ core \in [Core -> CoreRecord]
      /\ bsp \in [pc : {"loop", "sched", "ready"} \cup Waiting, i : Nat \ {0}]
  BY DEF SmpInv, SmpTypeOK
<1>1. /\ bsp.pc = "loop" /\ bsp' = [bsp EXCEPT !.pc = "sched"]
      /\ core' = [core EXCEPT ![Bsp].pc = "test"] /\ UNCHANGED <<status, said, late>>
  BY DEF SmpDone, BspGo, Go, handshake, unsaid
<1>2. bsp'.pc = "sched" /\ bsp'.i = bsp.i
  BY <1>t, <1>1
<1>3. core'[Bsp].pc = "test" /\ \A d \in Ap : core'[d] = core[d]
  BY <1>t, <1>1 DEF Core, CoreRecord, Ap
<1>4. \A k \in DOMAIN CpuIds : Pending(k)' => Pending(k) /\ (CpuIds[k] # Bsp => CpuIds[k] \in Ap)
  BY <1>2, IdIsCore DEF Pending, Core
<1>5. late = {} => \A d \in Ap : core'[d].pc \in {"off", "wait", "idle"}
  BY <1>1, <1>3 DEF AloneInv, Waiting
<1>6. late = {} => \A k \in DOMAIN CpuIds :
        Pending(k)' => (CpuIds[k] # Bsp => core'[CpuIds[k]].pc = "off") /\ said[CpuIds[k]] = None
  BY SMTT(20), <1>1, <1>3, <1>4 DEF AloneInv, At
<1> QED
  BY <1>1, <1>2, <1>3, <1>5, <1>6 DEF AloneInv, At, Waiting

-----------------------------------------------------------------------------
(* What no core stores to cpus[] or counts keeps SlotInv. *)
LEMMA SlotFrame ==
  ASSUME SlotInv, UNCHANGED slots,
         late' = {} =>
           /\ late = {}
           /\ \A d \in Ap : /\ d \in Entered' <=> d \in Entered
                            /\ At(d, "slot")' <=> At(d, "slot")
                            /\ core'[d].pc \in {"counted", "slot"} =>
                                 core[d].pc \in {"counted", "slot"} /\ core'[d].idx = core[d].idx
  PROVE  SlotInv'
<1>1. UNCHANGED <<cpus, cpu_count_actual>>
  BY DEF slots
<1> SUFFICES ASSUME late' = {} PROVE SlotInv'
  BY <1>1 DEF SlotInv
<1>2. Up' = Up
  BY DEF Up, Entered
<1>3. (\E c \in Ap : At(c, "slot"))' <=> (\E c \in Ap : At(c, "slot"))
  OBVIOUS
<1> QED
  BY SMT, <1>1, <1>2, <1>3 DEF SlotInv

(* The boot CPU leaves cpus[] alone (smp.c:42-67). *)
LEMMA BspSlot ==
  ASSUME SmpInv, AloneInv, SlotInv, BspStep
  PROVE  SlotInv'
<1>t. /\ core \in [Core -> CoreRecord] /\ Bsp \in Core /\ Bsp \notin Ap /\ \A d \in Ap : d \in Core
  BY DEF SmpInv, SmpTypeOK, Core, Ap
<1>1. UNCHANGED slots /\ (late' = {} => late = {})
  BY DEF BspStep, Prepare, Sipi, Poll, SmpDone, unsaid
<1>2. CASE Prepare
  <2>1. bsp.i \in DOMAIN CpuIds /\ Id \in Core
    BY SMT, <1>2, SmpAssumption, IdIsCore DEF SmpInv, SmpTypeOK, Prepare, Id
  <2>2. core' = core \/ (Id # Bsp /\ core' = [core EXCEPT ![Id].pc = "wait"])
    BY <1>2 DEF Prepare, Go
  <2>3. late = {} /\ Id # Bsp => core[Id].pc = "off"
    BY <1>2, <2>1 DEF AloneInv, Pending, Id, At, Prepare
  <2>4. late = {} => \A d \in Ap : core'[d] = core[d] \/ (core[d].pc = "off" /\ core'[d].pc = "wait")
    BY <1>t, <2>1, <2>2, <2>3 DEF CoreRecord
  <2> QED
    BY <1>1, <2>4, SlotFrame DEF Entered, At
<1>3. CASE Sipi("sipi", "sipi2") \/ Sipi("sipi2", "poll")
  <2>1. core' = core \/ (core[Id].pc = "wait" /\ core' = [core EXCEPT ![Id].pc = "start"])
    BY <1>3 DEF Sipi, Go, At
  <2>2. Id \in Core
    BY <1>3, IdsApart DEF SmpInv, Sipi, Waiting, Core
  <2>3. \A d \in Ap : core'[d] = core[d] \/ (core[d].pc = "wait" /\ core'[d].pc = "start")
    BY <1>t, <2>1, <2>2 DEF CoreRecord
  <2> QED
    BY <1>1, <2>3, SlotFrame DEF Entered, At
<1>4. CASE Poll
  BY <1>1, <1>4, SlotFrame DEF Poll, Entered, At
<1>5. CASE SmpDone
  <2>1. \A d \in Ap : core'[d] = core[d]
    BY <1>t, <1>5 DEF SmpDone, Go
  <2> QED
    BY <1>1, <2>1, SlotFrame DEF Entered, At
<1> QED
  BY <1>2, <1>3, <1>4, <1>5 DEF BspStep

(* The count, the store of the count and the store of the slot are one      *)
(* core's at a time (cpu.c:13).                                             *)
LEMMA CoreSlot ==
  ASSUME SmpInv, AloneInv, SlotInv, NEW c \in Core, CoreStep(c)
  PROVE  SlotInv'
<1>1. /\ core' \in [Core -> CoreRecord] /\ core[c] \in CoreRecord
      /\ \A d \in Core \ {c} : core'[d] = core[d]
      /\ UNCHANGED late /\ core[c].pc \notin {"off", "wait", "idle"}
  BY CoreStepShape
<1>2. Bsp \notin Ap /\ Ap \subseteq Core /\ Core = Ap \cup {Bsp}
  BY DEF Core, Ap
<1>3. CASE core[c].pc \notin {"count", "counted", "slot"}
  <2>1. \A d \in Ap \ {c} : core'[d] = core[d]
    BY <1>1, <1>2
  <2>2. /\ UNCHANGED slots /\ core'[c].pc \notin {"counted", "slot"}
        /\ core'[c].pc \notin {"start", "report", "count"} \/ core[c].pc \in {"start", "report"}
        /\ core'[c].pc \in {"report", "count"} \/ core[c].pc \notin {"start", "report"}
        /\ core'[c].pc \notin {"off", "wait"}
    BY <1>3, CoreMoves
  <2>3. ASSUME NEW d \in Ap
        PROVE  /\ d \in Entered' <=> d \in Entered
               /\ At(d, "slot")' <=> At(d, "slot")
               /\ core'[d].pc \in {"counted", "slot"} =>
                    core[d].pc \in {"counted", "slot"} /\ core'[d].idx = core[d].idx
    <3>1. CASE d = c
      BY <1>1, <1>3, <2>2, <3>1 DEF Entered, At
    <3>2. CASE d # c
      <4>1. core'[d] = core[d]
        BY <2>1, <3>2
      <4> QED
        BY <4>1 DEF Entered, At
    <3> QED
      BY <3>1, <3>2
  <2>4. late' = {} => late = {}
    BY <1>1
  <2> QED
    BY <2>2, <2>3, <2>4, SlotFrame
<1>4. CASE core[c].pc \in {"count", "counted", "slot"}
  <2>1. c \in Ap
    BY <1>2, <1>4 DEF AloneInv
  <2>2. cpus' \in [Slot -> Core \cup {None}]
    BY <1>4, CoreMoves DEF SlotInv, slots
  <2> SUFFICES ASSUME late = {} PROVE SlotInv'
    BY <1>1, <2>2 DEF SlotInv
  <2>3. \A d \in Ap \ {c} : core[d].pc \in {"off", "wait", "idle"} /\ core'[d] = core[d]
    BY <1>1, <1>2, <1>4, <2>1 DEF AloneInv
  <2>4. /\ Up \subseteq Core /\ c \notin Up /\ Cardinality(Up) \in Nat /\ Cardinality(Up) \in Slot
        /\ Cardinality(Up \cup {c}) = Cardinality(Up) + 1
    <3>1. Up \subseteq Core /\ c \notin Up
      BY <1>2, <1>4, <2>1 DEF Up, Entered
    <3> QED
      BY <3>1, OneMoreUp
  <2>5. CASE core[c].pc = "count"
    <3>1. core'[c].pc = "counted" /\ core'[c].idx = cpu_count_actual /\ UNCHANGED <<cpus, cpu_count_actual>>
      BY <2>5, CoreMoves DEF slots
    <3>2. (\A d \in Ap : ~ At(d, "slot")) /\ (\A d \in Ap : ~ At(d, "slot")')
      BY <2>3, <2>5, <3>1 DEF At
    <3>3. Up' = Up
      BY <2>1, <2>3, <2>5, <3>1 DEF Up, Entered
    <3>4. cpu_count_actual = Cardinality(Up)
      BY SMT, <2>4, <3>2 DEF SlotInv
    <3> QED
      BY <1>1, <2>3, <3>1, <3>2, <3>3, <3>4 DEF SlotInv
  <2>6. CASE core[c].pc = "counted"
    <3>1. core'[c].pc = "slot" /\ core'[c].idx = core[c].idx /\ cpu_count_actual' = core[c].idx + 1 /\ cpus' = cpus
      BY <2>6, CoreMoves
    <3>2. core[c].idx = Cardinality(Up) /\ At(c, "slot")'
      BY <2>1, <2>6, <3>1 DEF SlotInv, At
    <3>3. Up' = Up
      BY <2>1, <2>3, <2>6, <3>1 DEF Up, Entered
    <3> QED
      BY <1>1, <2>1, <2>3, <3>1, <3>2, <3>3 DEF SlotInv
  <2>7. CASE core[c].pc = "slot"
    <3>1. core'[c].pc = "test" /\ cpus' = [cpus EXCEPT ![core[c].idx] = c] /\ UNCHANGED cpu_count_actual
      BY <2>7, CoreMoves
    <3>2. core[c].idx = Cardinality(Up) /\ At(c, "slot") /\ \A d \in Ap : ~ At(d, "slot")'
      BY <2>1, <2>3, <2>7, <3>1 DEF SlotInv, At
    <3>3. Up' = Up \cup {c}
      BY <2>1, <2>3, <3>1 DEF Up, Entered
    <3>4. Cardinality(Up)' = Cardinality(Up) + 1
      BY <2>4, <3>3
    <3>5. \A k \in Slot : cpus'[k] = IF k = Cardinality(Up) THEN c ELSE cpus[k]
      BY <2>4, <3>1, <3>2 DEF SlotInv
    <3>6. c # None /\ cpus[Cardinality(Up)] = None /\ Cardinality(Up) > 0 /\ Slot \subseteq Nat
      <4>1. Cardinality(Up) > 0
        BY <2>4, OneMoreUp DEF Up
      <4>2. cpus[Cardinality(Up)] = None
        BY SMT, <2>4 DEF SlotInv
      <4> QED
        BY SMT, <4>1, <4>2, CoresFinite, SmpAssumption
    <3>7. cpus'[0] = Bsp
      BY <2>4, <3>5, <3>6, CoresFinite DEF SlotInv
    <3>8. {cpus'[k] : k \in Slot} \ {None} = Up \cup {c}
      BY SMTT(20), <2>4, <3>5, <3>6 DEF SlotInv
    <3>9. \A k \in Slot : cpus'[k] # None <=> k < Cardinality(Up) + 1
      BY SMT, <2>4, <3>5, <3>6 DEF SlotInv
    <3>10. cpu_count_actual' = Cardinality(Up) + 1
      BY <2>1, <3>1, <3>2 DEF SlotInv
    <3>11. \A d \in Ap : core'[d].pc \notin {"counted", "slot"}
      BY <2>3, <3>1
    <3> QED
      BY SMTT(20), <2>2, <2>4, <3>2, <3>3, <3>4, <3>7, <3>8, <3>9, <3>10, <3>11 DEF SlotInv
  <2> QED
    BY <1>4, <2>5, <2>6, <2>7
<1> QED
  BY <1>3, <1>4

-----------------------------------------------------------------------------
(* Every step of the start-up, as long as nobody was left behind.           *)
LEMMA SlotNextInv ==
  ASSUME SmpInv, AloneInv, SlotInv, [SmpNext]_smp_vars
  PROVE  AloneInv' /\ SlotInv'
<1>1. CASE BspStep
  BY <1>1, PrepareAlone, SipiAlone, PollAlone, SmpDoneAlone, BspSlot DEF BspStep
<1>2. CASE \E c \in Core : CoreStep(c)
  BY <1>2, CoreAlone, CoreSlot
<1>3. CASE UNCHANGED smp_vars
  <2>1. AloneInv'
    BY <1>3 DEF smp_vars, AloneInv, At, Pending, Id
  <2>2. SlotInv'
    BY <1>3, SlotFrame DEF smp_vars, slots, Entered, At
  <2> QED
    BY <2>1, <2>2
<1> QED
  BY <1>1, <1>2, <1>3 DEF SmpNext

(* The cores do not get in each other's way: as long as the boot CPU never  *)
(* left one behind under way, cpus[] holds each core that is up in one      *)
(* slot, without a hole, the boot CPU first, and "ok" is printed for those  *)
(* that are up and for no other (cpu.c:9-16, smp.c:50-67).                  *)
THEOREM CoresKeepApart == SmpSpec => []CoresApart
<1>1. SmpInit => AloneInv /\ SlotInv
  <2> SUFFICES ASSUME SmpInit PROVE AloneInv /\ SlotInv
    OBVIOUS
  <2>1. /\ bsp.pc = "loop" /\ bsp.i = 1 /\ \A c \in Core : core[c].pc = "off" /\ said[c] = None
        /\ Bsp \in Core /\ Ap \subseteq Core /\ \A k \in DOMAIN CpuIds : CpuIds[k] \in Core
    BY IdIsCore DEF SmpInit, Core
  <2>2. AloneInv
    BY <2>1 DEF SmpInit, AloneInv, At, Waiting
  <2>3. Up = {Bsp} /\ Cardinality(Up) = 1
    <3>1. Entered = {}
      BY <2>1 DEF Entered
    <3> QED
      BY <3>1, FS_Singleton DEF Up
  <2>4. 0 \in Slot /\ Slot \subseteq Nat /\ None # Bsp
    BY SMT, <2>1, CoresFinite, SmpAssumption
  <2>5. \A k \in Slot : cpus[k] = IF k = 0 THEN Bsp ELSE None
    BY DEF SmpInit
  <2>6. {cpus[k] : k \in Slot} \ {None} = {Bsp} /\ \A k \in Slot : cpus[k] # None <=> k < 1
    BY SMT, <2>4, <2>5
  <2>7. \A c \in Ap : core[c].pc = "off"
    BY <2>1
  <2> QED
    BY SMTT(20), <2>1, <2>2, <2>3, <2>4, <2>5, <2>6, <2>7 DEF SmpInit, SlotInv, At
<1>2. SmpInv /\ AloneInv /\ SlotInv => CoresApart
  <2> SUFFICES ASSUME SmpInv, AloneInv, SlotInv PROVE CoresApart
    OBVIOUS
  <2>1. Cardinality(Up) \in Nat /\ Slot \subseteq Nat
    <3>1. Up \subseteq Core
      BY DEF Up, Entered, Core
    <3> QED
      BY SMT, <3>1, OneMoreUp, CoresFinite
  <2>2. late = {} => \A k \in Slot : k < cpu_count_actual - 1 => cpus[k] # None
    <3>1. late = {} => cpu_count_actual \in {Cardinality(Up), Cardinality(Up) + 1}
      BY SMT, <2>1 DEF SlotInv
    <3>2. late = {} => \A k \in Slot : k < Cardinality(Up) => cpus[k] # None
      BY DEF SlotInv
    <3> QED
      BY SMT, <2>1, <3>1, <3>2
  <2> QED
    BY <2>2 DEF SmpInv, StackInv, AloneInv, SlotInv, CoresApart, Up
<1> QED
  BY <1>1, <1>2, SlotNextInv, SmpInvariance, PTL DEF SmpSpec
=============================================================================
