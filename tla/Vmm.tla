-------------------------------- MODULE Vmm --------------------------------
(***************************************************************************)
(* Page tables (src/kernel/vmm.c).  vmm_map walks from the root to the     *)
(* last level, makes the tables that are missing and writes the entry.  It *)
(* takes no lock and leaves interrupts on, so the walks of two threads     *)
(* interleave at every test and every store.  Tables come from pmm_alloc,  *)
(* which never gives a page out twice (NoSharing of Pmm).                  *)
(***************************************************************************)
EXTENDS Naturals, FiniteSets

CONSTANTS
  Mapper,     \* threads that call vmm_map
  Virt,       \* virtual pages
  Owner,      \* Owner[v]: the mapper that maps v
  Phys,       \* frames to map
  Table,      \* pages the allocator may give for tables
  Root,       \* kernel_pml4
  Path,       \* Path[v]: the indices the address v splits into, root first
  None

Depth == 4    \* pml4, pdpt, pd, pt
Index == UNION {{Path[v][k] : k \in 1 .. Depth} : v \in Virt}

ASSUME VmmAssumption ==
  /\ Root \in Table
  /\ Owner \in [Virt -> Mapper]
  /\ None \notin Table \cup Phys
  /\ Table \cap Phys = {}
  /\ Path \in [Virt -> [1 .. Depth -> Nat]]
  /\ \A v, w \in Virt : Path[v] = Path[w] => v = w

VARIABLES
  tables,     \* tables[t][i]: the entry, a table, a frame or None (not present)
  unused,     \* pages the allocator still has
  walk,       \* walk[m]: the vmm_map call mapper m is in
  mapped      \* mapped[v]: the frame the last finished vmm_map of v mapped

vmm_vars == <<tables, unused, walk, mapped>>

(* The page pmm_alloc gives for a table; which one makes no difference,     *)
(* pages are only told apart.                                               *)
TablePage == CHOOSE t \in unused : TRUE

Idle == [virt |-> None, phys |-> None, level |-> 0, at |-> Root, new |-> None, pc |-> "idle"]
Empty == [i \in Index |-> None]

Walk == [virt : Virt \cup {None}, phys : Phys \cup {None}, level : 0 .. Depth,
         at : Table, new : Table \cup {None}, pc : {"idle", "test", "store", "load"}]

(* A walk is at a table and never deeper than the last level (vmm.c:53-74). *)
VmmTypeOK ==
  /\ tables \in [Table -> [Index -> Table \cup Phys \cup {None}]]
  /\ unused \subseteq Table \ {Root}
  /\ walk \in [Mapper -> Walk]
  /\ mapped \in [Virt -> Phys \cup {None}]

VmmInit ==
  /\ tables = [t \in Table |-> Empty]
  /\ unused = Table \ {Root}
  /\ walk = [m \in Mapper |-> Idle]
  /\ mapped = [v \in Virt |-> None]

-----------------------------------------------------------------------------
\* Mutant: the shift of the last level is the one of the level above.
IndexOfShifted(v, level) == Path[v][IF level = Depth THEN Depth - 1 ELSE level]

(* (virt >> shift) & 0x1FF *)
IndexOf(v, level) == Path[v][level]

(* The entry the walk of m is at. *)
Slot(m) == IndexOf(walk[m].virt, walk[m].level)
Entry(m) == tables[walk[m].at][Slot(m)]

vmm_map(m, v, p) ==
  /\ walk[m].pc = "idle" /\ Owner[v] = m
  /\ walk' = [walk EXCEPT ![m] = [virt |-> v, phys |-> p, level |-> 1, at |-> Root,
                                  new |-> None, pc |-> "test"]]
  /\ UNCHANGED <<tables, unused, mapped>>

\* Mutant: a table that is present is made anew.
TestAlways(m) ==
  /\ walk[m].pc = "test" /\ walk[m].level < Depth
  /\ unused # {} /\ unused' = unused \ {TablePage}
  /\ tables' = [tables EXCEPT ![TablePage] = Empty]
  /\ walk' = [walk EXCEPT ![m].new = TablePage, ![m].pc = "store"]
  /\ UNCHANGED mapped

(* The test of the present bit.  A table that is missing is allocated and   *)
(* zeroed before anybody can see it.                                        *)
Test(m) ==
  /\ walk[m].pc = "test" /\ walk[m].level < Depth
  /\ \/ /\ Entry(m) # None
        /\ walk' = [walk EXCEPT ![m].at = Entry(m), ![m].level = @ + 1]
        /\ UNCHANGED <<tables, unused>>
     \/ /\ Entry(m) = None
        /\ unused # {} /\ unused' = unused \ {TablePage}
        /\ tables' = [tables EXCEPT ![TablePage] = Empty]
        /\ walk' = [walk EXCEPT ![m].new = TablePage, ![m].pc = "store"]
  /\ UNCHANGED mapped

(* The new table is linked in, over whatever the entry holds by now. *)
Store(m) ==
  /\ walk[m].pc = "store"
  /\ tables' = [tables EXCEPT ![walk[m].at][Slot(m)] = walk[m].new]
  /\ walk' = [walk EXCEPT ![m].pc = "load"]
  /\ UNCHANGED <<unused, mapped>>

(* The entry is read back; the compiler may also use the value it stored.   *)
Load(m) ==
  /\ walk[m].pc = "load"
  /\ \E t \in {Entry(m), walk[m].new} :
       walk' = [walk EXCEPT ![m].at = t, ![m].level = @ + 1, ![m].new = None, ![m].pc = "test"]
  /\ UNCHANGED <<tables, unused, mapped>>

(* The last level: the entry is written and vmm_map returns. *)
Write(m) ==
  /\ walk[m].pc = "test" /\ walk[m].level = Depth
  /\ tables' = [tables EXCEPT ![walk[m].at][Slot(m)] = walk[m].phys]
  /\ mapped' = [mapped EXCEPT ![walk[m].virt] = walk[m].phys]
  /\ walk' = [walk EXCEPT ![m] = Idle]
  /\ UNCHANGED unused

VmmNext ==
  \E m \in Mapper :
    \/ \E v \in Virt, p \in Phys : vmm_map(m, v, p)
    \/ Test(m) \/ Store(m) \/ Load(m) \/ Write(m)

VmmSpec == VmmInit /\ [][VmmNext]_vmm_vars

-----------------------------------------------------------------------------
(* vmm_get_phys, and what the processor's own walk finds. *)
Follow(t, v, level) == IF t = None THEN None ELSE tables[t][IndexOf(v, level)]
vmm_get_phys(v) == Follow(Follow(Follow(Follow(Root, v, 1), v, 2), v, 3), v, 4)

(* When vmm_map has returned, the address translates to the frame that was  *)
(* mapped, and goes on doing so (vmm.c:47-76; vmmtest writes through a new  *)
(* mapping and reads back).                                                 *)
MapSticks == \A v \in Virt : mapped[v] # None => vmm_get_phys(v) = mapped[v]

(* Mapping one page changes no other page's translation, not even while     *)
(* tables are being made (vmm.c:53-74).                                     *)
MapsOnlyItsOwn ==
  [][\A v \in Virt : vmm_get_phys(v)' # vmm_get_phys(v) =>
       \E m \in Mapper : walk[m].virt = v /\ Write(m)]_vmm_vars

(* The tables are a tree: no table hangs in two entries, so no two          *)
(* addresses share a last entry.                                            *)
TablesAreTree ==
  \A t, u \in Table, i, j \in Index :
    tables[t][i] \in Table /\ tables[t][i] = tables[u][j] => t = u /\ i = j

(* The table the translation of v passes at a level, None if it is missing. *)
NodeAt(v, level) ==
  CASE level = 1 -> Root
    [] level = 2 -> Follow(Root, v, 1)
    [] level = 3 -> Follow(Follow(Root, v, 1), v, 2)
    [] level = 4 -> Follow(Follow(Follow(Root, v, 1), v, 2), v, 3)

(* A table nobody can reach yet. *)
Detached(t) == tables[t] = Empty /\ \A u \in Table, i \in Index : tables[u][i] # t

(* Entries of the first three levels hold tables, those of the last frames. *)
LevelsRight ==
  \A v \in Virt, k \in 1 .. Depth :
    NodeAt(v, k) # None =>
      /\ NodeAt(v, k) \in Table
      /\ Follow(NodeAt(v, k), v, k) \in (IF k < Depth THEN Table ELSE Phys) \cup {None}

(* A walk is at the table its address passes; until it links its new table  *)
(* the entry is empty and the table its own, afterwards the entry holds it. *)
WalkRight(m) ==
  LET w == walk[m] IN
  w.pc # "idle" =>
    /\ w.virt \in Virt /\ Owner[w.virt] = m /\ w.phys \in Phys
    /\ w.level \in 1 .. Depth /\ w.at = NodeAt(w.virt, w.level)
    /\ w.pc \in {"store", "load"} => w.level < Depth /\ w.new \in Table \ {Root}
    /\ w.pc = "store" => /\ Entry(m) = None
                        /\ Detached(w.new) /\ w.new \notin unused
                        /\ \A n \in Mapper \ {m} : walk[n].pc = "store" => walk[n].new # w.new
    /\ w.pc = "load" => Entry(m) = w.new

(* Through any number of walks at once, tables stay a tree and mappings     *)
(* stick; with what the walks rely on, the invariant of vmm_map             *)
(* (vmm.c:47-76).                                                           *)
VmmInv ==
  /\ VmmTypeOK /\ TablesAreTree /\ MapSticks
  /\ \A t \in Table, i \in Index : tables[t][i] # Root
  /\ \A t \in unused : Detached(t)
  /\ LevelsRight
  /\ \A m \in Mapper : WalkRight(m)

(* No two mappers in one slot of the root, as with vmmtest and the          *)
(* sections; without it MapSticks fails.                                    *)
RootsApart == \A v, w \in Virt : Owner[v] # Owner[w] => Path[v][1] # Path[w][1]
=============================================================================
