----------------------------- MODULE VmmProofs -----------------------------
(***************************************************************************)
(* vmm_map for any number of threads, any addresses and any pages, as long *)
(* as no two threads share a slot of the root: unlocked as the walks are,  *)
(* tables stay a tree and mappings stick.  The run vmm_race has the        *)
(* counterexample when two threads do share one.                           *)
(***************************************************************************)
EXTENDS Vmm, TLAPS

(* The provers, in the order in which they are tried. *)
USE ZenonT(5), SMT

(* The path of an address has four indices (vmm.c:48-51). *)
LEMMA PathTypes ==
  \A v \in Virt, k \in 1 .. Depth : Path[v][k] \in Index
BY SMT DEF Index

(* Every level is one entry on from the one above (vmm.c:53-72, 84-94). *)
LEMMA NodeStep ==
  ASSUME NEW v
  PROVE  /\ NodeAt(v, 1) = Root
         /\ \A k \in 1 .. Depth - 1 : NodeAt(v, k + 1) = Follow(NodeAt(v, k), v, k)
         /\ vmm_get_phys(v) = Follow(NodeAt(v, Depth), v, Depth)
BY SMT DEF NodeAt, vmm_get_phys, Depth

(* The same after a step. *)
LEMMA NodeStepNext ==
  ASSUME NEW v
  PROVE  /\ NodeAt(v, 1)' = Root
         /\ \A k \in 1 .. Depth - 1 : NodeAt(v, k + 1)' = Follow(NodeAt(v, k), v, k)'
         /\ vmm_get_phys(v)' = Follow(NodeAt(v, Depth), v, Depth)'
BY SMT DEF NodeAt, vmm_get_phys, Depth

(* Two translations that meet in a table came the same way: nothing else    *)
(* refers to a table of the tree, and nothing at all to the root.           *)
LEMMA SameParent ==
  ASSUME VmmInv, NEW v \in Virt, NEW w \in Virt, NEW k \in 1 .. Depth - 1,
         NEW j \in 1 .. Depth - 1, NodeAt(v, k + 1) # None, NodeAt(v, k + 1) = NodeAt(w, j + 1)
  PROVE  /\ NodeAt(v, k) # None /\ NodeAt(v, k) = NodeAt(w, j)
         /\ Path[v][k] = Path[w][j]
<1>1. /\ NodeAt(v, k + 1) = Follow(NodeAt(v, k), v, k)
      /\ NodeAt(w, j + 1) = Follow(NodeAt(w, j), w, j)
  BY NodeStep
<1>2. NodeAt(v, k) # None /\ NodeAt(w, j) # None
  BY <1>1 DEF Follow
<1>3. k \in 1 .. Depth /\ j \in 1 .. Depth /\ k < Depth
  BY SMT DEF Depth
<1>4. NodeAt(v, k) \in Table /\ NodeAt(w, j) \in Table /\ NodeAt(v, k + 1) \in Table
  BY <1>1, <1>2, <1>3 DEF VmmInv, LevelsRight
<1>5. /\ tables[NodeAt(v, k)][Path[v][k]] = NodeAt(v, k + 1)
      /\ tables[NodeAt(w, j)][Path[w][j]] = NodeAt(v, k + 1)
  BY <1>1, <1>2 DEF Follow, IndexOf
<1> QED
  BY SMT, <1>2, <1>3, <1>4, <1>5, PathTypes DEF VmmInv, TablesAreTree

(* No entry leads back to the root (vmm.c:13, 54-56). *)
LEMMA NeverRoot ==
  ASSUME VmmInv, NEW v \in Virt, NEW k \in 1 .. Depth, NodeAt(v, k) = Root
  PROVE  k = 1
<1> SUFFICES ASSUME k # 1 PROVE FALSE
  OBVIOUS
<1> DEFINE j == k - 1
<1>1. j \in 1 .. Depth - 1 /\ j \in 1 .. Depth /\ k = j + 1
  BY SMT DEF Depth
<1> HIDE DEF j
<1>2. Root = Follow(NodeAt(v, j), v, j) /\ Root # None
  BY <1>1, NodeStep, VmmAssumption
<1>3. NodeAt(v, j) # None
  BY <1>2 DEF Follow
<1>4. NodeAt(v, j) \in Table
  BY <1>1, <1>3 DEF VmmInv, LevelsRight
<1> QED
  BY <1>1, <1>2, <1>3, <1>4, PathTypes DEF VmmInv, Follow, IndexOf

(* The table tells the level and the indices above it. *)
LEMMA UniqueNode ==
  ASSUME VmmInv, NEW v \in Virt, NEW w \in Virt, NEW k \in 1 .. Depth, NEW j \in 1 .. Depth,
         NodeAt(v, k) # None, NodeAt(v, k) = NodeAt(w, j)
  PROVE  k = j /\ \A i \in 1 .. k - 1 : Path[v][i] = Path[w][i]
<1> DEFINE P(n) == \A h \in 1 .. Depth :
                     NodeAt(v, n) # None /\ NodeAt(v, n) = NodeAt(w, h) =>
                       n = h /\ \A i \in 1 .. n - 1 : Path[v][i] = Path[w][i]
<1>1. P(1)
  BY SMT, NeverRoot, NodeStep DEF Depth
<1>2. ASSUME NEW n \in 1 .. Depth - 1, P(n) PROVE P(n + 1)
  <2> SUFFICES ASSUME NEW h \in 1 .. Depth, NodeAt(v, n + 1) # None,
                      NodeAt(v, n + 1) = NodeAt(w, h)
               PROVE  n + 1 = h /\ \A i \in 1 .. n : Path[v][i] = Path[w][i]
    BY SMT DEF Depth
  <2>1. h # 1
    <3>1. n + 1 \in 1 .. Depth /\ n + 1 # 1
      BY SMT DEF Depth
    <3> QED
      BY <3>1, NeverRoot, NodeStep
  <2> DEFINE g == h - 1
  <2>2. g \in 1 .. Depth - 1 /\ g \in 1 .. Depth /\ h = g + 1
    BY SMT, <2>1 DEF Depth
  <2> HIDE DEF g
  <2>3. NodeAt(v, n) # None /\ NodeAt(v, n) = NodeAt(w, g) /\ Path[v][n] = Path[w][g]
    BY <2>2, SameParent
  <2>4. n = g /\ \A i \in 1 .. n - 1 : Path[v][i] = Path[w][i]
    BY <1>2, <2>2, <2>3
  <2>5. \A i \in 1 .. n : i = n \/ i \in 1 .. n - 1
    BY SMT DEF Depth
  <2> QED
    BY <2>2, <2>3, <2>4, <2>5
<1> HIDE DEF P
<1>3. P(2) /\ P(3) /\ P(4)
  BY SMT, <1>1, <1>2 DEF Depth
<1>4. P(k)
  BY SMT, <1>1, <1>3 DEF Depth
<1> QED
  BY <1>4 DEF P

(* A walk is at a table; on the way to the last level its entry is a table  *)
(* or missing.                                                              *)
LEMMA WalkAt ==
  ASSUME VmmInv, NEW m \in Mapper, walk[m].pc # "idle"
  PROVE  /\ walk[m].virt \in Virt /\ Owner[walk[m].virt] = m /\ walk[m].phys \in Phys
         /\ walk[m].level \in 1 .. Depth
         /\ walk[m].at = NodeAt(walk[m].virt, walk[m].level)
         /\ walk[m].at \in Table /\ walk[m].at # None
         /\ Slot(m) = Path[walk[m].virt][walk[m].level] /\ Slot(m) \in Index
         /\ Entry(m) = Follow(walk[m].at, walk[m].virt, walk[m].level)
         /\ walk[m].level < Depth => Entry(m) \in Table \cup {None}
<1>1. /\ walk[m].virt \in Virt /\ Owner[walk[m].virt] = m /\ walk[m].phys \in Phys
      /\ walk[m].level \in 1 .. Depth
      /\ walk[m].at = NodeAt(walk[m].virt, walk[m].level)
  BY DEF VmmInv, WalkRight
<1>2. walk[m].at \in Table /\ walk[m].at # None
  BY VmmAssumption DEF VmmInv, VmmTypeOK, Walk
<1>3. Slot(m) = Path[walk[m].virt][walk[m].level] /\ Slot(m) \in Index
  BY <1>1, PathTypes DEF Slot, IndexOf
<1>4. Entry(m) = Follow(walk[m].at, walk[m].virt, walk[m].level)
  BY <1>2 DEF Entry, Slot, Follow
<1> QED
  BY <1>1, <1>2, <1>3, <1>4 DEF VmmInv, LevelsRight

(* Two mappers are never at the same entry, as their roots are apart. *)
LEMMA EntriesApart ==
  ASSUME VmmInv, RootsApart, NEW m \in Mapper, NEW n \in Mapper, m # n,
         walk[m].pc # "idle", walk[n].pc # "idle"
  PROVE  ~ (walk[m].at = walk[n].at /\ Slot(m) = Slot(n))
<1> DEFINE v == walk[m].virt
           w == walk[n].virt
           k == walk[m].level
<1> SUFFICES ASSUME walk[m].at = walk[n].at, Slot(m) = Slot(n) PROVE FALSE
  OBVIOUS
<1>1. /\ v \in Virt /\ w \in Virt /\ Owner[v] = m /\ Owner[w] = n /\ k \in 1 .. Depth
      /\ NodeAt(v, k) # None /\ NodeAt(v, k) = NodeAt(w, walk[n].level)
      /\ walk[n].level \in 1 .. Depth
      /\ Slot(m) = Path[v][k] /\ Slot(n) = Path[w][walk[n].level]
  BY SMT, WalkAt
<1>2. k = walk[n].level /\ \A i \in 1 .. k - 1 : Path[v][i] = Path[w][i]
  BY <1>1, UniqueNode
<1>3. Path[v][1] = Path[w][1]
  <2>1. CASE k = 1
    BY <1>1, <1>2, <2>1
  <2>2. CASE k # 1
    <3>1. 1 \in 1 .. k - 1
      BY SMT, <1>1, <2>2 DEF Depth
    <3> QED
      BY <1>2, <3>1
  <2> QED
    BY <2>1, <2>2
<1> QED
  BY <1>1, <1>3 DEF RootsApart

(* A table nobody can reach is on no path. *)
LEMMA Attached ==
  ASSUME VmmInv, NEW v \in Virt, NEW k \in 1 .. Depth, NodeAt(v, k) # None,
         NEW t \in Table, Detached(t), t # Root
  PROVE  NodeAt(v, k) # t
<1>1. CASE k = 1
  BY <1>1, NodeStep
<1>2. CASE k # 1
  <2> DEFINE j == k - 1
  <2>1. j \in 1 .. Depth - 1 /\ j \in 1 .. Depth /\ k = j + 1
    BY SMT, <1>2 DEF Depth
  <2> HIDE DEF j
  <2>2. NodeAt(v, k) = Follow(NodeAt(v, j), v, j)
    BY <2>1, NodeStep
  <2>3. NodeAt(v, j) # None
    BY <2>2 DEF Follow
  <2>4. NodeAt(v, j) \in Table /\ Path[v][j] \in Index
    BY <2>1, <2>3, PathTypes DEF VmmInv, LevelsRight
  <2> QED
    BY <2>2, <2>3, <2>4 DEF Follow, IndexOf, Detached
<1> QED
  BY <1>1, <1>2

-----------------------------------------------------------------------------
(* An empty table linked into an empty entry: tables appear, none moves, no *)
(* translation changes.                                                     *)
LEMMA LinkNodes ==
  ASSUME VmmInv, NEW a \in Table, NEW s \in Index, NEW x \in Table,
         Detached(x), x # a, tables[a][s] = None,
         \A t \in Table, i \in Index :
           tables'[t][i] = IF t = a /\ i = s THEN x ELSE tables[t][i]
  PROVE  \A w \in Virt, k \in 1 .. Depth :
           \/ NodeAt(w, k)' = NodeAt(w, k)
           \/ NodeAt(w, k) = None /\ NodeAt(w, k)' = x
<1>0. x # None /\ a # None
  BY VmmAssumption
<1>1. \A i \in Index : tables'[x][i] = None
  BY SMT DEF Detached, Empty
<1>2. ASSUME NEW w \in Virt
      PROVE  \A k \in 1 .. Depth : \/ NodeAt(w, k)' = NodeAt(w, k)
                                   \/ NodeAt(w, k) = None /\ NodeAt(w, k)' = x
  <2> DEFINE P(k) == \/ NodeAt(w, k)' = NodeAt(w, k)
                     \/ NodeAt(w, k) = None /\ NodeAt(w, k)' = x
  <2>1. P(1)
    BY NodeStep, NodeStepNext
  <2>2. ASSUME NEW k \in 1 .. Depth - 1, P(k) PROVE P(k + 1)
    <3>1. /\ NodeAt(w, k + 1) = Follow(NodeAt(w, k), w, k)
          /\ NodeAt(w, k + 1)' = Follow(NodeAt(w, k), w, k)'
          /\ k \in 1 .. Depth /\ Path[w][k] \in Index
      BY SMT, NodeStep, NodeStepNext, PathTypes DEF Depth
    <3>2. CASE NodeAt(w, k)' = NodeAt(w, k)
      <4>1. CASE NodeAt(w, k) = None
        BY <3>1, <3>2, <4>1 DEF Follow
      <4>2. CASE NodeAt(w, k) # None
        <5>1. NodeAt(w, k) \in Table
          BY <3>1, <4>2 DEF VmmInv, LevelsRight
        <5>2. /\ NodeAt(w, k + 1) = tables[NodeAt(w, k)][Path[w][k]]
              /\ NodeAt(w, k + 1)' = tables'[NodeAt(w, k)][Path[w][k]]
          BY <3>1, <3>2, <4>2 DEF Follow, IndexOf
        <5> QED
          BY <3>1, <5>1, <5>2
      <4> QED
        BY <4>1, <4>2
    <3>3. CASE NodeAt(w, k) = None /\ NodeAt(w, k)' = x
      <4>1. NodeAt(w, k + 1) = None
        BY <3>1, <3>3 DEF Follow
      <4>2. NodeAt(w, k + 1)' = tables'[x][Path[w][k]]
        BY <1>0, <3>1, <3>3 DEF Follow, IndexOf
      <4> QED
        BY <1>1, <3>1, <4>1, <4>2
    <3> QED
      BY <2>2, <3>2, <3>3
  <2> HIDE DEF P
  <2>3. P(2) /\ P(3) /\ P(4)
    BY SMT, <2>1, <2>2 DEF Depth
  <2>4. \A k \in 1 .. Depth : P(k)
    BY SMT, <2>1, <2>3 DEF Depth
  <2> QED
    BY <2>4 DEF P
<1> QED
  BY <1>2

(* The store of vmm_map keeps the invariant (vmm.c:56, 63, 70). *)
LEMMA StoreKeeps ==
  ASSUME VmmInv, RootsApart, NEW m \in Mapper, Store(m)
  PROVE  VmmInv' /\ \A v \in Virt : vmm_get_phys(v)' = vmm_get_phys(v)
<1>0. VmmTypeOK /\ walk[m].pc = "store" /\ LevelsRight
  BY DEF VmmInv, Store
<1>1. PICK a \in Table, s \in Index, x \in Table \ {Root}, v \in Virt, l \in 1 .. Depth :
      /\ a = walk[m].at /\ s = Slot(m) /\ x = walk[m].new /\ v = walk[m].virt
      /\ l = walk[m].level /\ l \in 1 .. Depth - 1 /\ a = NodeAt(v, l) /\ a # None
      /\ s = Path[v][l] /\ Owner[v] = m /\ tables[a][s] = None
      /\ Detached(x) /\ x \notin unused /\ x # None
      /\ \A n \in Mapper \ {m} : walk[n].pc = "store" => walk[n].new # x
  <2> DEFINE y == walk[m].new
  <2>1. /\ walk[m].level < Depth /\ y \in Table \ {Root} /\ Entry(m) = None /\ Detached(y)
        /\ y \notin unused
        /\ \A n \in Mapper \ {m} : walk[n].pc = "store" => walk[n].new # y
    BY <1>0 DEF VmmInv, WalkRight
  <2>2. walk[m].level \in 1 .. Depth - 1 /\ y # None
    BY SMT, <1>0, <2>1, WalkAt, VmmAssumption DEF Depth
  <2>3. tables[walk[m].at][Slot(m)] = None
    BY <2>1 DEF Entry
  <2> HIDE DEF y
  <2> QED
    BY SMT, <1>0, <2>1, <2>2, <2>3, WalkAt DEF y
<1>2. \A t \in Table : Detached(t) /\ t # Root => t # a
  BY <1>1, Attached
<1>3. tables' = [tables EXCEPT ![a][s] = x] /\ unused' = unused /\ mapped' = mapped
  BY <1>1 DEF Store
<1>4. \A t \in Table, i \in Index :
        tables'[t][i] = IF t = a /\ i = s THEN x ELSE tables[t][i]
  BY <1>0, <1>3 DEF VmmTypeOK
<1>a. x # a /\ tables'[x] = tables[x]
  BY <1>0, <1>1, <1>2, <1>3 DEF VmmTypeOK
<1>b. \A w \in Virt, k \in 1 .. Depth :
        \/ NodeAt(w, k)' = NodeAt(w, k)
        \/ NodeAt(w, k) = None /\ NodeAt(w, k)' = x
  BY SMT, <1>1, <1>4, <1>a, LinkNodes
<1>5. /\ walk'[m] = [walk[m] EXCEPT !.pc = "load"]
      /\ \A n \in Mapper \ {m} : walk'[n] = walk[n]
  BY <1>0 DEF Store, VmmTypeOK
<1>6. VmmTypeOK'
  <2>1. tables' \in [Table -> [Index -> Table \cup Phys \cup {None}]]
    BY <1>0, <1>1, <1>3 DEF VmmTypeOK
  <2>2. walk'[m] \in Walk
    <3>1. walk[m] \in Walk
      BY <1>0 DEF VmmTypeOK
    <3> QED
      BY <1>5, <3>1 DEF Walk
  <2> QED
    BY <1>0, <1>3, <2>1, <2>2 DEF VmmTypeOK, Store
<1>7. TablesAreTree'
  <2> SUFFICES ASSUME NEW t \in Table, NEW u \in Table, NEW i \in Index, NEW j \in Index,
                      tables'[t][i] \in Table, tables'[t][i] = tables'[u][j]
               PROVE  t = u /\ i = j
    BY DEF TablesAreTree
  <2>1. \A r \in Table, h \in Index : tables[r][h] # x
    BY <1>1 DEF Detached
  <2>2. CASE t = a /\ i = s
    BY SMT, <1>4, <2>1, <2>2
  <2>3. CASE u = a /\ j = s
    BY SMT, <1>4, <2>1, <2>3
  <2>4. CASE ~ (t = a /\ i = s) /\ ~ (u = a /\ j = s)
    BY SMT, <1>4, <2>4 DEF VmmInv, TablesAreTree
  <2> QED
    BY <2>2, <2>3, <2>4
<1>8. /\ \A t \in Table, i \in Index : tables'[t][i] # Root
      /\ \A t \in Table : t # x /\ t # a /\ Detached(t) => Detached(t)'
  <2>1. \A t \in Table, i \in Index : tables'[t][i] # Root
    BY SMT, <1>1, <1>4 DEF VmmInv
  <2>2. \A t \in Table : t # a => tables'[t] = tables[t]
    BY <1>0, <1>1, <1>3 DEF VmmTypeOK
  <2> QED
    BY SMT, <1>4, <2>1, <2>2 DEF Detached
<1>9. ASSUME NEW w \in Virt, NEW k \in 1 .. Depth, NodeAt(w, k)' # None
      PROVE  /\ NodeAt(w, k)' \in Table
             /\ Follow(NodeAt(w, k), w, k)' \in (IF k < Depth THEN Table ELSE Phys) \cup {None}
             /\ k = Depth => Follow(NodeAt(w, k), w, k)' = Follow(NodeAt(w, k), w, k)
  <2>0. Path[w][k] \in Index
    BY PathTypes
  <2>1. CASE NodeAt(w, k) = None /\ NodeAt(w, k)' = x
    <3>1. Follow(NodeAt(w, k), w, k)' = tables'[x][Path[w][k]]
      BY <1>1, <2>1 DEF Follow, IndexOf
    <3>2. Follow(NodeAt(w, k), w, k)' = None /\ Follow(NodeAt(w, k), w, k) = None
      BY SMT, <1>1, <1>a, <2>0, <2>1, <3>1 DEF Empty, Follow, Detached
    <3> QED
      BY <1>1, <2>1, <3>2
  <2>2. CASE NodeAt(w, k)' = NodeAt(w, k)
    <3> DEFINE t == NodeAt(w, k)
    <3>1. t # None /\ t \in Table
      BY <1>0, <1>9, <2>2 DEF LevelsRight
    <3>2. /\ Follow(t, w, k) = tables[t][Path[w][k]]
          /\ Follow(t, w, k)' = tables'[t][Path[w][k]]
          /\ Follow(t, w, k) \in (IF k < Depth THEN Table ELSE Phys) \cup {None}
      BY <1>0, <2>2, <3>1 DEF Follow, IndexOf, LevelsRight
    <3>3. CASE t = a /\ Path[w][k] = s
      <4>1. k = l
        BY SMT, <1>1, <3>1, <3>3, UniqueNode
      <4>2. k < Depth /\ tables'[t][Path[w][k]] = x
        BY SMT, <1>1, <1>4, <2>0, <3>1, <3>3, <4>1 DEF Depth
      <4> QED
        BY SMT, <2>2, <3>1, <3>2, <4>2 DEF Depth
    <3>4. CASE ~ (t = a /\ Path[w][k] = s)
      BY <1>4, <2>0, <2>2, <3>1, <3>2, <3>4
    <3> QED
      BY <3>3, <3>4
  <2> QED
    BY <1>b, <2>1, <2>2
<1>10. \A w \in Virt : vmm_get_phys(w)' = vmm_get_phys(w)
  <2> TAKE w \in Virt
  <2>1. Depth \in 1 .. Depth
    BY SMT DEF Depth
  <2>2. CASE NodeAt(w, Depth)' # None
    BY SMT, <1>9, <2>1, <2>2, NodeStep, NodeStepNext
  <2>3. CASE NodeAt(w, Depth)' = None
    <3>1. NodeAt(w, Depth) = None
      BY <1>1, <1>b, <2>1, <2>3
    <3> QED
      BY <2>3, <3>1, NodeStep, NodeStepNext DEF Follow
  <2> QED
    BY <2>2, <2>3
<1>11. LevelsRight'
  BY <1>9 DEF LevelsRight
<1>12. ASSUME NEW n \in Mapper PROVE WalkRight(n)'
  <2>1. CASE n = m
    <3>1. /\ walk'[m].virt = v /\ walk'[m].level = l /\ walk'[m].at = a /\ walk'[m].new = x
          /\ walk'[m].pc = "load" /\ walk'[m].phys \in Phys
      BY SMT, <1>0, <1>1, <1>5, WalkAt DEF VmmTypeOK
    <3>2. NodeAt(walk[m].virt, walk[m].level)' = a
      <4>1. PICK w \in Virt, k \in 1 .. Depth : w = v /\ k = l
        BY <1>1
      <4>2. NodeAt(w, k)' = a
        BY <1>1, <1>b, <4>1
      <4> QED
        BY <3>1, <4>1, <4>2 DEF NodeAt
    <3>3. Entry(m)' = x
      BY SMT, <1>1, <1>4, <3>1 DEF Entry, Slot, IndexOf
    <3> QED
      BY SMT, <1>1, <2>1, <3>1, <3>2, <3>3 DEF WalkRight, Depth
  <2>2. CASE n # m /\ walk[n].pc # "idle"
    <3>1. walk'[n] = walk[n] /\ WalkRight(n)
      BY <1>5, <2>2 DEF VmmInv
    <3>2. NodeAt(walk[n].virt, walk[n].level)' = walk[n].at
      <4>1. PICK w \in Virt, k \in 1 .. Depth : w = walk[n].virt /\ k = walk[n].level
        BY <2>2, WalkAt
      <4>2. NodeAt(w, k)' = walk[n].at
        BY SMT, <1>b, <2>2, <4>1, WalkAt
      <4> QED
        BY <3>1, <4>1, <4>2 DEF NodeAt
    <3>3. Entry(n)' = Entry(n)
      <4>1. ~ (walk[n].at = a /\ Slot(n) = s)
        BY <1>0, <1>1, <2>2, EntriesApart
      <4>2. Entry(n)' = tables'[walk[n].at][Slot(n)] /\ Entry(n) = tables[walk[n].at][Slot(n)]
        BY <3>1 DEF Entry, Slot
      <4> QED
        BY SMT, <1>4, <2>2, <4>1, <4>2, WalkAt
    <3>4. walk[n].pc = "store" => Detached(walk[n].new)'
      BY <1>1, <1>2, <1>8, <2>2, <3>1 DEF WalkRight
    <3>5. ASSUME walk[n].pc = "store", NEW o \in Mapper \ {n}, walk'[o].pc = "store"
          PROVE  walk'[o].new # walk[n].new
      <4>1. walk'[m].pc # "store"
        BY SMT, <1>0, <1>5 DEF VmmTypeOK
      <4>2. walk'[o] = walk[o]
        BY <1>5, <3>5, <4>1
      <4> QED
        BY <3>1, <3>5, <4>2 DEF WalkRight
    <3> QED
      BY <1>3, <3>1, <3>2, <3>3, <3>4, <3>5 DEF WalkRight
  <2>3. CASE n # m /\ walk[n].pc = "idle"
    BY <1>5, <2>3 DEF WalkRight
  <2> QED
    BY <2>1, <2>2, <2>3
<1>13. \A t \in unused' : Detached(t)'
  <2> TAKE t \in unused'
  <2>1. t \in unused /\ t \in Table /\ t # Root /\ Detached(t) /\ t # x
    BY <1>0, <1>1, <1>3 DEF VmmInv, VmmTypeOK
  <2> QED
    BY <1>2, <1>8, <2>1
<1>14. MapSticks'
  BY <1>3, <1>10 DEF VmmInv, MapSticks
<1> QED
  BY <1>6, <1>7, <1>8, <1>10, <1>11, <1>12, <1>13, <1>14 DEF VmmInv

(* The write of the last level changes one translation and moves no table   *)
(* (vmm.c:74).                                                              *)
LEMMA WriteInv ==
  ASSUME VmmInv, NEW m \in Mapper, Write(m)
  PROVE  VmmInv' /\ \A v \in Virt : v # walk[m].virt => vmm_get_phys(v)' = vmm_get_phys(v)
<1>0. VmmTypeOK /\ LevelsRight /\ walk[m].pc = "test" /\ walk[m].pc # "idle"
  BY DEF VmmInv, Write
<1>1. PICK a \in Table, s \in Index, f \in Phys, v \in Virt :
      /\ a = walk[m].at /\ s = Slot(m) /\ f = walk[m].phys /\ v = walk[m].virt
      /\ a = NodeAt(v, Depth) /\ a # None /\ s = Path[v][Depth] /\ walk[m].level = Depth
  BY SMT, <1>0, WalkAt DEF Write
<1>2. f \notin Table /\ f # None /\ Depth \in 1 .. Depth
  BY SMT, VmmAssumption DEF Depth
<1>3. /\ tables' = [tables EXCEPT ![a][s] = f] /\ unused' = unused
      /\ mapped' = [mapped EXCEPT ![v] = f]
  BY <1>1 DEF Write
<1>4. \A t \in Table, i \in Index :
        tables'[t][i] = IF t = a /\ i = s THEN f ELSE tables[t][i]
  BY <1>0, <1>3 DEF VmmTypeOK
<1>5. walk'[m] = Idle /\ \A n \in Mapper \ {m} : walk'[n] = walk[n]
  BY <1>0 DEF Write, VmmTypeOK
<1>6. \A w \in Virt, k \in 1 .. Depth : NodeAt(w, k)' = NodeAt(w, k)
  <2> TAKE w \in Virt
  <2> DEFINE P(k) == NodeAt(w, k)' = NodeAt(w, k)
  <2>1. P(1)
    BY NodeStep, NodeStepNext
  <2>2. ASSUME NEW k \in 1 .. Depth - 1, P(k) PROVE P(k + 1)
    <3>1. /\ NodeAt(w, k + 1) = Follow(NodeAt(w, k), w, k)
          /\ NodeAt(w, k + 1)' = Follow(NodeAt(w, k), w, k)'
          /\ k \in 1 .. Depth /\ k # Depth /\ Path[w][k] \in Index
      BY SMT, NodeStep, NodeStepNext, PathTypes DEF Depth
    <3>2. CASE NodeAt(w, k) = None
      BY <2>2, <3>1, <3>2 DEF Follow
    <3>3. CASE NodeAt(w, k) # None
      <4>1. NodeAt(w, k) \in Table
        BY <1>0, <3>1, <3>3 DEF LevelsRight
      <4>2. NodeAt(w, k) # a
        BY SMT, <1>1, <1>2, <3>1, <3>3, UniqueNode
      <4>3. /\ NodeAt(w, k + 1) = tables[NodeAt(w, k)][Path[w][k]]
            /\ NodeAt(w, k + 1)' = tables'[NodeAt(w, k)][Path[w][k]]
        BY <2>2, <3>1, <3>3 DEF Follow, IndexOf
      <4> QED
        BY <1>4, <3>1, <4>1, <4>2, <4>3
    <3> QED
      BY <3>2, <3>3
  <2> HIDE DEF P
  <2>3. P(2) /\ P(3) /\ P(4)
    BY SMT, <2>1, <2>2 DEF Depth
  <2>4. \A k \in 1 .. Depth : P(k)
    BY SMT, <2>1, <2>3 DEF Depth
  <2> QED
    BY <2>4 DEF P
<1>7. ASSUME NEW w \in Virt, NEW k \in 1 .. Depth, NodeAt(w, k) # None
      PROVE  /\ NodeAt(w, k) \in Table
             /\ Follow(NodeAt(w, k), w, k)' =
                  IF w = v /\ k = Depth THEN f ELSE Follow(NodeAt(w, k), w, k)
  <2> DEFINE t == NodeAt(w, k)
  <2>1. t \in Table /\ Path[w][k] \in Index
    BY <1>0, <1>7, PathTypes DEF LevelsRight
  <2>2. /\ Follow(t, w, k) = tables[t][Path[w][k]]
        /\ Follow(t, w, k)' = tables'[t][Path[w][k]]
    BY <1>6, <1>7 DEF Follow, IndexOf
  <2>3. CASE t = a /\ Path[w][k] = s
    <3>1. k = Depth /\ \A i \in 1 .. Depth - 1 : Path[w][i] = Path[v][i]
      BY SMT, <1>1, <1>2, <1>7, <2>3, UniqueNode
    <3>2. \A i \in 1 .. Depth : Path[w][i] = Path[v][i]
      BY SMT, <1>1, <2>3, <3>1 DEF Depth
    <3>3. Path[w] = Path[v]
      <4>1. Path[w] \in [1 .. Depth -> Nat] /\ Path[v] \in [1 .. Depth -> Nat]
        BY VmmAssumption
      <4> DEFINE D == 1 .. Depth
      <4>2. Path[w] \in [D -> Nat] /\ Path[v] \in [D -> Nat] /\ \A i \in D : Path[w][i] = Path[v][i]
        BY <3>2, <4>1
      <4> HIDE DEF D
      <4> QED
        BY SMT, <4>2
    <3>4. w = v
      BY <3>3, VmmAssumption
    <3> QED
      BY <1>4, <2>1, <2>2, <2>3, <3>1, <3>4
  <2>4. CASE ~ (t = a /\ Path[w][k] = s)
    <3>1. ~ (w = v /\ k = Depth)
      BY <1>1, <2>4
    <3> QED
      BY <1>4, <2>1, <2>2, <2>4, <3>1
  <2> QED
    BY <2>3, <2>4
<1>8. LevelsRight'
  <2> SUFFICES ASSUME NEW w \in Virt, NEW k \in 1 .. Depth, NodeAt(w, k)' # None
               PROVE  /\ NodeAt(w, k)' \in Table
                      /\ Follow(NodeAt(w, k), w, k)' \in
                           (IF k < Depth THEN Table ELSE Phys) \cup {None}
    BY DEF LevelsRight
  <2>1. NodeAt(w, k)' = NodeAt(w, k) /\ NodeAt(w, k) # None
    BY <1>6
  <2>2. Follow(NodeAt(w, k), w, k) \in (IF k < Depth THEN Table ELSE Phys) \cup {None}
    BY <1>0, <2>1 DEF LevelsRight
  <2>3. CASE w = v /\ k = Depth
    BY SMT, <1>7, <2>1, <2>3 DEF Depth
  <2>4. CASE ~ (w = v /\ k = Depth)
    BY <1>7, <2>1, <2>2, <2>4
  <2> QED
    BY <2>3, <2>4
<1>9. /\ vmm_get_phys(v)' = f
      /\ \A w \in Virt : w # v => vmm_get_phys(w)' = vmm_get_phys(w)
  <2>1. vmm_get_phys(v)' = f
    BY <1>1, <1>2, <1>7, NodeStepNext
  <2>2. ASSUME NEW w \in Virt, w # v PROVE vmm_get_phys(w)' = vmm_get_phys(w)
    <3>1. CASE NodeAt(w, Depth) # None
      BY SMT, <1>2, <1>7, <2>2, <3>1, NodeStep, NodeStepNext
    <3>2. CASE NodeAt(w, Depth) = None
      <4>1. NodeAt(w, Depth)' = None
        BY <1>2, <1>6, <3>2
      <4> QED
        BY <3>2, <4>1, NodeStep, NodeStepNext DEF Follow
    <3> QED
      BY <3>1, <3>2
  <2> QED
    BY <2>1, <2>2
<1>10. MapSticks'
  <2>1. mapped'[v] = f /\ \A w \in Virt : w # v => mapped'[w] = mapped[w]
    BY <1>0, <1>3 DEF VmmTypeOK
  <2> QED
    BY <1>9, <2>1 DEF VmmInv, MapSticks
<1>11. TablesAreTree' /\ \A t \in Table, i \in Index : tables'[t][i] # Root
  <2>1. \A t \in Table, i \in Index : tables'[t][i] \in Table => tables'[t][i] = tables[t][i]
    BY <1>2, <1>4
  <2>2. Root \in Table
    BY VmmAssumption
  <2> QED
    BY SMT, <2>1, <2>2 DEF VmmInv, TablesAreTree
<1>12. \A t \in Table : Detached(t) /\ t # Root => Detached(t)'
  <2> TAKE t \in Table
  <2> HAVE Detached(t) /\ t # Root
  <2>1. t # a
    BY <1>1, <1>2, Attached
  <2>2. tables'[t] = tables[t]
    BY <1>0, <1>3, <2>1 DEF VmmTypeOK
  <2>3. t # f
    BY <1>2
  <2> QED
    BY <1>4, <2>2, <2>3 DEF Detached
<1>13. \A t \in unused' : Detached(t)'
  BY <1>0, <1>3, <1>12 DEF VmmInv, VmmTypeOK
<1>14. ASSUME NEW n \in Mapper PROVE WalkRight(n)'
  <2>1. CASE n = m
    BY SMT, <1>5, <2>1 DEF WalkRight, Idle
  <2>2. CASE n # m /\ walk[n].pc # "idle"
    <3>1. walk'[n] = walk[n] /\ WalkRight(n)
      BY <1>5, <2>2 DEF VmmInv
    <3>2. PICK w \in Virt, k \in 1 .. Depth : w = walk[n].virt /\ k = walk[n].level
      BY <2>2, WalkAt
    <3>3. NodeAt(walk[n].virt, walk[n].level)' = walk[n].at
      <4>1. NodeAt(w, k)' = walk[n].at
        BY SMT, <1>6, <2>2, <3>2, WalkAt
      <4> QED
        BY <3>1, <3>2, <4>1 DEF NodeAt
    <3>4. walk[n].pc \in {"store", "load"} => Entry(n)' = Entry(n)
      <4> SUFFICES ASSUME walk[n].pc \in {"store", "load"} PROVE Entry(n)' = Entry(n)
        OBVIOUS
      <4>1. walk[n].level < Depth
        BY <2>2, <3>1 DEF WalkRight
      <4>2. walk[n].at # a
        BY SMT, <1>1, <1>2, <2>2, <3>2, <4>1, WalkAt, UniqueNode DEF Depth
      <4>3. Entry(n)' = tables'[walk[n].at][Slot(n)] /\ Entry(n) = tables[walk[n].at][Slot(n)]
        BY <3>1 DEF Entry, Slot
      <4> QED
        BY SMT, <1>4, <2>2, <4>2, <4>3, WalkAt
    <3>5. walk[n].pc = "store" => Detached(walk[n].new)'
      BY <1>12, <2>2, <3>1 DEF WalkRight
    <3>6. ASSUME walk[n].pc = "store", NEW o \in Mapper \ {n}, walk'[o].pc = "store"
          PROVE  walk'[o].new # walk[n].new
      <4>1. walk'[m].pc # "store"
        BY SMT, <1>5 DEF Idle
      <4>2. walk'[o] = walk[o]
        BY <1>5, <3>6, <4>1
      <4> QED
        BY <3>1, <3>6, <4>2 DEF WalkRight
    <3> QED
      BY <1>3, <3>1, <3>3, <3>4, <3>5, <3>6 DEF WalkRight
  <2>3. CASE n # m /\ walk[n].pc = "idle"
    BY <1>5, <2>3 DEF WalkRight
  <2> QED
    BY <2>1, <2>2, <2>3
<1>15. VmmTypeOK'
  <2>1. tables' \in [Table -> [Index -> Table \cup Phys \cup {None}]]
    BY <1>0, <1>3 DEF VmmTypeOK
  <2>2. Idle \in Walk
    BY SMT, VmmAssumption DEF Idle, Walk, Depth
  <2>3. walk' \in [Mapper -> Walk] /\ mapped' \in [Virt -> Phys \cup {None}]
    BY ZenonT(30), <1>0, <1>3, <2>2 DEF VmmTypeOK, Write
  <2> QED
    BY <1>0, <1>3, <2>1, <2>3 DEF VmmTypeOK
<1> QED
  BY <1>1, <1>8, <1>9, <1>10, <1>11, <1>13, <1>14, <1>15 DEF VmmInv

-----------------------------------------------------------------------------
(* The walks of others are as they were when tables and their own records   *)
(* are, whatever leaves the pages still unused.                             *)
LEMMA OthersWalkOn ==
  ASSUME VmmInv, NEW m \in Mapper, NEW n \in Mapper, n # m, tables' = tables,
         unused' \subseteq unused, \A o \in Mapper \ {m} : walk'[o] = walk[o],
         walk'[m].pc = "store" /\ walk[n].pc = "store" => walk'[m].new # walk[n].new
  PROVE  WalkRight(n)'
<1>1. walk'[n] = walk[n] /\ WalkRight(n)
  BY DEF VmmInv
<1>2. Entry(n)' = Entry(n) /\ \A t : Detached(t)' = Detached(t)
  BY <1>1 DEF Entry, Slot, Detached
<1>3. NodeAt(walk[n].virt, walk[n].level)' = NodeAt(walk[n].virt, walk[n].level)
  BY <1>1 DEF NodeAt, Follow
<1>4. Detached(walk[n].new)' = Detached(walk[n].new)
  BY <1>1 DEF Detached
<1>5. ASSUME walk[n].pc = "store", NEW o \in Mapper \ {n}, walk'[o].pc = "store"
      PROVE  walk'[o].new # walk[n].new
  BY <1>1, <1>5 DEF WalkRight
<1> QED
  BY <1>1, <1>2, <1>3, <1>4, <1>5 DEF WalkRight

(* Without a change of the tables everything but the walks stays. *)
LEMMA TablesStay ==
  ASSUME VmmInv, tables' = tables, unused' \subseteq unused, mapped' = mapped
  PROVE  /\ TablesAreTree' /\ MapSticks' /\ LevelsRight'
         /\ \A t \in Table, i \in Index : tables'[t][i] # Root
         /\ \A t \in unused' : Detached(t)'
         /\ \A v \in Virt : vmm_get_phys(v)' = vmm_get_phys(v)
<1>1. /\ TablesAreTree' /\ \A t \in Table, i \in Index : tables'[t][i] # Root
      /\ \A t \in unused' : Detached(t)'
  BY SMT DEF VmmInv, TablesAreTree, Detached
<1>2. \A v \in Virt : vmm_get_phys(v)' = vmm_get_phys(v)
  BY DEF vmm_get_phys, Follow
<1>3. MapSticks'
  BY <1>2 DEF VmmInv, MapSticks
<1>4. LevelsRight'
  <2> SUFFICES ASSUME NEW v \in Virt, NEW k \in 1 .. Depth, NodeAt(v, k)' # None
               PROVE  /\ NodeAt(v, k)' \in Table
                      /\ Follow(NodeAt(v, k), v, k)' \in
                           (IF k < Depth THEN Table ELSE Phys) \cup {None}
    BY DEF LevelsRight
  <2>1. NodeAt(v, k)' = NodeAt(v, k)
    BY DEF NodeAt, Follow
  <2>2. Follow(NodeAt(v, k), v, k)' = Follow(NodeAt(v, k), v, k)
    BY <2>1 DEF Follow
  <2> QED
    BY <2>1, <2>2 DEF VmmInv, LevelsRight
<1> QED
  BY <1>1, <1>2, <1>3, <1>4

(* A call begins at the root (vmm.c:47-51). *)
LEMMA MapInv ==
  ASSUME VmmInv, NEW m \in Mapper, NEW v \in Virt, NEW p \in Phys, vmm_map(m, v, p)
  PROVE  VmmInv' /\ \A w \in Virt : vmm_get_phys(w)' = vmm_get_phys(w)
<1> DEFINE r == [virt |-> v, phys |-> p, level |-> 1, at |-> Root, new |-> None, pc |-> "test"]
<1>0. VmmTypeOK
  BY DEF VmmInv
<1>1. /\ walk'[m] = r /\ \A o \in Mapper \ {m} : walk'[o] = walk[o]
      /\ tables' = tables /\ unused' = unused /\ mapped' = mapped /\ Owner[v] = m
  BY <1>0 DEF vmm_map, VmmTypeOK
<1>2. VmmTypeOK'
  <2>1. r \in Walk
    BY SMT, VmmAssumption DEF Walk, Depth
  <2>2. walk' \in [Mapper -> Walk]
    BY <1>0, <2>1 DEF vmm_map, VmmTypeOK
  <2> QED
    BY <1>0, <1>1, <2>2 DEF VmmTypeOK
<1>3. WalkRight(m)'
  <2>1. NodeAt(walk[m].virt, walk[m].level)' = Root
    BY SMT, <1>1 DEF NodeAt
  <2> QED
    BY SMT, <1>1, <2>1 DEF WalkRight, Depth
<1>4. \A n \in Mapper : n # m => WalkRight(n)'
  BY SMT, <1>1, OthersWalkOn
<1> QED
  BY <1>1, <1>2, <1>3, <1>4, TablesStay DEF VmmInv

(* The test goes on to the table it finds, or takes a page nobody else can  *)
(* have taken, which is empty as all of them are (vmm.c:53-55).             *)
LEMMA TestInv ==
  ASSUME VmmInv, NEW m \in Mapper, Test(m)
  PROVE  VmmInv' /\ \A w \in Virt : vmm_get_phys(w)' = vmm_get_phys(w)
<1>0. VmmTypeOK /\ walk[m].pc = "test" /\ walk[m].level < Depth /\ mapped' = mapped
  BY DEF VmmInv, Test
<1>1. PICK v \in Virt, k \in 1 .. Depth :
        /\ v = walk[m].virt /\ k = walk[m].level /\ k \in 1 .. Depth - 1 /\ k + 1 \in 1 .. Depth
        /\ Owner[v] = m /\ walk[m].phys \in Phys /\ walk[m].at = NodeAt(v, k)
        /\ Entry(m) = Follow(NodeAt(v, k), v, k) /\ Entry(m) \in Table \cup {None}
  BY SMT, <1>0, WalkAt DEF Depth
<1>2. walk[m] \in Walk
  BY <1>0 DEF VmmTypeOK
<1>3. CASE Entry(m) # None /\ walk' = [walk EXCEPT ![m].at = Entry(m), ![m].level = @ + 1]
           /\ UNCHANGED <<tables, unused>>
  <2>1. /\ walk'[m] = [walk[m] EXCEPT !.at = Entry(m), !.level = k + 1]
        /\ \A o \in Mapper \ {m} : walk'[o] = walk[o]
    BY <1>0, <1>1, <1>3 DEF VmmTypeOK
  <2>2. /\ walk'[m].virt = v /\ walk'[m].level = k + 1 /\ walk'[m].at = Entry(m)
        /\ walk'[m].pc = "test" /\ walk'[m].phys \in Phys /\ walk'[m] \in Walk
    <3>1. Entry(m) \in Table /\ k + 1 \in 0 .. Depth
      BY SMT, <1>1, <1>3 DEF Depth
    <3> QED
      BY <1>0, <1>1, <1>2, <2>1, <3>1 DEF Walk
  <2>3. NodeAt(walk[m].virt, walk[m].level)' = Entry(m)
    <3>1. NodeAt(v, k + 1)' = NodeAt(v, k + 1)
      BY <1>3 DEF NodeAt, Follow
    <3>2. NodeAt(v, k + 1) = Entry(m)
      BY <1>1, NodeStep
    <3> QED
      BY <2>2, <3>1, <3>2 DEF NodeAt
  <2>4. WalkRight(m)'
    BY <1>1, <2>2, <2>3 DEF WalkRight
  <2>5. \A n \in Mapper : n # m => WalkRight(n)'
    BY <1>3, <2>1, <2>2, OthersWalkOn
  <2>6. VmmTypeOK'
    <3>1. walk' \in [Mapper -> Walk]
      BY <1>0, <1>3, <2>1, <2>2 DEF VmmTypeOK
    <3> QED
      BY <1>0, <1>3, <3>1 DEF VmmTypeOK
  <2> QED
    BY <1>0, <1>3, <2>4, <2>5, <2>6, TablesStay DEF VmmInv
<1>4. CASE /\ Entry(m) = None
           /\ unused # {} /\ unused' = unused \ {TablePage}
           /\ tables' = [tables EXCEPT ![TablePage] = Empty]
           /\ walk' = [walk EXCEPT ![m].new = TablePage, ![m].pc = "store"]
  <2>1. PICK x \in unused : x = TablePage
    BY <1>4 DEF TablePage
  <2>2. x \in Table \ {Root} /\ Detached(x)
    BY <1>0 DEF VmmInv, VmmTypeOK
  <2>3. tables' = tables
    BY <1>0, <1>4, <2>1, <2>2 DEF Detached, VmmTypeOK
  <2>4. /\ walk'[m] = [walk[m] EXCEPT !.new = x, !.pc = "store"]
        /\ \A o \in Mapper \ {m} : walk'[o] = walk[o]
    BY <1>0, <1>4, <2>1 DEF VmmTypeOK
  <2>5. /\ walk'[m].virt = v /\ walk'[m].level = k /\ walk'[m].at = walk[m].at
        /\ walk'[m].pc = "store" /\ walk'[m].new = x /\ walk'[m].phys \in Phys
        /\ walk'[m] \in Walk
    BY ZenonT(30), <1>0, <1>1, <1>2, <2>2, <2>4 DEF Walk
  <2>6. \A n \in Mapper \ {m} : walk[n].pc = "store" => walk[n].new # x
    BY SMT DEF VmmInv, WalkRight
  <2>7. WalkRight(m)'
    <3>1. NodeAt(walk[m].virt, walk[m].level)' = walk[m].at
      <4>1. NodeAt(v, k)' = NodeAt(v, k)
        BY <2>3 DEF NodeAt, Follow
      <4> QED
        BY <1>1, <2>5, <4>1 DEF NodeAt
    <3>2. Entry(m)' = None
      BY <1>1, <1>4, <2>3, <2>5 DEF Entry, Slot
    <3>3. Detached(walk[m].new)'
      BY <2>2, <2>3, <2>5 DEF Detached
    <3>4. x \notin unused'
      BY <1>4, <2>1
    <3>5. \A n \in Mapper \ {m} : walk'[n].pc = "store" => walk'[n].new # x
      BY <2>4, <2>6
    <3> QED
      BY <1>0, <1>1, <2>2, <2>5, <3>1, <3>2, <3>3, <3>4, <3>5 DEF WalkRight
  <2>8. \A n \in Mapper : n # m => WalkRight(n)'
    BY <1>4, <2>3, <2>4, <2>5, <2>6, OthersWalkOn
  <2>9. VmmTypeOK'
    <3>1. walk' \in [Mapper -> Walk]
      BY <1>0, <1>4, <2>4, <2>5 DEF VmmTypeOK
    <3> QED
      BY <1>0, <1>4, <2>3, <3>1 DEF VmmTypeOK
  <2>10. unused' \subseteq unused
    BY <1>4
  <2> QED
    BY <1>0, <2>3, <2>7, <2>8, <2>9, <2>10, TablesStay DEF VmmInv
<1> QED
  BY <1>3, <1>4 DEF Test

(* The entry that is read back holds the table just stored (vmm.c:58, 65, 72). *)
LEMMA LoadInv ==
  ASSUME VmmInv, NEW m \in Mapper, Load(m)
  PROVE  VmmInv' /\ \A w \in Virt : vmm_get_phys(w)' = vmm_get_phys(w)
<1>0. VmmTypeOK /\ walk[m].pc = "load" /\ tables' = tables /\ unused' = unused /\ mapped' = mapped
  BY DEF VmmInv, Load
<1>1. walk[m].level < Depth /\ walk[m].new \in Table \ {Root} /\ Entry(m) = walk[m].new
  BY <1>0 DEF VmmInv, WalkRight
<1>2. PICK v \in Virt, k \in 1 .. Depth :
        /\ v = walk[m].virt /\ k = walk[m].level /\ k \in 1 .. Depth - 1 /\ k + 1 \in 1 .. Depth
        /\ Owner[v] = m /\ walk[m].phys \in Phys
        /\ Entry(m) = Follow(NodeAt(v, k), v, k)
  BY SMT, <1>0, <1>1, WalkAt DEF Depth
<1>3. PICK x \in Table : x = walk[m].new
  BY <1>1
<1>4. walk' = [walk EXCEPT ![m].at = x, ![m].level = @ + 1, ![m].new = None, ![m].pc = "test"]
  BY <1>1, <1>3 DEF Load
<1>5. /\ walk'[m] = [walk[m] EXCEPT !.at = x, !.level = k + 1, !.new = None, !.pc = "test"]
      /\ \A o \in Mapper \ {m} : walk'[o] = walk[o]
  BY <1>0, <1>2, <1>4 DEF VmmTypeOK
<1>6. /\ walk'[m].virt = v /\ walk'[m].level = k + 1 /\ walk'[m].at = x
      /\ walk'[m].pc = "test" /\ walk'[m].phys \in Phys /\ walk'[m] \in Walk
  <2>1. walk[m] \in Walk /\ k + 1 \in 0 .. Depth
    BY SMT, <1>0, <1>2 DEF VmmTypeOK, Depth
  <2> QED
    BY <1>2, <1>5, <2>1 DEF Walk
<1>7. NodeAt(walk[m].virt, walk[m].level)' = x
  <2>1. NodeAt(v, k + 1)' = NodeAt(v, k + 1)
    BY <1>0 DEF NodeAt, Follow
  <2>2. NodeAt(v, k + 1) = x
    BY <1>1, <1>2, <1>3, NodeStep
  <2> QED
    BY <1>6, <2>1, <2>2 DEF NodeAt
<1>8. WalkRight(m)'
  BY <1>2, <1>6, <1>7 DEF WalkRight
<1>9. \A n \in Mapper : n # m => WalkRight(n)'
  BY <1>0, <1>5, <1>6, OthersWalkOn
<1>10. VmmTypeOK'
  <2>1. walk' \in [Mapper -> Walk]
    BY <1>0, <1>4, <1>5, <1>6 DEF VmmTypeOK
  <2> QED
    BY <1>0, <2>1 DEF VmmTypeOK
<1> QED
  BY <1>0, <1>8, <1>9, <1>10, TablesStay DEF VmmInv

(* At boot the root is there and empty (vmm.c:13-14). *)
LEMMA VmmInitInv == VmmInit => VmmInv
<1> SUFFICES ASSUME VmmInit PROVE VmmInv
  OBVIOUS
<1>1. /\ Root \in Table /\ None \notin Table /\ None # Root
      /\ \A t \in Table, i \in Index : tables[t][i] = None
  BY VmmAssumption DEF VmmInit, Empty
<1>2. VmmTypeOK
  <2>1. Idle \in Walk
    BY SMT, <1>1 DEF Idle, Walk, Depth
  <2> QED
    BY <1>1, <2>1 DEF VmmInit, VmmTypeOK, Empty
<1>3. /\ TablesAreTree /\ MapSticks /\ \A t \in Table, i \in Index : tables[t][i] # Root
      /\ \A t \in unused : Detached(t)
  BY <1>1 DEF VmmInit, TablesAreTree, MapSticks, Detached
<1>4. LevelsRight
  <2>1. \A v \in Virt : /\ NodeAt(v, 1) = Root /\ Follow(Root, v, 1) = None
                       /\ \A k \in 2 .. Depth : NodeAt(v, k) = None
    <3> TAKE v \in Virt
    <3>1. NodeAt(v, 1) = Root /\ Follow(Root, v, 1) = None
      <4>1. Path[v][1] \in Index
        BY SMT, PathTypes DEF Depth
      <4> QED
        BY <1>1, <4>1, NodeStep DEF Follow, IndexOf
    <3>2. \A k \in 2 .. Depth : NodeAt(v, k) = None
      BY SMT, <3>1 DEF NodeAt, Follow, Depth
    <3> QED
      BY <3>1, <3>2
  <2> QED
    BY SMT, <1>1, <2>1 DEF LevelsRight, Depth
<1>5. \A m \in Mapper : WalkRight(m)
  BY DEF VmmInit, WalkRight, Idle
<1> QED
  BY <1>2, <1>3, <1>4, <1>5 DEF VmmInv

(* Every access of every vmm_map keeps the invariant, and only the last one *)
(* changes a translation, that of its own address (vmm.c:47-76).            *)
LEMMA VmmNextInv ==
  ASSUME RootsApart, VmmInv, [VmmNext]_vmm_vars
  PROVE  /\ VmmInv'
         /\ [\A v \in Virt : vmm_get_phys(v)' # vmm_get_phys(v) =>
               \E m \in Mapper : walk[m].virt = v /\ Write(m)]_vmm_vars
<1>1. CASE UNCHANGED vmm_vars
  <2>1. /\ tables' = tables /\ unused' = unused /\ mapped' = mapped /\ walk' = walk
    BY <1>1 DEF vmm_vars
  <2>2. ASSUME NEW m \in Mapper PROVE WalkRight(m)'
    <3>1. WalkRight(m)
      BY DEF VmmInv
    <3> QED
      BY <2>1, <3>1 DEF WalkRight, NodeAt, Follow, Entry, Slot, Detached
  <2> QED
    BY <1>1, <2>1, <2>2, TablesStay DEF VmmInv, VmmTypeOK
<1>2. CASE VmmNext
  <2>1. PICK m \in Mapper :
          (\E v \in Virt, p \in Phys : vmm_map(m, v, p)) \/ Test(m) \/ Store(m) \/ Load(m) \/ Write(m)
    BY <1>2 DEF VmmNext
  <2>2. CASE Write(m)
    BY <2>2, WriteInv
  <2>3. CASE ~ Write(m)
    <3>1. VmmInv' /\ \A v \in Virt : vmm_get_phys(v)' = vmm_get_phys(v)
      BY <2>1, <2>3, MapInv, TestInv, StoreKeeps, LoadInv
    <3> QED
      BY <3>1
  <2> QED
    BY <2>2, <2>3
<1> QED
  BY <1>1, <1>2

(* If no two mappers share a slot of the root, then through any number of   *)
(* unlocked walks at once the tables stay a tree and what vmm_map has       *)
(* mapped stays mapped (vmm.c:47-76).                                       *)
THEOREM VmmInductive == RootsApart => (VmmSpec => []VmmInv)
<1> SUFFICES ASSUME RootsApart PROVE VmmSpec => []VmmInv
  OBVIOUS
<1>1. VmmInv /\ [VmmNext]_vmm_vars => VmmInv'
  BY VmmNextInv
<1> QED
  BY <1>1, VmmInitInv, PTL DEF VmmSpec

(* And no translation changes but by the last write of a vmm_map of that    *)
(* address (vmm.c:53-74).                                                   *)
THEOREM MapTouchesOnlyItsOwn == RootsApart => (VmmSpec => MapsOnlyItsOwn)
<1> SUFFICES ASSUME RootsApart PROVE VmmSpec => MapsOnlyItsOwn
  OBVIOUS
<1>1. VmmInv /\ [VmmNext]_vmm_vars =>
        [\A v \in Virt : vmm_get_phys(v)' # vmm_get_phys(v) =>
           \E m \in Mapper : walk[m].virt = v /\ Write(m)]_vmm_vars
  BY VmmNextInv
<1> QED
  BY <1>1, VmmInductive, PTL DEF VmmSpec, MapsOnlyItsOwn
=============================================================================
