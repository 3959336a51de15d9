-------------------------- MODULE AllocatorProofs --------------------------
(***************************************************************************)
(* The page allocator for every memory map and every request: no page has  *)
(* two owners, nothing leaks, the counter is right, a request fails only   *)
(* when nothing fits, and the search loops find what they should.  The     *)
(* heap for every pool and every request: its blocks tile the pool, every  *)
(* holder has a block of its own, and a request fails only when no block   *)
(* is large enough.                                                        *)
(***************************************************************************)
EXTENDS PmmSearch, Heap, SequenceTheorems, FiniteSetTheorems, WellFoundedInduction, TLAPS

(* The provers, in the order in which they are tried. *)
USE ZenonT(15), SMT

(* A set of numbers has a least one. *)
LEMMA NatMin ==
  ASSUME NEW S \in SUBSET Nat, S # {}
  PROVE  \E x \in S : \A y \in S : x <= y
<1> DEFINE R == OpToRel(<, Nat)
<1>1. \A x, y \in Nat : y < x => <<y, x>> \in R
  BY DEF OpToRel
<1>2. IsWellFoundedOn(R, Nat)
  BY NatLessThanWellFounded
<1> HIDE DEF R
<1>3. PICK x \in S : \A y \in S : <<y, x>> \notin R
  BY <1>2, WFMin
<1>4. \A y \in S : ~ (y < x)
  BY <1>1, <1>3
<1> QED
  BY SMT, <1>4

(* Induction, with a set for the predicate. *)
LEMMA NatInductive ==
  ASSUME NEW S, 0 \in S, \A n \in Nat : n \in S => n + 1 \in S
  PROVE  Nat \subseteq S
<1> SUFFICES ASSUME NEW m \in Nat, m \notin S PROVE FALSE
  OBVIOUS
<1>1. PICK n \in Nat \ S : \A l \in Nat \ S : n <= l
  BY NatMin
<1>2. n - 1 \in Nat /\ n - 1 + 1 = n /\ ~ (n <= n - 1)
  BY SMT
<1> QED
  BY <1>1, <1>2

(* Min, by which the search finds the first run that fits (pmm.c:92-134).   *)
LEMMA MinIsLeast ==
  ASSUME NEW S \in SUBSET Nat, S # {}
  PROVE  Min(S) \in S /\ \A y \in S : Min(S) <= y
BY NatMin DEF Min

(* Max, by which memory gets its end (pmm.c:34). *)
LEMMA MaxIsGreatest ==
  ASSUME NEW S \in SUBSET Nat, S # {}, NEW b \in Nat, \A x \in S : x <= b
  PROVE  Max(S) \in S /\ \A y \in S : y <= Max(S)
<1> DEFINE U == {n \in Nat : \A x \in S : x <= n}
<1>1. U \in SUBSET Nat /\ U # {}
  OBVIOUS
<1>2. PICK u \in U : \A n \in U : u <= n
  BY <1>1, NatMin
<1>3. u \in S
  <2> SUFFICES ASSUME u \notin S PROVE FALSE
    OBVIOUS
  <2>0. u \in Nat /\ \A x \in S : x \in Nat /\ x <= u /\ x # u
    OBVIOUS
  <2>1. \A x \in S : x < u
    BY SMT, <2>0
  <2>2. u - 1 \in Nat
    <3>1. PICK x \in S : TRUE
      OBVIOUS
    <3>2. x \in Nat /\ x < u
      BY <2>0, <2>1
    <3> QED
      BY SMT, <2>0, <3>2
  <2>3. u - 1 \in U
    BY SMT, <2>0, <2>1, <2>2
  <2> QED
    BY SMT, <1>2, <2>0, <2>3
<1>4. \E x \in S : \A y \in S : x >= y
  BY <1>3
<1> QED
  BY <1>4 DEF Max

-----------------------------------------------------------------------------
(* The memory map: what pmm_init computes from it (pmm.c:30-52). *)
LEMMA DescTypes ==
  /\ Len(Descs) \in Nat /\ DOMAIN Descs = 1 .. Len(Descs)
  /\ \A k \in DOMAIN Descs : /\ Descs[k].start \in Nat /\ Descs[k].pages \in Nat
                             /\ Descs[k].start + Descs[k].pages \in Nat
<1>1. Descs \in Seq([start : Nat, pages : Nat])
  BY PmmAssumption
<1>2. Len(Descs) \in Nat /\ DOMAIN Descs = 1 .. Len(Descs)
  BY SMT, <1>1
<1>3. \A k \in DOMAIN Descs : Descs[k] \in [start : Nat, pages : Nat]
  BY <1>1, <1>2, ElementOfSeq
<1>4. \A k \in DOMAIN Descs : Descs[k].start \in Nat /\ Descs[k].pages \in Nat
  BY <1>3
<1> QED
  BY SMT, <1>2, <1>4

(* Memory has an end. *)
LEMMA DescsBounded ==
  \E b \in Nat : \A k \in DOMAIN Descs : Descs[k].start + Descs[k].pages <= b
<1> DEFINE Top == [k \in DOMAIN Descs |-> Descs[k].start + Descs[k].pages]
           S == {n \in Nat : n <= Len(Descs) => \E b \in Nat : \A k \in 1 .. n : Top[k] <= b}
<1>0. /\ Len(Descs) \in Nat /\ DOMAIN Descs = 1 .. Len(Descs)
      /\ \A k \in DOMAIN Descs : Top[k] \in Nat
  BY DescTypes
<1> HIDE DEF Top
<1>1. 0 \in S
  <2>1. \A k \in 1 .. 0 : Top[k] <= 0
    BY SMT
  <2> QED
    BY <2>1
<1>2. ASSUME NEW n \in Nat, n \in S PROVE n + 1 \in S
  <2> SUFFICES ASSUME n + 1 <= Len(Descs)
               PROVE  \E b \in Nat : \A k \in 1 .. n + 1 : Top[k] <= b
    BY SMT
  <2>1. n <= Len(Descs) /\ n + 1 \in DOMAIN Descs
    BY SMT, <1>0
  <2>2. PICK b \in Nat : \A k \in 1 .. n : Top[k] <= b
    BY <1>2, <2>1
  <2> HIDE DEF S
  <2>3. Top[n + 1] \in Nat /\ b + Top[n + 1] \in Nat
    BY SMT, <1>0, <2>1
  <2>4. ASSUME NEW k \in 1 .. n + 1 PROVE Top[k] <= b + Top[n + 1]
    <3>1. CASE k = n + 1
      BY SMT, <2>3, <3>1
    <3>2. CASE k \in 1 .. n
      <4>1. k \in DOMAIN Descs /\ Top[k] <= b
        BY SMT, <1>0, <2>1, <2>2, <3>2
      <4>2. Top[k] \in Nat
        BY <1>0, <4>1
      <4> QED
        BY SMT, <2>3, <4>1, <4>2
    <3> QED
      BY SMT, <3>1, <3>2
  <2> QED
    BY <2>3, <2>4
<1>3. Len(Descs) \in S
  <2> HIDE DEF S
  <2> QED
    BY <1>0, <1>1, <1>2, NatInductive
<1>4. \E b \in Nat : \A k \in 1 .. Len(Descs) : Top[k] <= b
  BY SMT, <1>0, <1>3
<1> QED
  BY <1>0, <1>4 DEF Top

(* The end of memory, the bitmap and the usable pages (pmm.c:30-63). *)
LEMMA MemoryMap ==
  /\ TotalPages \in Nat /\ BitmapLen \in Nat /\ BitmapStart \in Nat
  /\ Usable \subseteq Page
  /\ BitmapPages \subseteq Usable
<1> DEFINE E == {Descs[k].start + Descs[k].pages : k \in DOMAIN Descs}
<1>1. E \in SUBSET Nat /\ E # {}
  BY SMT, PmmAssumption, DescTypes
<1>2. PICK b \in Nat : \A x \in E : x <= b
  BY DescsBounded
<1>3. TotalPages \in E /\ \A x \in E : x <= TotalPages
  <2> HIDE DEF E
  <2>1. Max(E) \in E /\ \A x \in E : x <= Max(E)
    BY <1>1, <1>2, MaxIsGreatest
  <2> QED
    BY <2>1 DEF TotalPages, E
<1>4. TotalPages \in Nat
  BY <1>1, <1>3
<1>5. BitmapLen \in Nat
  <2>1. BitmapSize \in Nat
    BY SMT, <1>4 DEF BitmapSize
  <2> QED
    BY SMT, <2>1, PmmAssumption DEF BitmapLen
<1>6. Usable \subseteq Page
  <2> SUFFICES ASSUME NEW k \in DOMAIN Descs, NEW p \in PagesOf(Descs[k]) PROVE p \in Page
    BY DEF Usable
  <2>1. Descs[k].start + Descs[k].pages <= TotalPages
    BY <1>3
  <2> QED
    BY SMT, <1>4, <2>1, DescTypes DEF PagesOf, Page
<1> DEFINE R == {k \in DOMAIN Descs : HasRoom(Descs[k])}
           r == Min(R)
<1>7. r \in R
  <2>1. R \in SUBSET Nat /\ R # {}
    BY SMT, PmmAssumption, DescTypes
  <2> HIDE DEF R
  <2> QED
    BY <2>1, MinIsLeast
<1>8. BitmapStart = Descs[r].start /\ r \in DOMAIN Descs /\ HasRoom(Descs[r])
  BY <1>7 DEF BitmapStart
<1> HIDE DEF R, r
<1>9. BitmapStart \in Nat
  BY <1>8, DescTypes
<1>10. BitmapPages \subseteq PagesOf(Descs[r])
  BY SMTT(20), <1>5, <1>8, <1>9, DescTypes DEF HasRoom, BitmapPages, PagesOf
<1> QED
  BY <1>4, <1>5, <1>6, <1>8, <1>9, <1>10 DEF Usable

(* A run of n pages is n pages (pmm.c:103-106). *)
LEMMA RunCount ==
  ASSUME NEW i \in Nat, NEW n \in Nat \ {0}
  PROVE  /\ IsFiniteSet(Run(i, n)) /\ Cardinality(Run(i, n)) = n
         /\ i \in Run(i, n) /\ Run(i, n) \subseteq Nat
<1>1. i + n - 1 \in Int /\ ~ (i > i + n - 1) /\ (i + n - 1) - i + 1 = n
  BY SMT
<1> QED
  BY SMT, <1>1, FS_Interval DEF Run

(* The bitmap has total_pages bits (pmm.c:38). *)
LEMMA PagesFinite ==
  /\ IsFiniteSet(Page) /\ Cardinality(Page) = TotalPages
  /\ \A S : S \subseteq Page => IsFiniteSet(S) /\ Cardinality(S) \in 0 .. TotalPages
<1>1. TotalPages - 1 \in Int /\ (0 > TotalPages - 1 => TotalPages = 0)
      /\ (TotalPages - 1) - 0 + 1 = TotalPages
  BY SMT, MemoryMap
<1>2. IsFiniteSet(Page) /\ Cardinality(Page) = TotalPages
  BY SMT, <1>1, FS_Interval, MemoryMap DEF Page
<1>3. ASSUME NEW S, S \subseteq Page
      PROVE  IsFiniteSet(S) /\ Cardinality(S) \in 0 .. TotalPages
  <2>1. IsFiniteSet(S) /\ Cardinality(S) <= TotalPages
    BY <1>2, <1>3, FS_Subset
  <2>2. Cardinality(S) \in Nat
    BY <2>1, FS_CardinalityType
  <2> QED
    BY SMT, <2>1, <2>2, MemoryMap
<1> QED
  BY <1>2, <1>3

(* What pmm_init counts is the number of pages it leaves clear              *)
(* (pmm.c:57-85).                                                           *)
LEMMA InitialCount == InitialFree = Cardinality(Page \ Reserved)
<1> DEFINE U == Usable \ BitmapPages
           L == (Usable \cap Low) \ BitmapPages
<1>1. Page \ Reserved = U \ L
  BY MemoryMap DEF Reserved
<1>2. IsFiniteSet(Usable) /\ Cardinality(Usable) \in Nat
  BY SMT, MemoryMap, PagesFinite
<1>3. IsFiniteSet(BitmapPages) /\ Cardinality(BitmapPages) = BitmapLen
  <2>1. /\ BitmapStart + BitmapLen - 1 \in Int
        /\ BitmapStart > BitmapStart + BitmapLen - 1 => BitmapLen = 0
        /\ (BitmapStart + BitmapLen - 1) - BitmapStart + 1 = BitmapLen
    BY SMT, MemoryMap
  <2> QED
    BY SMT, <2>1, FS_Interval, MemoryMap DEF BitmapPages
<1>4. IsFiniteSet(U) /\ Cardinality(U) = Cardinality(Usable) - BitmapLen
  <2>1. Usable \cap BitmapPages = BitmapPages
    BY MemoryMap
  <2> QED
    BY SMT, <1>2, <1>3, <2>1, FS_Difference
<1>5. Cardinality(U \ L) = Cardinality(U) - Cardinality(L)
  <2>1. U \cap L = L
    OBVIOUS
  <2>2. IsFiniteSet(U)
    BY <1>4
  <2> HIDE DEF U, L
  <2> QED
    BY <2>1, <2>2, FS_Difference
<1> QED
  BY <1>1, <1>4, <1>5 DEF InitialFree

(* The pages of an incomplete last byte are not low (pmm.c:39, 79).         *)
LEMMA LastByteHigh == \A p \in LastByte : p \in Page \ Low
<1>1. TotalPages \in Nat /\ TotalPages > LowPages /\ LowPages \in Nat /\ LowPages % 8 = 0
  BY MemoryMap, PmmAssumption
<1>2. 8 * BitmapSize >= LowPages /\ BitmapSize \in Nat
  BY SMT, <1>1 DEF BitmapSize
<1> QED
  BY SMT, <1>1, <1>2 DEF LastByte, Low, Page

(* What it is made of: the holes among them are reserved pages.             *)
LEMMA StrayReserved ==
  ASSUME NEW S, S \subseteq LastByte \ Usable
  PROVE  S \subseteq Reserved /\ S \subseteq Page /\ S \cap BitmapPages = {} /\ S \cap Low = {}
         /\ IsFiniteSet(S) /\ Cardinality(S) \in Nat
<1>1. S \subseteq Page /\ S \cap Low = {}
  BY LastByteHigh
<1>2. S \cap BitmapPages = {} /\ S \subseteq Reserved
  BY <1>1, MemoryMap DEF Reserved
<1>3. IsFiniteSet(S) /\ Cardinality(S) \in 0 .. TotalPages
  BY <1>1, PagesFinite
<1>4. Cardinality(S) \in Nat
  BY SMT, <1>3, MemoryMap
<1> QED
  BY <1>1, <1>2, <1>3, <1>4

(* A clear bit is never that of a low page, so no run starts at Null.       *)
LEMMA ClearIsHigh ==
  ASSUME PmmInv, NEW p \in Page, p \notin bitmap
  PROVE  p \notin Low
<1>1. stray \cap Low = {}
  BY StrayReserved DEF PmmInv, PmmTypeOK
<1> QED
  BY <1>1 DEF PmmInv, BitmapExact, Reserved

-----------------------------------------------------------------------------
(* At boot (pmm.c:25-86). *)
LEMMA PmmInitInv == Init => PmmInv
<1> SUFFICES ASSUME Init PROVE PmmInv
  OBVIOUS
<1>1. Reserved \subseteq Page
  BY MemoryMap DEF Reserved, Low
<1>0. /\ stray \subseteq LastByte \ Usable /\ stray \subseteq Reserved /\ IsFiniteSet(stray)
      /\ Cardinality(stray) \in Nat
  BY StrayReserved DEF Init
<1>5. /\ IsFiniteSet(Page \ Reserved) /\ Cardinality(Page \ Reserved) \in 0 .. TotalPages
      /\ free_pages = Cardinality(Page \ Reserved)
  BY PagesFinite, InitialCount DEF Init
<1>2. Accounting
  <2> DEFINE C == Page \ Reserved
  <2>1. Page \ bitmap = C \cup stray /\ C \cap stray = {}
    BY <1>0, <1>1 DEF Init
  <2>2. Cardinality(C \cup stray) = Cardinality(C) + Cardinality(stray) - Cardinality(C \cap stray)
    BY <1>0, <1>5, FS_Union
  <2>3. Cardinality({}) = 0
    BY FS_EmptySet
  <2>4. Cardinality(Page \ bitmap) = Cardinality(C) + Cardinality(stray) - Cardinality({})
    BY <2>1, <2>2, Zenon
  <2>5. Cardinality(C) \in Nat /\ free_pages = Cardinality(C)
    BY SMT, <1>5, MemoryMap
  <2> HIDE DEF C
  <2> QED
    BY SMT, <1>0, <2>3, <2>4, <2>5 DEF Accounting
<1>3. free_pages \in Int
  BY SMT, <1>5, MemoryMap
<1>4. PmmTypeOK
  BY SMT, <1>0, <1>1, <1>3, MemoryMap DEF Init, PmmTypeOK
<1> QED
  BY <1>2, <1>4 DEF Init, PmmInv, NoSharing, BitmapExact

(* What the search picks is a clear run that lies within memory             *)
(* (pmm.c:92-134).                                                          *)
LEMMA PickedRun ==
  ASSUME PmmTypeOK, NEW n \in Counts, Called(n), Candidates(n) # {}
  PROVE  LET i == Min(Candidates(n)) IN
         /\ n \in Nat \ {0} /\ i \in Nat /\ i + n \in 0 .. TotalPages
         /\ Run(i, n) \subseteq Page \ bitmap /\ i \in Page
<1> DEFINE i == Min(Candidates(n))
<1>1. n \in Nat \ {0} /\ TotalPages \in Nat /\ last_search_index \in 0 .. TotalPages
  BY PmmAssumption, MemoryMap DEF PmmTypeOK
<1>2. Candidates(n) \in SUBSET Nat
  <2>1. Forward(n) \subseteq Nat /\ Wrapped(n) \subseteq Nat
    BY SMT, <1>1 DEF Forward, Wrapped
  <2> QED
    BY <2>1 DEF Candidates
<1>3. i \in Candidates(n)
  BY <1>2, MinIsLeast
<1> HIDE DEF i
<1>4. i \in Nat /\ Fits(i, n)
  BY <1>2, <1>3 DEF Candidates, Forward, Wrapped
<1>5. i + n \in 0 .. TotalPages
  <2>1. CASE i \in Forward(n)
    BY SMT, <1>1, <1>4, <2>1 DEF Forward
  <2>2. CASE i \in Wrapped(n)
    BY SMT, <1>1, <1>4, <2>2 DEF Wrapped, Called
  <2> QED
    BY <1>3, <2>1, <2>2 DEF Candidates
<1>6. Run(i, n) \subseteq Page /\ i \in Page
  BY SMT, <1>1, <1>4, <1>5 DEF Run, Page
<1>7. Run(i, n) \subseteq Page \ bitmap
  BY <1>4, <1>6 DEF Fits
<1> QED
  BY <1>1, <1>4, <1>5, <1>6, <1>7 DEF i

(* pmm_alloc keeps the invariant (pmm.c:88-138). *)
LEMMA AllocInv ==
  ASSUME PmmInv, NEW n \in Counts, Alloc(n)
  PROVE  PmmInv'
<1>0. PmmTypeOK /\ NoSharing /\ BitmapExact /\ Accounting /\ stray' = stray
  BY DEF PmmInv, Alloc
<1>1. CASE Candidates(n) = {}
  BY <1>0, <1>1 DEF Alloc, PmmInv, PmmTypeOK, NoSharing, BitmapExact, Accounting
<1>2. CASE Candidates(n) # {}
  <2> DEFINE i == Min(Candidates(n))
             a == [page |-> i, count |-> n]
  <2>1. /\ n \in Nat \ {0} /\ i \in Nat /\ i + n \in 0 .. TotalPages
        /\ Run(i, n) \subseteq Page \ bitmap /\ i \in Page
    BY <1>0, <1>2, PickedRun DEF Alloc
  <2>2. /\ bitmap' = bitmap \cup Run(i, n) /\ free_pages' = free_pages - n
        /\ last_search_index' = i + n /\ live' = live \cup {a} /\ ret' = i
    BY <1>2 DEF Alloc
  <2> HIDE DEF i
  <2>3. IsFiniteSet(Run(i, n)) /\ Cardinality(Run(i, n)) = n
    BY <2>1, RunCount
  <2>4. Accounting'
    <3>1. Page \ bitmap' = (Page \ bitmap) \ Run(i, n)
      BY <2>2
    <3>2. (Page \ bitmap) \cap Run(i, n) = Run(i, n)
      BY <2>1
    <3>3. IsFiniteSet(Page \ bitmap)
      BY PagesFinite
    <3>4. Cardinality((Page \ bitmap) \ Run(i, n)) =
            Cardinality(Page \ bitmap) - Cardinality((Page \ bitmap) \cap Run(i, n))
      BY <3>3, FS_Difference
    <3>5. Cardinality(Page \ bitmap') = Cardinality(Page \ bitmap) - n
      BY <2>3, <3>1, <3>2, <3>4
    <3>6. Cardinality(stray) \in Nat /\ free_pages \in Int
      BY <1>0, StrayReserved DEF PmmTypeOK
    <3>7. Cardinality(Page \ bitmap) \in Nat
      BY <3>3, FS_CardinalityType
    <3>8. free_pages + Cardinality(stray) = Cardinality(Page \ bitmap)
      BY <1>0 DEF Accounting
    <3>9. free_pages' = free_pages - n /\ n \in Nat
      BY <2>1, <2>2
    <3>10. free_pages' + Cardinality(stray) = Cardinality(Page \ bitmap')
      BY SMT, <3>5, <3>6, <3>7, <3>8, <3>9
    <3> QED
      BY <1>0, <3>10 DEF Accounting
  <2>5. PmmTypeOK'
    <3>1. free_pages' \in Int
      BY SMT, <1>0, <2>1, <2>2 DEF PmmTypeOK
    <3>2. a \in [page : Page, count : Counts]
      BY <2>1
    <3> QED
      BY <1>0, <2>1, <2>2, <3>1, <3>2 DEF PmmTypeOK
  <2>6. BitmapExact'
    <3>1. UNION {Run(b.page, b.count) : b \in live'} =
            Run(i, n) \cup UNION {Run(b.page, b.count) : b \in live}
      <4>1. Run(a.page, a.count) = Run(i, n) /\ live' = live \cup {a}
        BY <2>2
      <4> HIDE DEF a
      <4> QED
        BY <4>1
    <3> QED
      BY <1>0, <2>2, <3>1 DEF BitmapExact
  <2>7. NoSharing'
    <3>1. Reserved \ stray \subseteq bitmap /\ \A b \in live : Run(b.page, b.count) \subseteq bitmap
      BY <1>0 DEF BitmapExact
    <3>2. Run(i, n) \cap bitmap = {} /\ Run(a.page, a.count) = Run(i, n)
      BY <2>1
    <3> QED
      BY <1>0, <2>1, <2>2, <3>1, <3>2 DEF NoSharing
  <2> QED
    BY <2>4, <2>5, <2>6, <2>7 DEF PmmInv
<1> QED
  BY <1>1, <1>2

(* pmm_free keeps it when it is given back what was given out               *)
(* (pmm.c:140-150).                                                         *)
LEMMA FreeInv ==
  ASSUME PmmInv, NEW a \in live, Free(a)
  PROVE  PmmInv'
<1> DEFINE R == Run(a.page, a.count)
<1>0. PmmTypeOK /\ NoSharing /\ BitmapExact /\ Accounting /\ stray' = stray
  BY DEF PmmInv, Free
<1>1. a.page \in Nat /\ a.count \in Nat \ {0}
  <2>1. a.page \in Page /\ a.count \in Counts
    BY <1>0 DEF PmmTypeOK
  <2>2. Page \subseteq Nat
    BY SMT, MemoryMap DEF Page
  <2> QED
    BY <2>1, <2>2, PmmAssumption
<1>2. IsFiniteSet(R) /\ Cardinality(R) = a.count
  BY <1>1, RunCount
<1>3. R \subseteq Page /\ R \cap (Reserved \ stray) = {} /\ R \subseteq bitmap
  <2>1. stray \subseteq Page
    BY <1>0, StrayReserved DEF PmmTypeOK
  <2> QED
    BY <1>0, <2>1 DEF NoSharing, BitmapExact
<1>4. Accounting'
  <2>1. Page \ bitmap' = (Page \ bitmap) \cup R
    BY <1>3 DEF Free
  <2>2. (Page \ bitmap) \cap R = {}
    BY <1>3
  <2>3. IsFiniteSet(Page \ bitmap) /\ Cardinality(Page \ bitmap) \in Nat
    BY SMT, PagesFinite
  <2>4. Cardinality((Page \ bitmap) \cup R) =
          Cardinality(Page \ bitmap) + Cardinality(R) - Cardinality((Page \ bitmap) \cap R)
    <3> HIDE DEF R
    <3> QED
      BY <1>2, <2>3, FS_Union
  <2> QED
    <3>1. Cardinality({}) = 0
      BY FS_EmptySet
    <3>2. Cardinality(Page \ bitmap') = Cardinality(Page \ bitmap) + a.count
      <4> DEFINE C == Page \ bitmap
                 D == Page \ bitmap'
      <4>1. D = C \cup R /\ C \cap R = {} /\ Cardinality(C) \in Nat
        BY <2>1, <2>2, <2>3
      <4>2. Cardinality(C \cup R) = Cardinality(C) + Cardinality(R) - Cardinality(C \cap R)
        BY <2>4
      <4> HIDE DEF C, D, R
      <4>3. Cardinality(D) = Cardinality(C) + Cardinality(R) - Cardinality({})
        BY <4>1, <4>2, Zenon
      <4>4. Cardinality(D) = Cardinality(C) + a.count
        BY SMT, <1>1, <1>2, <3>1, <4>1, <4>3
      <4> QED
        BY <4>4 DEF C, D
    <3>3. Cardinality(stray) \in Nat /\ free_pages \in Int
      BY <1>0, StrayReserved DEF PmmTypeOK
    <3>4. free_pages + Cardinality(stray) = Cardinality(Page \ bitmap)
      BY <1>0 DEF Accounting
    <3>5. free_pages' = free_pages + a.count
      BY DEF Free
    <3>6. free_pages' + Cardinality(stray) = Cardinality(Page \ bitmap')
      BY SMT, <1>1, <2>3, <3>2, <3>3, <3>4, <3>5
    <3> QED
      BY <1>0, <3>6 DEF Accounting
<1>5. PmmTypeOK'
  <2>1. free_pages' \in Int
    BY SMT, <1>0, <1>1 DEF Free, PmmTypeOK
  <2> QED
    BY <1>0, <2>1 DEF Free, PmmTypeOK
<1>6. NoSharing'
  BY <1>0 DEF Free, NoSharing
<1>7. BitmapExact'
  <2>1. \A b \in live' : Run(b.page, b.count) \cap R = {}
    BY <1>0 DEF Free, NoSharing
  <2>2. UNION {Run(b.page, b.count) : b \in live} =
          R \cup UNION {Run(b.page, b.count) : b \in live'}
    BY DEF Free
  <2> QED
    BY SMT, <1>0, <1>3, <2>1, <2>2 DEF Free, BitmapExact
<1> QED
  BY <1>4, <1>5, <1>6, <1>7 DEF PmmInv

(* For every memory map whose bitmap lies in its own pages, whatever its    *)
(* last byte held, and every sequence of requests: no page has two owners,  *)
(* the bitmap is exactly what is reserved or owned and the counter of free  *)
(* pages is the number of clear bits, but for holes of the last byte        *)
(* (pmm.c:25-150).                                                          *)
THEOREM PmmInductive == Spec => []PmmInv
<1>1. PmmInv /\ [Next]_vars => PmmInv'
  <2> SUFFICES ASSUME PmmInv, [Next]_vars PROVE PmmInv'
    OBVIOUS
  <2>1. CASE \E n \in Counts : Alloc(n)
    BY <2>1, AllocInv
  <2>2. CASE \E a \in live : Free(a)
    BY <2>2, FreeInv
  <2>3. CASE UNCHANGED vars
    BY <2>3 DEF vars, PmmInv, PmmTypeOK, NoSharing, BitmapExact, Accounting
  <2> QED
    BY <2>1, <2>2, <2>3 DEF Next
<1> QED
  BY <1>1, PmmInitInv, PTL DEF Spec

(* pmm_alloc fails only when no run is clear but, perhaps, the last one of  *)
(* memory: the two loops between them leave no other start out              *)
(* (pmm.c:92, 114).                                                         *)
THEOREM RefusesOnlyFull == Spec => FailsOnlyWhenFull
<1>1. ASSUME PmmInv, NEW n \in Counts, Alloc(n), ret' = Null,
             NEW i \in 0 .. TotalPages - n - 1, Fits(i, n)
      PROVE  FALSE
  <2>0. TotalPages \in Nat /\ n \in Nat /\ last_search_index \in 0 .. TotalPages
    BY <1>1, PmmAssumption, MemoryMap DEF PmmInv, PmmTypeOK
  <2>1. CASE Candidates(n) # {}
    <3> DEFINE j == Min(Candidates(n))
    <3>1. ret' = j
      BY <1>1, <2>1 DEF Alloc
    <3>2. /\ n \in Nat \ {0} /\ j \in Nat /\ j \in Page
          /\ Run(j, n) \subseteq Page \ bitmap
      BY <1>1, <2>1, PickedRun DEF Alloc, PmmInv
    <3> HIDE DEF j
    <3>3. j \in Page \ bitmap
      BY <3>2, RunCount
    <3>4. j \notin Low
      BY <1>1, <3>3, ClearIsHigh
    <3> QED
      BY <1>1, <3>1, <3>3, <3>4, PmmAssumption
  <2>2. CASE Candidates(n) = {}
    <3>1. Forward(n) = {} /\ Wrapped(n) = {}
      BY <2>2 DEF Candidates
    <3>2. i \in last_search_index .. TotalPages - n - 1 \/ i \in 0 .. last_search_index - 1
      BY SMT, <2>0
    <3> QED
      BY <1>1, <3>1, <3>2 DEF Forward, Wrapped
  <2> QED
    BY <2>1, <2>2
<1>2. PmmInv /\ [Next]_vars =>
        [\A n \in Counts : Alloc(n) /\ ret' = Null =>
           \A i \in 0 .. TotalPages - n - 1 : ~ Fits(i, n)]_vars
  BY <1>1
<1> QED
  BY <1>2, PmmInductive, PTL DEF Spec, FailsOnlyWhenFull

-----------------------------------------------------------------------------
(* f is what a loop returns as a function of the index it is at: val[k]     *)
(* where the loop stops, else what it returns from the index it goes on at. *)
LoopFrom(f, m, stop, val, next) ==
  f = [k \in 0 .. m |-> IF stop[k] THEN val[k] ELSE f[next[k]]]

(* A loop whose index only goes up, as the two search loops of pmm_alloc do *)
(* (pmm.c:92-101), has such a function.                                     *)
LEMMA UpwardLoop ==
  ASSUME NEW m \in Nat, NEW stop, NEW val, NEW next,
         \A k \in 0 .. m : ~ stop[k] => next[k] \in k + 1 .. m
  PROVE  \E f : LoopFrom(f, m, stop, val, next)
<1> DEFINE Right(f, k) == f[k] = IF stop[k] THEN val[k] ELSE f[next[k]]
           S == {d \in Nat : d <= m => \E f : \A k \in m - d .. m : Right(f, k)}
<1>1. ASSUME NEW a \in 0 .. m, NEW g, \A k \in a + 1 .. m : Right(g, k)
      PROVE  \E f : \A k \in a .. m : Right(f, k)
  <2> DEFINE f == [k \in 0 .. m |-> IF k = a THEN IF stop[a] THEN val[a] ELSE g[next[a]] ELSE g[k]]
  <2>1. \A k \in a .. m : k \in 0 .. m /\ (k = a \/ k \in a + 1 .. m)
    BY SMT
  <2>2. \A k \in a .. m : \A l \in k + 1 .. m : l \in 0 .. m /\ l # a
    BY SMT
  <2>3. ASSUME NEW k \in a .. m PROVE Right(f, k)
    <3>1. ~ stop[k] => next[k] \in 0 .. m /\ next[k] # a
      BY <2>1, <2>2
    <3>2. ~ stop[k] => f[next[k]] = g[next[k]]
      BY <3>1
    <3>3. CASE k = a
      <4>1. f[k] = IF stop[k] THEN val[k] ELSE g[next[k]]
        BY <2>1, <3>3
      <4> HIDE DEF f
      <4> QED
        BY <3>2, <4>1
    <3>4. CASE k # a
      <4>1. f[k] = g[k]
        BY <2>1, <3>4
      <4>2. Right(g, k)
        BY <1>1, <2>1, <3>4
      <4> HIDE DEF f
      <4> QED
        BY <3>2, <4>1, <4>2
    <3> QED
      BY <3>3, <3>4
  <2> HIDE DEF f, Right
  <2> QED
    BY <2>3
<1>2. 0 \in S
  <2>1. m \in 0 .. m /\ m - 0 = m /\ m + 1 .. m = {}
    BY SMT
  <2>2. \E f : \A k \in m .. m : Right(f, k)
    <3> HIDE DEF Right
    <3> QED
      BY <1>1, <2>1
  <2> HIDE DEF Right
  <2> QED
    BY <2>1, <2>2
<1>3. ASSUME NEW d \in Nat, d \in S PROVE d + 1 \in S
  <2> HIDE DEF Right
  <2>1. d + 1 \in Nat
    BY SMT
  <2> SUFFICES ASSUME d + 1 <= m PROVE \E f : \A k \in m - (d + 1) .. m : Right(f, k)
    BY <2>1
  <2>2. d <= m /\ m - (d + 1) \in 0 .. m /\ (m - (d + 1)) + 1 = m - d
    BY SMT
  <2>3. PICK g : \A k \in m - d .. m : Right(g, k)
    BY <1>3, <2>2
  <2> QED
    BY <1>1, <2>2, <2>3
<1> HIDE DEF S
<1>4. Nat \subseteq S
  BY <1>2, <1>3, NatInductive
<1>5. m - m = 0 /\ m <= m
  BY SMT
<1>6. PICK f : \A k \in 0 .. m : Right(f, k)
  BY <1>4, <1>5 DEF S
<1> DEFINE g == [k \in 0 .. m |-> f[k]]
<1>7. \A k \in 0 .. m : ~ stop[k] => next[k] \in 0 .. m
  <2>1. \A k \in 0 .. m : \A l \in k + 1 .. m : l \in 0 .. m
    BY SMT
  <2> QED
    BY <2>1
<1>8. \A k \in 0 .. m : g[k] = IF stop[k] THEN val[k] ELSE g[next[k]]
  BY <1>6, <1>7
<1>9. g = [k \in 0 .. m |-> g[k]]
  OBVIOUS
<1> HIDE DEF g
<1>10. g = [k \in 0 .. m |-> IF stop[k] THEN val[k] ELSE g[next[k]]]
  BY <1>8, <1>9
<1> QED
  BY <1>10 DEF LoopFrom

(* The same from the top down: what holds at an index when it holds at      *)
(* every later one holds at all of them.                                    *)
LEMMA DownwardInduction ==
  ASSUME NEW m \in Nat, NEW S,
         \A k \in 0 .. m : (\A l \in k + 1 .. m : l \in S) => k \in S
  PROVE  0 .. m \subseteq S
<1> DEFINE T == {d \in Nat : d <= m => \A l \in m - d .. m : l \in S}
<1>1. 0 \in T
  <2>1. m \in 0 .. m /\ m + 1 .. m = {} /\ m - 0 .. m = {m}
    BY SMT
  <2>2. m \in S
    BY <2>1
  <2> QED
    BY <2>1, <2>2
<1>2. ASSUME NEW d \in Nat, d \in T PROVE d + 1 \in T
  <2>1. d + 1 \in Nat
    BY SMT
  <2> SUFFICES ASSUME d + 1 <= m PROVE \A l \in m - (d + 1) .. m : l \in S
    BY <2>1
  <2>2. /\ d <= m /\ m - (d + 1) \in 0 .. m /\ (m - (d + 1)) + 1 = m - d
        /\ \A l \in m - (d + 1) .. m : l = m - (d + 1) \/ l \in m - d .. m
    BY SMT
  <2>3. \A l \in m - d .. m : l \in S
    BY <1>2, <2>2
  <2> QED
    BY <2>2, <2>3
<1> HIDE DEF T
<1>3. Nat \subseteq T
  BY <1>1, <1>2, NatInductive
<1>4. m - m = 0 /\ m <= m
  BY SMT
<1> QED
  BY <1>3, <1>4 DEF T

(* The inner loop of the search stops at the first page that is taken       *)
(* (pmm.c:94-100, 116-122).                                                 *)
LEMMA FirstTakenIs ==
  ASSUME NEW i \in Nat, NEW n \in Nat
  PROVE  /\ FirstTaken(i, n) \in 0 .. n
         /\ \A l \in 0 .. FirstTaken(i, n) - 1 : i + l \notin bitmap
         /\ FirstTaken(i, n) # n => i + FirstTaken(i, n) \in bitmap
<1> DEFINE stop == [j \in 0 .. n |-> j = n \/ i + j \in bitmap]
           val == [j \in 0 .. n |-> j]
           next == [j \in 0 .. n |-> j + 1]
           IsLoop(f) == f = [j \in 0 .. n |-> IF j = n \/ i + j \in bitmap THEN j ELSE f[j + 1]]
           f == CHOOSE g : IsLoop(g)
<1>1. \A j \in 0 .. n : ~ stop[j] => next[j] \in j + 1 .. n
  <2>1. \A j \in 0 .. n : j # n => j + 1 \in j + 1 .. n
    BY SMT
  <2> QED
    BY <2>1
<1>2. \E g : LoopFrom(g, n, stop, val, next)
  <2> HIDE DEF stop, val, next, IsLoop, f
  <2> QED
    BY <1>1, UpwardLoop
<1>3. \E g : IsLoop(g)
  <2>1. PICK g : g = [j \in 0 .. n |-> IF stop[j] THEN val[j] ELSE g[next[j]]]
    BY <1>2 DEF LoopFrom
  <2>2. g = [j \in 0 .. n |-> IF j = n \/ i + j \in bitmap THEN j ELSE g[j + 1]]
    BY <2>1
  <2> QED
    BY <2>2
<1>4. IsLoop(f)
  <2> HIDE DEF IsLoop
  <2> QED
    BY <1>3
<1>5. FirstTaken(i, n) = f[0]
  BY DEF FirstTaken
<1> HIDE DEF f, stop, val, next
<1>6. \A j \in 0 .. n : f[j] = IF j = n \/ i + j \in bitmap THEN j ELSE f[j + 1]
  BY <1>4
<1> DEFINE P(j) == /\ f[j] \in j .. n
                   /\ \A l \in j .. f[j] - 1 : i + l \notin bitmap
                   /\ f[j] # n => i + f[j] \in bitmap
           S == {j \in 0 .. n : P(j)}
<1>7. ASSUME NEW j \in 0 .. n, \A l \in j + 1 .. n : l \in S PROVE P(j)
  <2>1. CASE j = n \/ i + j \in bitmap
    <3>1. f[j] = j
      BY <1>6, <2>1
    <3>2. j \in j .. n /\ j .. j - 1 = {}
      BY SMT
    <3> QED
      BY <2>1, <3>1, <3>2
  <2>2. CASE ~ (j = n \/ i + j \in bitmap)
    <3>1. j + 1 \in j + 1 .. n
      BY SMT, <2>2
    <3>2. P(j + 1) /\ f[j] = f[j + 1]
      BY <1>6, <1>7, <2>2, <3>1
    <3>3. PICK v : v = f[j + 1]
      OBVIOUS
    <3>4. v \in j + 1 .. n
      BY <3>2, <3>3
    <3>5. v \in j .. n /\ \A l \in j .. v - 1 : l = j \/ l \in j + 1 .. v - 1
      BY SMT, <3>4
    <3> QED
      BY <2>2, <3>2, <3>3, <3>5
  <2> QED
    BY <2>1, <2>2
<1>8. 0 .. n \subseteq S
  <2>1. \A j \in 0 .. n : (\A l \in j + 1 .. n : l \in S) => j \in S
    BY <1>7
  <2> HIDE DEF S
  <2> QED
    BY <2>1, DownwardInduction
<1>9. 0 \in 0 .. n
  BY SMT
<1>10. P(0)
  BY <1>8, <1>9
<1> QED
  BY <1>5, <1>10

(* The runs the outer loop can find from k on. *)
FitsFrom(k, limit, n) == {x \in k .. limit - 1 : Fits(x, n)}

(* They are page numbers (pmm.c:92, 114).                                   *)
LEMMA FitsFromNat ==
  ASSUME NEW k \in Nat, NEW limit \in Int, NEW n
  PROVE  FitsFrom(k, limit, n) \in SUBSET Nat
<1>1. \A x \in k .. limit - 1 : x \in Nat
  BY SMT
<1> QED
  BY <1>1 DEF FitsFrom

(* The outer loop finds the lowest run that fits: every index it jumps over *)
(* is one whose run holds the taken page (pmm.c:92-101, 114-123).           *)
LEMMA LoopIs ==
  ASSUME TotalPages \in Nat, NEW i \in 0 .. TotalPages, NEW n \in Nat \ {0},
         NEW limit \in Int, limit <= TotalPages
  PROVE  Loop(i, limit, n) = IF FitsFrom(i, limit, n) = {} THEN Null ELSE Min(FitsFrom(i, limit, n))
<1> DEFINE m == TotalPages + n
           j(k) == FirstTaken(k, n)
           stop == [k \in 0 .. m |-> k >= limit \/ j(k) = n]
           val == [k \in 0 .. m |-> IF k >= limit THEN Null ELSE k]
           next == [k \in 0 .. m |-> NextIndex(k, j(k))]
           IsLoop(f) == f = [k \in 0 .. m |-> IF k >= limit THEN Null
                               ELSE IF j(k) = n THEN k ELSE f[NextIndex(k, j(k))]]
           f == CHOOSE g : IsLoop(g)
<1>0. m \in Nat /\ \A k \in 0 .. m : k \in Nat
  BY SMT
<1>1. ASSUME NEW k \in 0 .. m, ~ (k >= limit), j(k) # n
      PROVE NextIndex(k, j(k)) \in k + 1 .. m
  <2>1. PICK v : v = j(k)
    OBVIOUS
  <2>2. v \in 0 .. n
    BY <1>0, <2>1, FirstTakenIs
  <2>3. v # n
    BY <1>1, <2>1
  <2>4. k + v + 1 \in k + 1 .. m
    <3> HIDE DEF j
    <3> QED
      BY SMT, <1>1, <2>2, <2>3
  <2> QED
    BY <2>1, <2>4 DEF NextIndex
<1>2. \A k \in 0 .. m : ~ stop[k] => next[k] \in k + 1 .. m
  BY <1>1
<1>3. \E g : LoopFrom(g, m, stop, val, next)
  <2> HIDE DEF stop, val, next, m, IsLoop, f, j
  <2> QED
    BY <1>0, <1>2, UpwardLoop
<1>4. \E g : IsLoop(g)
  <2>1. PICK g : g = [k \in 0 .. m |-> IF stop[k] THEN val[k] ELSE g[next[k]]]
    BY <1>3 DEF LoopFrom
  <2>2. ASSUME NEW k \in 0 .. m
        PROVE (IF stop[k] THEN val[k] ELSE g[next[k]])
                = IF k >= limit THEN Null ELSE IF j(k) = n THEN k ELSE g[NextIndex(k, j(k))]
    BY Zenon
  <2>3. g = [k \in 0 .. m |-> IF k >= limit THEN Null
                               ELSE IF j(k) = n THEN k ELSE g[NextIndex(k, j(k))]]
    <3> HIDE DEF stop, val, next, m, j
    <3> QED
      BY <2>1, <2>2
  <2> QED
    BY <2>3
<1>5. IsLoop(f)
  <2> HIDE DEF IsLoop
  <2> QED
    BY <1>4
<1>6. Loop(i, limit, n) = f[i]
  BY DEF Loop
<1> HIDE DEF f, stop, val, next
<1>7. \A k \in 0 .. m : f[k] = IF k >= limit THEN Null
                               ELSE IF j(k) = n THEN k ELSE f[NextIndex(k, j(k))]
  BY <1>5
<1> HIDE DEF IsLoop, m
<1> DEFINE F(k) == FitsFrom(k, limit, n)
           P(k) == f[k] = IF F(k) = {} THEN Null ELSE Min(F(k))
           S == {k \in 0 .. m : P(k)}
<1>8. ASSUME NEW k \in 0 .. m, \A l \in k + 1 .. m : l \in S PROVE P(k)
  <2>0. k \in Nat
    BY <1>0
  <2>1. CASE k >= limit
    <3>1. F(k) = {}
      <4>1. k .. limit - 1 = {}
        BY SMT, <2>0, <2>1
      <4> QED
        BY <4>1 DEF FitsFrom
    <3> QED
      BY <1>7, <2>1, <3>1
  <2>2. CASE ~ (k >= limit) /\ j(k) = n
    <3>1. \A l \in 0 .. n - 1 : k + l \notin bitmap
      BY <2>0, <2>2, FirstTakenIs
    <3>2. Fits(k, n)
      <4> SUFFICES ASSUME NEW p \in Run(k, n) PROVE p \notin bitmap
        BY DEF Fits
      <4>1. p - k \in 0 .. n - 1 /\ k + (p - k) = p
        BY SMT, <2>0 DEF Run
      <4> QED
        BY <3>1, <4>1
    <3>3. k \in F(k)
      <4>1. k \in k .. limit - 1
        BY SMT, <2>0, <2>2
      <4> QED
        BY <3>2, <4>1 DEF FitsFrom
    <3>4. F(k) # {} /\ F(k) \in SUBSET Nat
      BY <2>0, <3>3, FitsFromNat
    <3>5. \A x \in F(k) : k <= x /\ x \in Nat
      <4>1. \A x \in k .. limit - 1 : k <= x /\ x \in Nat
        BY SMT, <2>0
      <4> QED
        BY <4>1 DEF FitsFrom
    <3>6. Min(F(k)) \in F(k) /\ Min(F(k)) <= k
      BY <3>3, <3>4, MinIsLeast
    <3>7. PICK u : u = Min(F(k))
      OBVIOUS
    <3>8. u \in Nat /\ k <= u /\ u <= k
      BY <3>5, <3>6, <3>7
    <3>9. u = k
      BY SMT, <2>0, <3>8
    <3> QED
      BY <1>7, <2>2, <3>4, <3>7, <3>9
  <2>3. CASE ~ (k >= limit) /\ j(k) # n
    <3>1. PICK v : v = j(k)
      OBVIOUS
    <3>2. v \in 0 .. n /\ v # n /\ k + v \in bitmap
      BY <2>0, <2>3, <3>1, FirstTakenIs
    <3> DEFINE t == NextIndex(k, v)
    <3>3. t \in k + 1 .. m /\ t \in S
      BY <1>1, <1>8, <2>3, <3>1
    <3>4. f[k] = f[t] /\ P(t)
      BY <1>7, <2>3, <3>1, <3>3
    <3>5. ASSUME NEW x \in k .. limit - 1, x \notin t .. limit - 1 PROVE ~ Fits(x, n)
      <4>1. k + v \in Run(x, n)
        BY SMT, <2>0, <3>2, <3>5 DEF Run, NextIndex
      <4> QED
        BY <3>2, <4>1 DEF Fits
    <3>6. \A x \in t .. limit - 1 : x \in k .. limit - 1
      BY SMT, <2>0, <3>2 DEF NextIndex
    <3>7. F(k) = F(t)
      BY <3>5, <3>6 DEF FitsFrom
    <3> QED
      BY <3>4, <3>7
  <2> QED
    BY <2>1, <2>2, <2>3
<1>9. 0 .. m \subseteq S
  <2>1. \A k \in 0 .. m : (\A l \in k + 1 .. m : l \in S) => k \in S
    BY <1>8
  <2> HIDE DEF S
  <2> QED
    BY <1>0, <2>1, DownwardInduction
<1>10. i \in 0 .. m
  BY SMT DEF m
<1>11. P(i)
  BY <1>9, <1>10
<1> QED
  BY <1>6, <1>11

(* The loops of pmm_alloc find what module Pmm says they find, for every    *)
(* memory map, every bitmap the allocator reaches and every request         *)
(* (pmm.c:91-134).                                                          *)
THEOREM LoopsAreNextFit == Spec => []SearchIsNextFit
<1>1. PmmInv => SearchIsNextFit
  <2> SUFFICES ASSUME PmmInv, NEW n \in Counts, Called(n)
               PROVE  Search(n) = IF Candidates(n) = {} THEN Null ELSE Min(Candidates(n))
    BY DEF SearchIsNextFit
  <2> DEFINE s == last_search_index
             A == FitsFrom(s, TotalPages - n, n)
             B == FitsFrom(0, s, n)
  <2>1. TotalPages \in Nat /\ n \in Nat \ {0} /\ s \in 0 .. TotalPages
    BY MemoryMap, PmmAssumption DEF PmmInv, PmmTypeOK
  <2>2. TotalPages - n \in Int /\ TotalPages - n <= TotalPages /\ s \in Int /\ s <= TotalPages
        /\ 0 \in 0 .. TotalPages /\ s \in Nat
    BY SMT, <2>1
  <2>3. /\ Loop(s, TotalPages - n, n) = IF A = {} THEN Null ELSE Min(A)
        /\ Loop(0, s, n) = IF B = {} THEN Null ELSE Min(B)
    BY <2>1, <2>2, LoopIs
  <2>4. Forward(n) = A /\ Wrapped(n) = B
    BY DEF FitsFrom, Forward, Wrapped
  <2>5. ASSUME A # {} PROVE Min(A) # Null
    <3>1. Min(A) \in A
      BY <2>2, <2>5, FitsFromNat, MinIsLeast
    <3>2. PICK x : x = Min(A)
      OBVIOUS
    <3>3. x \in s .. TotalPages - n - 1 /\ Fits(x, n)
      BY <3>1, <3>2 DEF FitsFrom
    <3>4. x \in Page /\ x \in Run(x, n)
      BY SMT, <2>1, <3>3 DEF Page, Run
    <3>5. x \notin bitmap
      BY <3>3, <3>4 DEF Fits
    <3>6. x \notin Low
      BY <3>4, <3>5, ClearIsHigh
    <3> QED
      BY <3>2, <3>4, <3>6, PmmAssumption
  <2> HIDE DEF A, B
  <2> QED
    BY <2>3, <2>4, <2>5 DEF Search, Candidates
<1> QED
  BY <1>1, PmmInductive, PTL

-----------------------------------------------------------------------------
(* Division with remainder, by which sizes are rounded up (heap.c:29), a    *)
(* fact at a time as the provers find them.                                 *)
LEMMA DivMod ==
  ASSUME NEW a \in Nat \ {0}, NEW x \in Nat
  PROVE  x \div a \in Nat /\ x % a \in Nat /\ x % a < a /\ x = a * (x \div a) + (x % a)
<1>1. x = a * (x \div a) + (x % a)
  BY SMT
<1>2. x \div a \in Int
  BY SMT
<1>3. x \div a >= 0
  BY SMT
<1>4. x % a \in Nat
  BY SMT
<1>5. x % a < a
  BY SMT
<1>6. x \div a \in Nat
  BY SMT, <1>2, <1>3
<1> QED
  BY <1>1, <1>4, <1>5, <1>6

(* Multiples of the alignment (heap.c:29).                                  *)
LEMMA AlignedIs ==
  ASSUME NEW a \in Nat \ {0}, NEW x \in Nat
  PROVE  x % a = 0 <=> \E q \in Nat : x = a * q
<1>1. ASSUME x % a = 0 PROVE \E q \in Nat : x = a * q
  <2>1. x \div a \in Nat
    BY DivMod
  <2>2. x = a * (x \div a)
    BY SMT, <1>1
  <2> QED
    BY <2>1, <2>2
<1>2. ASSUME NEW q \in Nat, x = a * q PROVE x % a = 0
  BY SMT, <1>2
<1> QED
  BY <1>1, <1>2

(* Multiples add up to multiples: a size and a header stay aligned          *)
(* (heap.c:35-36).                                                          *)
LEMMA AlignedSum ==
  ASSUME NEW a \in Nat \ {0}, NEW x \in Nat, NEW y \in Nat, x % a = 0, y % a = 0
  PROVE  (x + y) % a = 0
<1>1. PICK p \in Nat : x = a * p
  BY AlignedIs
<1>2. PICK q \in Nat : y = a * q
  BY AlignedIs
<1>3. x + y = a * (p + q) /\ p + q \in Nat /\ x + y \in Nat
  BY SMT, <1>1, <1>2
<1> QED
  BY <1>3, AlignedIs

(* Rounding up gives the next multiple (heap.c:29).                         *)
LEMMA RoundUp ==
  ASSUME NEW n \in Nat
  PROVE  Round(n) \in Nat /\ Round(n) >= n /\ Round(n) % Align = 0
<1>0. Align \in Nat \ {0}
  BY HeapAssumption
<1> DEFINE m == n + Align - 1
           q == m \div Align
<1>1. m \in Nat /\ m = n + Align - 1
  BY SMT, <1>0
<1> HIDE DEF m
<1>2. q \in Nat /\ m = Align * q + (m % Align) /\ m % Align \in Nat /\ m % Align < Align
  BY <1>0, <1>1, DivMod
<1>3. Round(n) = q * Align
  BY DEF Round, m
<1> HIDE DEF q
<1>4. q * Align \in Nat /\ q * Align = Align * q
  BY SMT, <1>0, <1>2
<1>5. q * Align >= n
  BY SMT, <1>0, <1>1, <1>2, <1>4
<1> QED
  BY <1>0, <1>2, <1>3, <1>4, <1>5, AlignedIs

-----------------------------------------------------------------------------
(* Lists of blocks that follow each other without a gap up to e. *)
BlockState == [addr : Nat, size : Nat, free : BOOLEAN]
LaidOut(bs, e) ==
  /\ bs \in Seq(BlockState) /\ Len(bs) > 0
  /\ bs[1].addr = 0 /\ End(bs[Len(bs)]) = e
  /\ \A k \in 1 .. Len(bs) - 1 : bs[k + 1].addr = End(bs[k])
(* No two free blocks are neighbours; b is a block of bs in use. *)
NoFreePair(bs) == \A k \in 1 .. Len(bs) - 1 : ~ (bs[k].free /\ bs[k + 1].free)
Used(bs, b) == ~ b.free /\ \E k \in 1 .. Len(bs) : bs[k] = b

(* A list of blocks and its elements: what the walk over the list reads     *)
(* (heap.c:31-51, 70-78).                                                   *)
LEMMA Elements ==
  ASSUME NEW bs \in Seq(BlockState)
  PROVE  /\ Len(bs) \in Nat
         /\ \A k \in 1 .. Len(bs) : bs[k] \in BlockState
         /\ \A k \in 1 .. Len(bs) : /\ bs[k].addr \in Nat /\ bs[k].size \in Nat /\ bs[k].free \in BOOLEAN
                                    /\ End(bs[k]) \in Nat /\ bs[k].addr < End(bs[k])
<1>1. Len(bs) \in Nat /\ \A k \in 1 .. Len(bs) : bs[k] \in BlockState
  BY SMT
<1>2. ASSUME NEW b \in BlockState
      PROVE /\ b.addr \in Nat /\ b.size \in Nat /\ b.free \in BOOLEAN
            /\ End(b) \in Nat /\ b.addr < End(b)
  <2>1. b.addr \in Nat /\ b.size \in Nat /\ b.free \in BOOLEAN
    BY DEF BlockState
  <2>2. Header \in Nat \ {0}
    BY HeapAssumption
  <2> QED
    BY SMT, <2>1, <2>2 DEF End
<1> QED
  BY <1>1, <1>2

(* A block ends before any later one begins, and all end by e               *)
(* (heap.c:34-42, 72-74).                                                   *)
LEMMA Ordered ==
  ASSUME NEW bs, NEW e, LaidOut(bs, e)
  PROVE  /\ \A i, j \in 1 .. Len(bs) : i < j => End(bs[i]) <= bs[j].addr
         /\ \A i \in 1 .. Len(bs) : End(bs[i]) <= e
<1>1. bs \in Seq(BlockState) /\ Len(bs) \in Nat /\ Len(bs) > 0
  BY Elements DEF LaidOut
<1> DEFINE S == {j \in Nat : j \in 1 .. Len(bs) => \A i \in 1 .. Len(bs) : i < j => End(bs[i]) <= bs[j].addr}
<1>2. 0 \in S
  BY SMT
<1>3. ASSUME NEW j \in Nat, j \in S PROVE j + 1 \in S
  <2> SUFFICES ASSUME j + 1 \in 1 .. Len(bs), NEW i \in 1 .. Len(bs), i < j + 1
               PROVE End(bs[i]) <= bs[j + 1].addr
    BY SMT
  <2>1. j \in 1 .. Len(bs) /\ j \in 1 .. Len(bs) - 1
    BY SMT, <1>1
  <2>2. bs[j + 1].addr = End(bs[j])
    BY <2>1 DEF LaidOut
  <2>3. bs[j].addr \in Nat /\ End(bs[j]) \in Nat /\ End(bs[i]) \in Nat /\ bs[j].addr < End(bs[j])
    BY <1>1, <2>1, Elements
  <2>4. CASE i = j
    BY SMT, <2>2, <2>3, <2>4
  <2>5. CASE i < j
    <3>1. End(bs[i]) <= bs[j].addr
      BY <1>3, <2>1, <2>5
    <3> QED
      BY SMT, <2>2, <2>3, <3>1
  <2> QED
    BY SMT, <2>4, <2>5
<1> HIDE DEF S
<1>4. Nat \subseteq S
  BY <1>2, <1>3, NatInductive
<1>5. \A i, j \in 1 .. Len(bs) : i < j => End(bs[i]) <= bs[j].addr
  <2>1. \A j \in 1 .. Len(bs) : j \in Nat
    BY SMT
  <2> QED
    BY <1>4, <2>1 DEF S
<1>6. ASSUME NEW i \in 1 .. Len(bs) PROVE End(bs[i]) <= e
  <2> DEFINE n == Len(bs)
  <2>1. n \in 1 .. n /\ (i = n \/ i < n)
    BY SMT, <1>1
  <2>2. End(bs[n]) = e /\ End(bs[i]) \in Nat /\ bs[n].addr \in Nat /\ End(bs[n]) \in Nat /\ bs[n].addr < End(bs[n])
    BY <1>1, <2>1, Elements DEF LaidOut
  <2> HIDE DEF n
  <2>3. CASE i = n
    BY SMT, <2>2, <2>3
  <2>4. CASE i < n
    <3>1. End(bs[i]) <= bs[n].addr
      BY <1>5, <2>1, <2>4 DEF n
    <3> QED
      BY SMT, <2>2, <3>1
  <2> QED
    BY <2>1, <2>3, <2>4
<1> QED
  BY <1>5, <1>6

(* The address tells blocks apart (heap.c:61).                              *)
LEMMA OneBlockAt ==
  ASSUME NEW bs, NEW e, LaidOut(bs, e), NEW i \in 1 .. Len(bs), NEW j \in 1 .. Len(bs),
         bs[i].addr = bs[j].addr
  PROVE  i = j
<1>1. /\ bs[i].addr \in Nat /\ End(bs[i]) \in Nat /\ bs[i].addr < End(bs[i])
      /\ bs[j].addr \in Nat /\ End(bs[j]) \in Nat /\ bs[j].addr < End(bs[j])
  BY Elements DEF LaidOut
<1>2. (i < j => End(bs[i]) <= bs[j].addr) /\ (j < i => End(bs[j]) <= bs[i].addr)
  BY Ordered
<1> QED
  BY SMT, <1>1, <1>2

-----------------------------------------------------------------------------
(* Where blocks may begin (heap.c:29).                                      *)
OnGrid(x) == x % Align = 0
Aligned(bs) == \A k \in 1 .. Len(bs) : OnGrid(bs[k].addr)

(* The next block begins on the grid when this one does (heap.c:35).        *)
LEMMA GridSum ==
  ASSUME NEW x \in Nat, NEW y \in Nat, OnGrid(x), OnGrid(y)
  PROVE  OnGrid(x + y)
  BY HeapAssumption, AlignedSum DEF OnGrid

(* Where a block ends that two were merged into (heap.c:72-74).             *)
LEMMA MergedEnd ==
  ASSUME NEW a \in Nat, NEW s \in Nat, NEW t \in Nat, NEW h \in Nat
  PROVE  a + h + (s + t + h) = (a + h + s) + h + t
  BY SMT

(* The same for a block that is split (heap.c:34-42).                       *)
LEMMA SplitAt ==
  ASSUME NEW a \in Nat, NEW z \in Nat, NEW s \in Nat, NEW h \in Nat, NEW l \in Nat, z > s + h + l
  PROVE  /\ a + h + s \in Nat /\ z - s - h \in Nat
         /\ (a + h + s) + h + (z - s - h) = a + h + z
  BY SMT

(* One round of the merging loop (heap.c:72-77).                            *)
LEMMA AbsorbKeeps ==
  ASSUME NEW d, NEW c \in BlockState, LaidOut(d, c.addr), NoFreePair(d), Aligned(d),
         OnGrid(c.addr)
  PROVE  /\ LaidOut(Absorb(d, c), End(c)) /\ NoFreePair(Absorb(d, c)) /\ Aligned(Absorb(d, c))
         /\ \A b : Used(Absorb(d, c), b) <=> Used(d, b) \/ (b = c /\ ~ c.free)
<1> DEFINE n == Len(d)
<1>0. Header \in Nat \ {0} /\ c.addr \in Nat /\ c.size \in Nat /\ c.free \in BOOLEAN
  BY HeapAssumption DEF BlockState
<1>1. /\ d \in Seq(BlockState) /\ n \in Nat /\ n > 0 /\ n \in 1 .. n /\ d # <<>>
      /\ \A k \in 1 .. n : d[k] \in BlockState
  <2>1. d \in Seq(BlockState) /\ n \in Nat /\ n > 0 /\ \A k \in 1 .. n : d[k] \in BlockState
    BY Elements DEF LaidOut
  <2>2. n \in 1 .. n
    BY SMT, <2>1
  <2>3. d # <<>>
    BY SMT, <2>1
  <2> QED
    BY <2>1, <2>2, <2>3
<1>2. d[n].addr \in Nat /\ d[n].size \in Nat /\ End(d[n]) = c.addr
  BY <1>1 DEF LaidOut, BlockState
<1>3. CASE d[n].free /\ c.free
  <2> DEFINE m == Merge(d[n], c)
             a == [d EXCEPT ![n] = m]
  <2>1. Absorb(d, c) = a
    BY <1>1, <1>3 DEF Absorb
  <2>2. /\ m.addr = d[n].addr /\ m.size = d[n].size + c.size + Header /\ m.free = TRUE
    BY DEF Merge, Block
  <2>3. m \in BlockState
    <3>1. d[n].size + c.size + Header \in Nat
      BY SMT, <1>0, <1>2
    <3> QED
      BY <1>2, <3>1 DEF Merge, Block, BlockState
  <2>4. End(m) = End(c)
    <3>1. c.addr = d[n].addr + Header + d[n].size
      BY <1>2 DEF End
    <3>2. End(m) = d[n].addr + Header + (d[n].size + c.size + Header) /\ End(c) = c.addr + Header + c.size
      BY <2>2 DEF End
    <3>3. Header \in Nat
      BY <1>0
    <3>4. d[n].addr + Header + (d[n].size + c.size + Header)
            = (d[n].addr + Header + d[n].size) + Header + c.size
      BY SMTT(30), <1>0, <1>2, <3>3, MergedEnd
    <3> QED
      BY <3>1, <3>2, <3>4
  <2> HIDE DEF m
  <2>5. a \in Seq(BlockState) /\ Len(a) = n /\ a[n] = m /\ \A k \in 1 .. n : k # n => a[k] = d[k]
    BY SMT, <1>1, <2>3
  <2> HIDE DEF a
  <2>6. \A k \in 1 .. n : a[k].addr = d[k].addr
    BY <2>2, <2>5
  <2>7. \A k \in 1 .. n - 1 : k \in 1 .. n /\ k # n /\ k + 1 \in 1 .. n
    BY SMT, <1>1
  <2>8. LaidOut(a, End(c))
    <3>1. 1 \in 1 .. n
      BY SMT, <1>1
    <3>2. a[1].addr = 0
      BY <2>6, <3>1 DEF LaidOut
    <3>3. ASSUME NEW k \in 1 .. n - 1 PROVE a[k + 1].addr = End(a[k])
      BY <2>5, <2>6, <2>7 DEF LaidOut
    <3> QED
      BY <1>1, <2>4, <2>5, <3>2, <3>3 DEF LaidOut
  <2>9. NoFreePair(a)
    <3> SUFFICES ASSUME NEW k \in 1 .. n - 1, a[k].free, a[k + 1].free PROVE FALSE
      BY <2>5 DEF NoFreePair
    <3>1. d[k].free
      BY <2>5, <2>7
    <3>2. d[k + 1].free
      BY <1>3, <2>5, <2>7
    <3> QED
      BY <3>1, <3>2 DEF NoFreePair
  <2>10. Aligned(a)
    BY <2>5, <2>6 DEF Aligned
  <2>11. ASSUME NEW b PROVE Used(a, b) <=> Used(d, b) \/ (b = c /\ ~ c.free)
    <3>1. ~ b.free => \A k \in 1 .. n : a[k] = b <=> d[k] = b
      BY <1>3, <2>2, <2>5
    <3> QED
      BY <1>3, <2>5, <3>1 DEF Used
  <2> QED
    BY <2>1, <2>8, <2>9, <2>10, <2>11
<1>4. CASE ~ (d[n].free /\ c.free)
  <2> DEFINE a == Append(d, c)
  <2>1. Absorb(d, c) = a
    BY <1>4 DEF Absorb
  <2>2. a \in Seq(BlockState) /\ Len(a) = n + 1 /\ a[n + 1] = c /\ \A k \in 1 .. n : a[k] = d[k]
    BY SMT, <1>1
  <2> HIDE DEF a
  <2>3. /\ n + 1 > 0 /\ 1 \in 1 .. n
        /\ \A k \in 1 .. (n + 1) - 1 : k \in 1 .. n /\ (k = n \/ (k \in 1 .. n - 1 /\ k + 1 \in 1 .. n))
        /\ \A k \in 1 .. n + 1 : k = n + 1 \/ k \in 1 .. n
        /\ \A k \in 1 .. n : k \in 1 .. n + 1
        /\ n + 1 \in 1 .. n + 1
    BY SMT, <1>1
  <2>4. LaidOut(a, End(c))
    <3>1. a[1].addr = 0
      BY <2>2, <2>3 DEF LaidOut
    <3>2. ASSUME NEW k \in 1 .. (n + 1) - 1 PROVE a[k + 1].addr = End(a[k])
      <4>1. CASE k = n
        BY <1>1, <1>2, <2>2, <4>1
      <4>2. CASE k \in 1 .. n - 1 /\ k + 1 \in 1 .. n
        BY <2>2, <2>3, <4>2 DEF LaidOut
      <4> QED
        BY <2>3, <4>1, <4>2
    <3> QED
      BY <2>2, <2>3, <3>1, <3>2 DEF LaidOut
  <2>5. NoFreePair(a)
    <3> SUFFICES ASSUME NEW k \in 1 .. (n + 1) - 1, a[k].free, a[k + 1].free PROVE FALSE
      BY <2>2 DEF NoFreePair
    <3>1. CASE k = n
      BY <1>1, <1>4, <2>2, <3>1
    <3>2. CASE k \in 1 .. n - 1 /\ k + 1 \in 1 .. n
      BY <2>2, <2>3, <3>2 DEF NoFreePair
    <3> QED
      BY <2>3, <3>1, <3>2
  <2>6. Aligned(a)
    <3> SUFFICES ASSUME NEW k \in 1 .. n + 1 PROVE OnGrid(a[k].addr)
      BY <2>2 DEF Aligned
    <3> QED
      BY <2>2, <2>3 DEF Aligned
  <2>7. ASSUME NEW b PROVE Used(a, b) <=> Used(d, b) \/ (b = c /\ ~ c.free)
    BY <2>2, <2>3 DEF Used
  <2> QED
    BY <2>1, <2>4, <2>5, <2>6, <2>7
<1> QED
  BY <1>3, <1>4

(* Coalesce is a recursive function; f is that function up to block n. *)
IsCoalesced(f, bs, n) ==
  f = [k \in 0 .. n |-> IF k = 0 THEN <<>> ELSE Absorb(f[k - 1], bs[k])]

(* The loop of kfree takes the list block by block (heap.c:70-78).          *)
LEMMA CoalescedStep ==
  ASSUME NEW f, NEW bs, NEW n \in Nat, IsCoalesced(f, bs, n)
  PROVE  f[0] = <<>> /\ \A k \in 1 .. n : f[k] = Absorb(f[k - 1], bs[k])
<1>1. \A k \in 0 .. n : f[k] = IF k = 0 THEN <<>> ELSE Absorb(f[k - 1], bs[k])
  BY DEF IsCoalesced
<1>2. 0 \in 0 .. n /\ \A k \in 1 .. n : k \in 0 .. n /\ k # 0
  BY SMT
<1> QED
  BY <1>1, <1>2

(* There is such a function for every list (heap.c:70-78).                  *)
LEMMA CoalescedSome ==
  ASSUME NEW bs, NEW n \in Nat
  PROVE \E f : IsCoalesced(f, bs, n)
<1> DEFINE S == {k \in Nat : \E f : IsCoalesced(f, bs, k)}
<1>1. 0 \in S
  <2> DEFINE f == [k \in 0 .. 0 |-> <<>>]
  <2>1. 0 .. 0 = {0}
    BY SMT
  <2>2. IsCoalesced(f, bs, 0)
    BY <2>1 DEF IsCoalesced
  <2> QED
    BY <2>2
<1>2. ASSUME NEW k \in Nat, k \in S PROVE k + 1 \in S
  <2>1. PICK f : IsCoalesced(f, bs, k)
    BY <1>2
  <2> DEFINE g == [j \in 0 .. k + 1 |-> IF j = k + 1 THEN Absorb(f[k], bs[k + 1]) ELSE f[j]]
             G(j) == IF j = 0 THEN <<>> ELSE Absorb(g[j - 1], bs[j])
  <2>2. ASSUME NEW j \in 0 .. k + 1 PROVE g[j] = G(j)
    <3>1. CASE j = k + 1
      <4>1. k \in 0 .. k + 1 /\ k # k + 1 /\ j - 1 = k /\ j # 0
        BY SMT, <3>1
      <4>2. g[k] = f[k] /\ g[j] = Absorb(f[k], bs[k + 1])
        BY <3>1, <4>1
      <4> QED
        BY <3>1, <4>1, <4>2
    <3>2. CASE j # k + 1
      <4>1. j \in 0 .. k
        BY SMT, <3>2
      <4>2. g[j] = f[j]
        BY <3>2
      <4>3. CASE j = 0
        BY <2>1, <4>2, <4>3, CoalescedStep
      <4>4. CASE j # 0
        <5>1. j \in 1 .. k /\ j - 1 \in 0 .. k + 1 /\ j - 1 # k + 1
          BY SMT, <4>1, <4>4
        <5>2. g[j - 1] = f[j - 1] /\ f[j] = Absorb(f[j - 1], bs[j])
          BY SMT, <2>1, <5>1, CoalescedStep
        <5> QED
          BY <4>2, <4>4, <5>2
      <4> QED
        BY <4>3, <4>4
    <3> QED
      BY <3>1, <3>2
  <2>3. g = [j \in 0 .. k + 1 |-> g[j]]
    OBVIOUS
  <2>4. IsCoalesced(g, bs, k + 1)
    <3> HIDE DEF g
    <3> QED
      BY <2>2, <2>3 DEF IsCoalesced
  <2>5. k + 1 \in Nat
    BY SMT
  <2> QED
    BY <2>4, <2>5
<1> HIDE DEF S
<1>3. Nat \subseteq S
  BY <1>1, <1>2, NatInductive
<1> QED
  BY <1>3 DEF S

(* The merging loop of kfree from end to end (heap.c:70-78).                *)
LEMMA CoalesceKeeps ==
  ASSUME NEW bs, NEW e, LaidOut(bs, e), Aligned(bs)
  PROVE  /\ LaidOut(Coalesce(bs), e) /\ NoFreePair(Coalesce(bs)) /\ Aligned(Coalesce(bs))
         /\ \A b : Used(Coalesce(bs), b) <=> Used(bs, b)
<1> DEFINE N == Len(bs)
<1>1. /\ bs \in Seq(BlockState) /\ N \in Nat /\ N > 0
      /\ \A k \in 1 .. N : bs[k] \in BlockState /\ bs[k].free \in BOOLEAN
  BY Elements DEF LaidOut
<1> DEFINE f == CHOOSE h : IsCoalesced(h, bs, N)
<1>2. IsCoalesced(f, bs, N)
  BY <1>1, CoalescedSome
<1>3. Coalesce(bs) = f[N]
  BY DEF Coalesce, IsCoalesced
<1> HIDE DEF f, N
<1>4. f[0] = <<>> /\ \A k \in 1 .. N : f[k] = Absorb(f[k - 1], bs[k])
  BY <1>1, <1>2, CoalescedStep
<1> DEFINE P(n) == /\ LaidOut(f[n], End(bs[n])) /\ NoFreePair(f[n]) /\ Aligned(f[n])
                   /\ \A b : Used(f[n], b) <=> ~ b.free /\ \E k \in 1 .. n : bs[k] = b
           S == {n \in Nat : n \in 1 .. N => P(n)}
<1>5. 0 \in S
  BY SMT
<1>6. ASSUME NEW n \in Nat, n \in S PROVE n + 1 \in S
  <2> SUFFICES ASSUME n + 1 \in 1 .. N PROVE P(n + 1)
    <3> HIDE DEF P
    <3> QED
      BY SMT
  <2> DEFINE c == bs[n + 1]
  <2>1. (n + 1) - 1 = n /\ f[n + 1] = Absorb(f[n], c)
    <3>1. (n + 1) - 1 = n
      BY SMT
    <3> QED
      BY <1>4, <3>1
  <2>2. c \in BlockState /\ OnGrid(c.addr)
    BY <1>1 DEF Aligned, N
  <2>3. CASE n = 0
    <3>1. f[1] = <<c>> /\ c = bs[1] /\ n + 1 = 1
      <4>1. n + 1 = 1 /\ 0 + 1 = 1
        BY SMT, <2>3
      <4>2. f[1] = Append(<<>>, c)
        BY <1>4, <2>1, <2>3, <4>1 DEF Absorb
      <4>3. Append(<<>>, c) = <<c>>
        BY SMT
      <4> QED
        BY <4>1, <4>2, <4>3
    <3> HIDE DEF c
    <3>2. <<c>> \in Seq(BlockState) /\ Len(<<c>>) = 1 /\ <<c>>[1] = c /\ 1 > 0 /\ 1 .. 1 - 1 = {} /\ 1 .. 1 = {1}
      BY SMT, <2>2
    <3>3. c.addr = 0
      BY <3>1 DEF LaidOut
    <3>4. LaidOut(<<c>>, End(c))
      BY <3>2, <3>3 DEF LaidOut
    <3>5. NoFreePair(<<c>>) /\ Aligned(<<c>>)
      BY <2>2, <3>2 DEF NoFreePair, Aligned
    <3>6. ASSUME NEW b PROVE Used(<<c>>, b) <=> ~ b.free /\ \E k \in 1 .. 1 : bs[k] = b
      BY <3>1, <3>2 DEF Used
    <3> QED
      BY <3>1, <3>4, <3>5, <3>6
  <2>4. CASE n # 0
    <3>1. n \in 1 .. N /\ n \in 1 .. N - 1 /\ \A k : k \in 1 .. n + 1 <=> k \in 1 .. n \/ k = n + 1
      BY SMT, <1>1, <2>4
    <3>2. P(n)
      BY <1>6, <3>1
    <3>3. c.addr = End(bs[n])
      BY <3>1 DEF LaidOut, N
    <3>4. /\ LaidOut(f[n + 1], End(c)) /\ NoFreePair(f[n + 1]) /\ Aligned(f[n + 1])
          /\ \A b : Used(f[n + 1], b) <=> Used(f[n], b) \/ (b = c /\ ~ c.free)
      BY SMT, <2>1, <2>2, <3>2, <3>3, AbsorbKeeps
    <3>5. ASSUME NEW b PROVE Used(f[n + 1], b) <=> ~ b.free /\ \E k \in 1 .. n + 1 : bs[k] = b
      BY <3>1, <3>2, <3>4
    <3> QED
      BY <3>4, <3>5
  <2> QED
    BY <2>3, <2>4
<1>7. P(N)
  <2> HIDE DEF S
  <2>1. Nat \subseteq S
    BY <1>5, <1>6, NatInductive
  <2>2. N \in 1 .. N
    BY SMT, <1>1
  <2> HIDE DEF P
  <2> QED
    BY <1>1, <2>1, <2>2 DEF S
<1>8. End(bs[N]) = e
  BY DEF LaidOut, N
<1>9. \A b : Used(f[N], b) <=> Used(bs, b)
  BY <1>7 DEF Used, N
<1> QED
  BY <1>3, <1>7, <1>8, <1>9

-----------------------------------------------------------------------------
(* Block k of a list replaced by the blocks of m. *)
Spliced(bs, k, m) == SubSeq(bs, 1, k - 1) \o m \o SubSeq(bs, k + 1, Len(bs))
InPlaceOf(a, bs, k, m) ==
  /\ a \in Seq(BlockState) /\ Len(a) = Len(bs) - 1 + Len(m)
  /\ \A i \in 1 .. k - 1 : a[i] = bs[i]
  /\ \A i \in 1 .. Len(m) : a[k - 1 + i] = m[i]
  /\ \A i \in k + 1 .. Len(bs) : a[i - 1 + Len(m)] = bs[i]

(* What a list is after one of its blocks was replaced (heap.c:35-42).      *)
LEMMA SplicedIs ==
  ASSUME NEW bs \in Seq(BlockState), NEW k \in 1 .. Len(bs), NEW m \in Seq(BlockState)
  PROVE  InPlaceOf(Spliced(bs, k, m), bs, k, m)
<1> DEFINE l == SubSeq(bs, 1, k - 1)
           r == SubSeq(bs, k + 1, Len(bs))
           p == l \o m
           a == p \o r
<1>0. Len(bs) \in Nat /\ k \in Nat /\ Len(m) \in Nat
  BY SMT
<1>1. l \in Seq(BlockState) /\ Len(l) = k - 1 /\ \A i \in 1 .. k - 1 : l[i] = bs[i]
  BY SMT
<1>2. r \in Seq(BlockState) /\ Len(r) = Len(bs) - k /\ \A i \in 1 .. Len(bs) - k : r[i] = bs[k + i]
  BY SMT
<1>3. Spliced(bs, k, m) = a
  BY DEF Spliced
<1> HIDE DEF l, r
<1>4. /\ p \in Seq(BlockState) /\ Len(p) = k - 1 + Len(m)
      /\ \A i \in 1 .. k - 1 : p[i] = l[i]
      /\ \A i \in 1 .. Len(m) : p[k - 1 + i] = m[i]
  <2>1. l \in Seq(BlockState) /\ Len(l) = k - 1
    BY <1>1
  <2>2. p \in Seq(BlockState) /\ Len(p) = k - 1 + Len(m)
    BY SMTT(20), <1>0, <2>1
  <2>3. ASSUME NEW i \in 1 .. k - 1 PROVE p[i] = l[i]
    BY SMT, <1>0, <2>1
  <2>4. ASSUME NEW i \in 1 .. Len(m) PROVE p[k - 1 + i] = m[i]
    BY SMT, <1>0, <2>1
  <2> QED
    BY <2>2, <2>3, <2>4
<1> HIDE DEF p
<1>5. /\ a \in Seq(BlockState) /\ Len(a) = k - 1 + Len(m) + (Len(bs) - k)
      /\ \A i \in 1 .. k - 1 + Len(m) : a[i] = p[i]
      /\ \A i \in 1 .. Len(bs) - k : a[k - 1 + Len(m) + i] = r[i]
  <2>1. /\ p \in Seq(BlockState) /\ Len(p) = k - 1 + Len(m)
        /\ r \in Seq(BlockState) /\ Len(r) = Len(bs) - k
    BY <1>2, <1>4
  <2>2. a \in Seq(BlockState) /\ Len(a) = k - 1 + Len(m) + (Len(bs) - k)
    <3>1. p \in Seq(BlockState) /\ r \in Seq(BlockState)
      BY <2>1
    <3>2. a \in Seq(BlockState) /\ Len(a) = Len(p) + Len(r)
      BY SMT, <3>1
    <3> QED
      BY <2>1, <3>2
  <2>3. ASSUME NEW i \in 1 .. k - 1 + Len(m) PROVE a[i] = p[i]
    BY SMT, <1>0, <2>1
  <2>4. ASSUME NEW i \in 1 .. Len(bs) - k PROVE a[k - 1 + Len(m) + i] = r[i]
    BY SMTT(20), <1>0, <2>1
  <2> QED
    BY <2>2, <2>3, <2>4
<1> HIDE DEF a
<1>6. Len(a) = Len(bs) - 1 + Len(m)
  BY SMT, <1>0, <1>5
<1>7. ASSUME NEW i \in 1 .. k - 1 PROVE a[i] = bs[i]
  <2>1. i \in 1 .. k - 1 + Len(m)
    BY SMT, <1>0
  <2> QED
    BY <1>1, <1>4, <1>5, <2>1
<1>8. ASSUME NEW i \in 1 .. Len(m) PROVE a[k - 1 + i] = m[i]
  <2>1. k - 1 + i \in 1 .. k - 1 + Len(m)
    BY SMT, <1>0
  <2> QED
    BY <1>4, <1>5, <2>1
<1>9. ASSUME NEW i \in k + 1 .. Len(bs) PROVE a[i - 1 + Len(m)] = bs[i]
  <2>1. i - k \in 1 .. Len(bs) - k /\ k + (i - k) = i
    BY SMT, <1>0
  <2>2. k - 1 + Len(m) + (i - k) = i - 1 + Len(m)
    BY SMT, <1>0
  <2>3. a[k - 1 + Len(m) + (i - k)] = r[i - k] /\ r[i - k] = bs[k + (i - k)]
    BY <1>2, <1>5, <2>1
  <2> QED
    BY <2>1, <2>2, <2>3
<1> QED
  BY <1>3, <1>5, <1>6, <1>7, <1>8, <1>9 DEF InPlaceOf

(* A free block taken, whole or split (heap.c:34-45). *)
LEMMA CarveKeeps ==
  ASSUME NEW bs, NEW e, LaidOut(bs, e), NoFreePair(bs), Aligned(bs),
         NEW k \in 1 .. Len(bs), bs[k].free, NEW s \in Nat, OnGrid(s), s <= bs[k].size
  PROVE  LET a == Spliced(bs, k, Carve(bs[k], s)) IN
         /\ LaidOut(a, e) /\ NoFreePair(a) /\ Aligned(a)
         /\ \E x \in BlockState : /\ ~ x.free /\ x.addr = bs[k].addr /\ s <= x.size
                                  /\ \A u : Used(a, u) <=> Used(bs, u) \/ u = x
<1>b. PICK b : b = bs[k]
  OBVIOUS
<1> DEFINE n == Len(bs)
           m == Carve(b, s)
           a == Spliced(bs, k, m)
<1>0. Header \in Nat \ {0} /\ Slack \in Nat /\ Align \in Nat \ {0} /\ OnGrid(Header)
  BY HeapAssumption DEF OnGrid
<1>1. /\ bs \in Seq(BlockState) /\ n \in Nat /\ n > 0
      /\ \A i \in 1 .. n : bs[i] \in BlockState
      /\ b.addr \in Nat /\ b.size \in Nat /\ b.free = TRUE
  BY <1>b, Elements DEF LaidOut
<1>c. s <= b.size
  BY <1>b
<1>2. OnGrid(b.addr)
  BY <1>b DEF Aligned
<1>3. CASE ~ (b.size > s + Header + Slack)
  <2> DEFINE x == Block(b.addr, b.size, FALSE)
  <2>1. m = <<x>>
    BY <1>3 DEF Carve
  <2>2. x \in BlockState /\ x.addr = b.addr /\ x.size = b.size /\ x.free = FALSE /\ End(x) = End(b)
    BY <1>1 DEF Block, BlockState, End
  <2> HIDE DEF x, m
  <2>3. m \in Seq(BlockState) /\ Len(m) = 1 /\ m[1] = x /\ 1 \in 1 .. 1
    BY SMT, <2>1, <2>2
  <2>4. /\ a \in Seq(BlockState) /\ Len(a) = n - 1 + 1
        /\ \A i \in 1 .. k - 1 : a[i] = bs[i]
        /\ a[k - 1 + 1] = x
        /\ \A i \in k + 1 .. n : a[i - 1 + 1] = bs[i]
    <3>1. bs \in Seq(BlockState) /\ m \in Seq(BlockState)
      BY <1>1, <2>3
    <3>2. InPlaceOf(a, bs, k, m)
      BY <3>1, SplicedIs
    <3> HIDE DEF a
    <3> QED
      BY <2>3, <3>2 DEF InPlaceOf
  <2> HIDE DEF a
  <2>5. Len(a) = n /\ a[k] = x
    <3>1. n - 1 + 1 = n /\ k - 1 + 1 = k
      BY SMT, <1>1
    <3> QED
      BY <2>4, <3>1
  <2>6. ASSUME NEW i \in 1 .. n, i # k PROVE a[i] = bs[i]
    <3>1. i - 1 + 1 = i /\ (i \in 1 .. k - 1 \/ i \in k + 1 .. n)
      BY SMT, <1>1, <2>6
    <3> QED
      BY <2>4, <3>1
  <2>7. \A i \in 1 .. n : a[i].addr = bs[i].addr /\ End(a[i]) = End(bs[i])
    BY <1>b, <2>2, <2>5, <2>6
  <2>8. \A i \in 1 .. n - 1 : i \in 1 .. n /\ i + 1 \in 1 .. n
    BY SMT, <1>1
  <2>9. 1 \in 1 .. n /\ n \in 1 .. n
    BY SMT, <1>1
  <2>10. LaidOut(a, e)
    BY <1>1, <2>4, <2>5, <2>7, <2>8, <2>9 DEF LaidOut
  <2>11. NoFreePair(a)
    BY <2>2, <2>5, <2>6, <2>8 DEF NoFreePair
  <2>12. Aligned(a)
    BY <2>5, <2>7 DEF Aligned
  <2>13. ASSUME NEW u PROVE Used(a, u) <=> Used(bs, u) \/ u = x
    BY <1>b, <1>1, <2>2, <2>5, <2>6 DEF Used
  <2> QED
    BY <1>b, <2>2, <2>10, <2>11, <2>12, <2>13 DEF a, m
<1>4. CASE b.size > s + Header + Slack
  <2> DEFINE x == Block(b.addr, s, FALSE)
             y == Block(b.addr + Header + s, b.size - s - Header, TRUE)
  <2>1. m = <<x, y>>
    BY <1>4 DEF Carve
  <2>2. b.addr + Header + s \in Nat /\ b.size - s - Header \in Nat
    BY <1>0, <1>c, <1>1, <1>4, SplitAt
  <2>3. /\ x \in BlockState /\ x.addr = b.addr /\ x.size = s /\ x.free = FALSE
        /\ y \in BlockState /\ y.addr = b.addr + Header + s /\ y.size = b.size - s - Header /\ y.free = TRUE
    BY <1>1, <2>2 DEF Block, BlockState
  <2>4. End(x) = y.addr /\ End(y) = End(b)
    <3>1. /\ End(x) = x.addr + Header + x.size /\ End(y) = y.addr + Header + y.size
          /\ End(b) = b.addr + Header + b.size
      BY DEF End
    <3> HIDE DEF x, y
    <3> QED
      BY SMTT(30), <1>0, <1>c, <1>1, <1>4, <2>3, <3>1, SplitAt
  <2>5. OnGrid(y.addr)
    <3>1. OnGrid(b.addr + Header) /\ b.addr + Header \in Nat
      <4>1. b.addr + Header \in Nat
        BY SMT, <1>0, <1>1
      <4> QED
        BY <1>0, <1>1, <1>2, <4>1, GridSum
    <3> QED
      BY <1>0, <2>3, <3>1, GridSum
  <2> HIDE DEF x, y, m
  <2>6. m \in Seq(BlockState) /\ Len(m) = 2 /\ m[1] = x /\ m[2] = y /\ 1 \in 1 .. 2 /\ 2 \in 1 .. 2
    <3>1. x \in BlockState /\ y \in BlockState
      BY <2>3
    <3> QED
      BY SMT, <2>1, <3>1
  <2>7. /\ a \in Seq(BlockState) /\ Len(a) = n - 1 + 2
        /\ \A i \in 1 .. k - 1 : a[i] = bs[i]
        /\ a[k - 1 + 1] = x /\ a[k - 1 + 2] = y
        /\ \A i \in k + 1 .. n : a[i - 1 + 2] = bs[i]
    <3>1. bs \in Seq(BlockState) /\ m \in Seq(BlockState)
      BY <1>1, <2>6
    <3>2. InPlaceOf(a, bs, k, m)
      BY <3>1, SplicedIs
    <3> HIDE DEF a
    <3> QED
      BY <2>6, <3>2 DEF InPlaceOf
  <2> HIDE DEF a
  <2>8. Len(a) = n + 1 /\ a[k] = x /\ a[k + 1] = y
    <3>1. n - 1 + 2 = n + 1 /\ k - 1 + 1 = k /\ k - 1 + 2 = k + 1
      BY SMT, <1>1
    <3> QED
      BY <2>7, <3>1
  <2>9. \A i \in k + 1 .. n : a[i + 1] = bs[i]
    <3>1. \A i \in k + 1 .. n : i - 1 + 2 = i + 1
      BY SMT, <1>1
    <3> QED
      BY <2>7, <3>1
  <2>10. LaidOut(a, e)
    <3>1. a[1].addr = 0
      <4>1. CASE k = 1
        BY <1>b, <2>3, <2>8, <4>1 DEF LaidOut
      <4>2. CASE k # 1
        <5>1. 1 \in 1 .. k - 1
          BY SMT, <4>2
        <5> QED
          BY <2>7, <5>1 DEF LaidOut
      <4> QED
        BY <4>1, <4>2
    <3>2. End(a[n + 1]) = e
      <4>1. CASE k = n
        BY <1>b, <2>4, <2>8, <4>1 DEF LaidOut
      <4>2. CASE k # n
        <5>1. n \in k + 1 .. n
          BY SMT, <1>1, <4>2
        <5> QED
          BY <2>9, <5>1 DEF LaidOut
      <4> QED
        BY <4>1, <4>2
    <3>3. ASSUME NEW i \in 1 .. (n + 1) - 1 PROVE a[i + 1].addr = End(a[i])
      <4>1. CASE i < k - 1
        <5>1. i \in 1 .. k - 1 /\ i + 1 \in 1 .. k - 1 /\ i \in 1 .. n - 1
          BY SMT, <1>1, <4>1
        <5> QED
          BY <2>7, <5>1 DEF LaidOut
      <4>2. CASE i = k - 1
        <5>1. i \in 1 .. k - 1 /\ i + 1 = k /\ i \in 1 .. n - 1
          BY SMT, <1>1, <4>2
        <5> QED
          BY <1>b, <2>3, <2>7, <2>8, <5>1 DEF LaidOut
      <4>3. CASE i = k
        BY <2>4, <2>8, <4>3
      <4>4. CASE i = k + 1
        <5>1. i \in k + 1 .. n /\ k \in 1 .. n - 1
          BY SMT, <1>1, <4>4
        <5>2. a[i + 1] = bs[k + 1] /\ bs[k + 1].addr = End(b)
          BY <1>b, <2>9, <4>4, <5>1 DEF LaidOut
        <5> QED
          BY <2>4, <2>8, <4>4, <5>2
      <4>5. CASE i > k + 1
        <5>1. i \in k + 1 .. n /\ i - 1 \in k + 1 .. n /\ (i - 1) + 1 = i /\ i - 1 \in 1 .. n - 1
          BY SMT, <1>1, <4>5
        <5>2. a[i + 1] = bs[i] /\ a[(i - 1) + 1] = bs[i - 1] /\ bs[(i - 1) + 1].addr = End(bs[i - 1])
          BY <2>9, <5>1 DEF LaidOut
        <5> QED
          BY <5>1, <5>2
      <4> QED
        BY SMTT(20), <1>1, <4>1, <4>2, <4>3, <4>4, <4>5
    <3>4. n + 1 > 0
      BY SMT, <1>1
    <3> QED
      BY <2>7, <2>8, <3>1, <3>2, <3>3, <3>4 DEF LaidOut
  <2>11. NoFreePair(a)
    <3> SUFFICES ASSUME NEW i \in 1 .. (n + 1) - 1, a[i].free, a[i + 1].free PROVE FALSE
      BY <2>8 DEF NoFreePair
    <3>1. i # k /\ i + 1 # k
      BY <2>3, <2>8
    <3>2. CASE i < k - 1
      <4>1. i \in 1 .. k - 1 /\ i + 1 \in 1 .. k - 1 /\ i \in 1 .. n - 1
        BY SMT, <1>1, <3>2
      <4> QED
        BY <2>7, <4>1 DEF NoFreePair
    <3>3. CASE i = k + 1
      <4>1. i \in k + 1 .. n /\ k \in 1 .. n - 1
        BY SMT, <1>1, <3>3
      <4>2. a[i + 1] = bs[k + 1] /\ bs[k].free
        BY <1>b, <1>1, <2>9, <3>3, <4>1
      <4> QED
        BY <4>1, <4>2 DEF NoFreePair
    <3>4. CASE i > k + 1
      <4>1. i \in k + 1 .. n /\ i - 1 \in k + 1 .. n /\ (i - 1) + 1 = i /\ i - 1 \in 1 .. n - 1
        BY SMT, <1>1, <3>4
      <4>2. a[i + 1] = bs[i] /\ a[(i - 1) + 1] = bs[i - 1]
        BY <2>9, <4>1
      <4>3. ~ (bs[i - 1].free /\ bs[(i - 1) + 1].free)
        BY <4>1 DEF NoFreePair
      <4> QED
        BY <4>1, <4>2, <4>3
    <3> QED
      BY SMT, <1>1, <3>1, <3>2, <3>3, <3>4
  <2>12. \A i \in 1 .. n + 1 : i \in 1 .. k - 1 \/ i = k \/ i = k + 1 \/ \E j \in k + 1 .. n : i = j + 1
    <3> SUFFICES ASSUME NEW i \in 1 .. n + 1, i \notin 1 .. k - 1, i # k, i # k + 1
                 PROVE \E j \in k + 1 .. n : i = j + 1
      OBVIOUS
    <3>1. i - 1 \in k + 1 .. n /\ i = (i - 1) + 1
      BY SMT, <1>1
    <3> QED
      BY <3>1
  <2>13. /\ \A i \in 1 .. k - 1 : i \in 1 .. n /\ i \in 1 .. n + 1 /\ i # k
         /\ \A i \in k + 1 .. n : i \in 1 .. n /\ i + 1 \in 1 .. n + 1 /\ i # k
         /\ \A i \in 1 .. n : i = k \/ i \in 1 .. k - 1 \/ i \in k + 1 .. n
         /\ k \in 1 .. n + 1
    BY SMT, <1>1
  <2>14. Aligned(a)
    <3> SUFFICES ASSUME NEW i \in 1 .. n + 1 PROVE OnGrid(a[i].addr)
      BY <2>8 DEF Aligned
    <3>1. CASE i \in 1 .. k - 1
      BY <2>7, <2>13, <3>1 DEF Aligned
    <3>2. CASE i = k \/ i = k + 1
      BY <1>2, <2>3, <2>5, <2>8, <3>2
    <3>3. ASSUME NEW j \in k + 1 .. n, i = j + 1 PROVE OnGrid(a[i].addr)
      BY <2>9, <2>13, <3>3 DEF Aligned
    <3> QED
      BY <2>12, <3>1, <3>2, <3>3
  <2>15. ASSUME NEW u PROVE Used(a, u) <=> Used(bs, u) \/ u = x
    <3>1. ASSUME Used(a, u) PROVE Used(bs, u) \/ u = x
      <4>1. ~ u.free /\ \E i \in 1 .. n + 1 : a[i] = u
        BY <2>8, <3>1 DEF Used
      <4>2. PICK i \in 1 .. n + 1 : a[i] = u
        BY <4>1
      <4>3. CASE i \in 1 .. k - 1
        BY <2>7, <2>13, <4>1, <4>2, <4>3 DEF Used
      <4>4. CASE i = k \/ i = k + 1
        BY <2>3, <2>8, <4>1, <4>2, <4>4
      <4>5. ASSUME NEW j \in k + 1 .. n, i = j + 1 PROVE Used(bs, u)
        BY <2>9, <2>13, <4>1, <4>2, <4>5 DEF Used
      <4> QED
        BY <2>12, <4>3, <4>4, <4>5
    <3>2. ASSUME Used(bs, u) PROVE Used(a, u)
      <4>1. ~ u.free /\ \E i \in 1 .. n : bs[i] = u
        BY <3>2 DEF Used
      <4>2. PICK i \in 1 .. n : bs[i] = u
        BY <4>1
      <4>3. i # k
        BY <1>b, <1>1, <4>1, <4>2
      <4>4. \E j \in 1 .. n + 1 : a[j] = u
        BY <2>7, <2>9, <2>13, <4>2, <4>3
      <4> QED
        BY <2>8, <4>1, <4>4 DEF Used
    <3>3. Used(a, x)
      BY <2>3, <2>8, <2>13 DEF Used
    <3> QED
      BY <3>1, <3>2, <3>3
  <2>16. s <= x.size
    BY SMT, <2>3
  <2> QED
    BY <1>b, <2>3, <2>10, <2>11, <2>14, <2>15, <2>16 DEF a, m
<1> QED
  BY <1>3, <1>4

-----------------------------------------------------------------------------
(* The inductive form of HeapInv: what callers hold are the blocks in use,  *)
(* and free memory is in pieces as large as they can be.                    *)
HeapStrong ==
  /\ LaidOut(blocks, Pool) /\ NoFreePair(blocks) /\ Aligned(blocks)
  /\ held \subseteq [ptr : Nat, size : Sizes]
  /\ \A g, h \in held : g.ptr = h.ptr => g = h
  /\ \A h \in held : \E b : Used(blocks, b) /\ h.ptr = b.addr + Header /\ h.size <= b.size
  /\ \A b : Used(blocks, b) => \E h \in held : h.ptr = b.addr + Header
  /\ result \in 0 .. Pool \cup {NULL}

(* A block in use is one of the list, and lies within the pool              *)
(* (heap.c:44-45).                                                          *)
LEMMA UsedBlock ==
  ASSUME NEW bs, LaidOut(bs, Pool), NEW b, Used(bs, b)
  PROVE  /\ b \in BlockState /\ b.addr \in Nat /\ b.size \in Nat
         /\ b.addr + Header \in 0 .. Pool /\ (b.addr + Header) - Header = b.addr
<1>1. PICK k \in 1 .. Len(bs) : bs[k] = b
  BY DEF Used
<1>2. b \in BlockState /\ b.addr \in Nat /\ b.size \in Nat /\ End(b) <= Pool
  BY <1>1, Elements, Ordered DEF LaidOut
<1>3. Header \in Nat /\ Pool \in Nat
  BY HeapAssumption
<1>4. b.addr + Header + b.size <= Pool
  BY <1>2 DEF End
<1>5. \A x, y, z, p \in Nat : x + y + z <= p => x + y \in 0 .. p /\ (x + y) - y = x
  BY SMT
<1> QED
  BY <1>2, <1>3, <1>4, <1>5

(* The pointer that kmalloc returned tells kfree the block (heap.c:45, 61). *)
LEMMA SameBlock ==
  ASSUME NEW bs, LaidOut(bs, Pool), NEW b, NEW c, Used(bs, b), Used(bs, c),
         b.addr + Header = c.addr + Header
  PROVE  b = c
<1>1. b.addr = c.addr
  BY UsedBlock
<1>2. PICK i \in 1 .. Len(bs) : bs[i] = b
  BY DEF Used
<1>3. PICK j \in 1 .. Len(bs) : bs[j] = c
  BY DEF Used
<1> QED
  BY <1>1, <1>2, <1>3, OneBlockAt

(* kmalloc: the first block that is large enough is taken (heap.c:25-55).   *)
LEMMA KmallocKeeps ==
  ASSUME HeapStrong, NEW size \in Sizes, kmalloc(size)
  PROVE  HeapStrong'
<1> DEFINE s == Round(size)
           F == BigEnough(s)
           k == CHOOSE i \in F : \A j \in F : i <= j
<1>1. CASE size = 0 \/ F = {}
  <2>1. result' = NULL /\ UNCHANGED <<blocks, held>>
    BY <1>1 DEF kmalloc
  <2> QED
    BY <2>1 DEF HeapStrong
<1>2. CASE ~ (size = 0 \/ F = {})
  <2>1. /\ blocks' = Spliced(blocks, k, Carve(blocks[k], s))
        /\ held' = held \cup {[ptr |-> blocks[k].addr + Header, size |-> size]}
        /\ result' = blocks[k].addr + Header
    BY <1>2 DEF kmalloc, Spliced
  <2>2. size \in Nat /\ s \in Nat /\ s >= size /\ OnGrid(s)
    BY HeapAssumption, RoundUp DEF OnGrid
  <2> HIDE DEF s
  <2>3. blocks \in Seq(BlockState) /\ DOMAIN blocks = 1 .. Len(blocks) /\ F \in SUBSET Nat
    <3>1. blocks \in Seq(BlockState)
      BY DEF HeapStrong, LaidOut
    <3>2. DOMAIN blocks = 1 .. Len(blocks)
      BY SMT, <3>1
    <3>3. \A i \in 1 .. Len(blocks) : i \in Nat
      BY SMT
    <3> QED
      BY <3>1, <3>2, <3>3 DEF BigEnough
  <2>4. k \in F
    <3>1. \E x \in F : \A y \in F : x <= y
      BY <1>2, <2>3, NatMin
    <3> HIDE DEF F
    <3> QED
      BY <3>1
  <2> HIDE DEF k
  <2>5. k \in 1 .. Len(blocks) /\ blocks[k].free /\ blocks[k].size >= s
    BY <2>3, <2>4 DEF BigEnough
  <2> HIDE DEF F
  <2>6. PICK b : b = blocks[k]
    OBVIOUS
  <2>7. /\ b \in BlockState /\ b.addr \in Nat /\ b.size \in Nat /\ b.free = TRUE
        /\ b.addr + Header \in 0 .. Pool
    <3>1. b \in BlockState /\ b.addr \in Nat /\ b.size \in Nat /\ b.free = TRUE /\ End(b) <= Pool
      BY <2>3, <2>5, <2>6, Elements, Ordered DEF HeapStrong
    <3>2. b.addr + Header + b.size <= Pool
      BY <3>1 DEF End
    <3>3. Header \in Nat /\ Pool \in Nat
      BY HeapAssumption
    <3>4. \A x, y, z, p \in Nat : x + y + z <= p => x + y \in 0 .. p
      BY SMT
    <3> QED
      BY <3>1, <3>2, <3>3, <3>4
  <2>8. s <= b.size
    BY SMT, <2>2, <2>5, <2>6, <2>7
  <2>9. PICK x \in BlockState :
          /\ ~ x.free /\ x.addr = b.addr /\ s <= x.size
          /\ LaidOut(blocks', Pool) /\ NoFreePair(blocks') /\ Aligned(blocks')
          /\ \A u : Used(blocks', u) <=> Used(blocks, u) \/ u = x
    BY ZenonT(40), <2>1, <2>2, <2>5, <2>6, <2>8, CarveKeeps DEF HeapStrong
  <2> DEFINE g == [ptr |-> b.addr + Header, size |-> size]
  <2>10. b.addr + Header \in Nat
    BY SMT, <2>7
  <2>11. g.ptr = b.addr + Header /\ g.size = size /\ g \in [ptr : Nat, size : Sizes]
    BY <2>10
  <2>12. held' = held \cup {g}
    BY <2>1, <2>6
  <2> HIDE DEF g
  <2>13. ASSUME NEW h \in held PROVE h.ptr # g.ptr
    <3> SUFFICES ASSUME h.ptr = b.addr + Header PROVE FALSE
      BY <2>11
    <3>1. PICK u : Used(blocks, u) /\ h.ptr = u.addr + Header
      BY DEF HeapStrong
    <3>2. u.addr = b.addr
      <4>1. u.addr \in Nat /\ Header \in Nat
        BY <3>1, UsedBlock, HeapAssumption DEF HeapStrong
      <4>2. \A v, w, z \in Nat : v + z = w + z => v = w
        BY SMT
      <4> QED
        BY <2>7, <3>1, <4>1, <4>2
    <3>3. PICK i \in 1 .. Len(blocks) : blocks[i] = u
      BY <3>1 DEF Used
    <3>4. i = k
      BY <2>5, <2>6, <3>2, <3>3, OneBlockAt DEF HeapStrong
    <3> QED
      BY <2>6, <2>7, <3>1, <3>3, <3>4 DEF Used
  <2>14. \A h1, h2 \in held' : h1.ptr = h2.ptr => h1 = h2
    BY <2>12, <2>13 DEF HeapStrong
  <2>15. ASSUME NEW h \in held'
         PROVE \E u : Used(blocks', u) /\ h.ptr = u.addr + Header /\ h.size <= u.size
    <3>1. CASE h = g
      <4>1. x.size \in Nat
        BY DEF BlockState
      <4>2. size <= x.size
        BY SMT, <2>2, <2>9, <4>1
      <4> QED
        BY <2>9, <2>11, <3>1, <4>2
    <3>2. CASE h \in held
      BY <2>9, <3>2 DEF HeapStrong
    <3> QED
      BY <2>12, <3>1, <3>2
  <2>16. ASSUME NEW u, Used(blocks', u) PROVE \E h \in held' : h.ptr = u.addr + Header
    <3>1. CASE u = x
      BY <2>9, <2>11, <2>12, <3>1
    <3>2. CASE Used(blocks, u)
      BY <2>12, <3>2 DEF HeapStrong
    <3> QED
      BY <2>9, <2>16, <3>1, <3>2
  <2>17. result' \in 0 .. Pool \cup {NULL}
    BY <2>1, <2>6, <2>7
  <2>18. held' \subseteq [ptr : Nat, size : Sizes]
    BY <2>11, <2>12 DEF HeapStrong
  <2> QED
    BY <2>9, <2>14, <2>15, <2>16, <2>17, <2>18 DEF HeapStrong
<1> QED
  BY <1>1, <1>2

(* kfree: the block is free again and merged with its neighbours            *)
(* (heap.c:57-81).                                                          *)
LEMMA KfreeKeeps ==
  ASSUME HeapStrong, NEW h \in held, kfree(h)
  PROVE  HeapStrong'
<1> DEFINE bs == [k \in DOMAIN blocks |->
                    IF blocks[k].addr = h.ptr - Header
                    THEN [blocks[k] EXCEPT !.free = TRUE] ELSE blocks[k]]
<1>0. LaidOut(blocks, Pool) /\ Aligned(blocks) /\ blocks \in Seq(BlockState)
  BY DEF HeapStrong, LaidOut
<1>1. blocks' = Coalesce(bs) /\ held' = held \ {h} /\ result' = result
  BY DEF kfree
<1>2. PICK b : Used(blocks, b) /\ h.ptr = b.addr + Header
  BY DEF HeapStrong
<1>3. h.ptr - Header = b.addr
  BY <1>0, <1>2, UsedBlock
<1>4. DOMAIN blocks = 1 .. Len(blocks) /\ Len(blocks) \in Nat
  BY SMT, <1>0
<1>5. ASSUME NEW k \in 1 .. Len(blocks)
      PROVE /\ bs[k] \in BlockState /\ bs[k].addr = blocks[k].addr /\ End(bs[k]) = End(blocks[k])
            /\ bs[k].free # TRUE => bs[k] = blocks[k] /\ blocks[k].addr # b.addr
            /\ blocks[k].addr # b.addr => bs[k] = blocks[k]
  <2>1. blocks[k] \in BlockState
    BY <1>0, Elements
  <2>2. CASE blocks[k].addr = b.addr
    <3>1. bs[k] = [blocks[k] EXCEPT !.free = TRUE]
      BY <1>3, <1>4, <2>2
    <3> HIDE DEF bs
    <3>2. /\ bs[k] \in BlockState /\ bs[k].addr = blocks[k].addr /\ bs[k].size = blocks[k].size
          /\ bs[k].free = TRUE
      BY <2>1, <3>1 DEF BlockState
    <3> QED
      BY <2>2, <3>2 DEF End
  <2>3. CASE blocks[k].addr # b.addr
    <3>1. bs[k] = blocks[k]
      BY <1>3, <1>4, <2>3
    <3> HIDE DEF bs
    <3> QED
      BY <2>1, <2>3, <3>1
  <2> QED
    BY <2>2, <2>3
<1>6. bs \in Seq(BlockState) /\ Len(bs) = Len(blocks)
  <2>1. bs = [k \in 1 .. Len(blocks) |-> bs[k]]
    BY <1>4
  <2> HIDE DEF bs
  <2>2. \A k \in 1 .. Len(blocks) : bs[k] \in BlockState
    BY <1>5
  <2> QED
    BY SMT, <1>4, <2>1, <2>2
<1> HIDE DEF bs
<1>7. LaidOut(bs, Pool)
  <2>1. Len(blocks) > 0 /\ 1 \in 1 .. Len(blocks) /\ Len(blocks) \in 1 .. Len(blocks)
    <3>1. Len(blocks) > 0
      BY <1>0 DEF LaidOut
    <3> QED
      BY SMT, <1>4, <3>1
  <2>2. bs[1].addr = 0 /\ End(bs[Len(bs)]) = Pool
    BY <1>0, <1>5, <1>6, <2>1 DEF LaidOut
  <2>3. ASSUME NEW k \in 1 .. Len(bs) - 1 PROVE bs[k + 1].addr = End(bs[k])
    <3>1. k \in 1 .. Len(blocks) /\ k + 1 \in 1 .. Len(blocks) /\ k \in 1 .. Len(blocks) - 1
      <4>1. k \in 1 .. Len(blocks) - 1
        BY <1>6
      <4> QED
        BY SMT, <1>4, <4>1
    <3> QED
      BY <1>0, <1>5, <3>1 DEF LaidOut
  <2> QED
    BY <1>6, <2>1, <2>2, <2>3 DEF LaidOut
<1>8. Aligned(bs)
  BY <1>0, <1>5, <1>6 DEF Aligned
<1>9. ASSUME NEW u PROVE Used(bs, u) <=> Used(blocks, u) /\ u # b
  <2>1. ASSUME Used(bs, u) PROVE Used(blocks, u) /\ u # b
    <3>1. PICK k \in 1 .. Len(blocks) : bs[k] = u
      BY <1>6, <2>1 DEF Used
    <3>2. u.free # TRUE
      BY <2>1 DEF Used
    <3> QED
      BY <1>5, <2>1, <3>1, <3>2 DEF Used
  <2>2. ASSUME Used(blocks, u), u # b PROVE Used(bs, u)
    <3>1. PICK k \in 1 .. Len(blocks) : blocks[k] = u
      BY <2>2 DEF Used
    <3>2. u.addr # b.addr
      BY <1>0, <1>2, <2>2, SameBlock
    <3> QED
      BY <1>5, <1>6, <2>2, <3>1, <3>2 DEF Used
  <2> QED
    BY <2>1, <2>2
<1>10. /\ LaidOut(blocks', Pool) /\ NoFreePair(blocks') /\ Aligned(blocks')
       /\ \A u : Used(blocks', u) <=> Used(blocks, u) /\ u # b
  BY <1>1, <1>7, <1>8, <1>9, CoalesceKeeps
<1>11. ASSUME NEW g \in held'
       PROVE \E u : Used(blocks', u) /\ g.ptr = u.addr + Header /\ g.size <= u.size
  <2>1. g \in held /\ g # h
    BY <1>1
  <2>2. PICK u : Used(blocks, u) /\ g.ptr = u.addr + Header /\ g.size <= u.size
    BY <2>1 DEF HeapStrong
  <2>3. u # b
    BY <1>2, <2>1, <2>2 DEF HeapStrong
  <2> QED
    BY <1>10, <2>2, <2>3
<1>12. ASSUME NEW u, Used(blocks', u) PROVE \E g \in held' : g.ptr = u.addr + Header
  <2>1. Used(blocks, u) /\ u # b
    BY <1>10, <1>12
  <2>2. PICK g \in held : g.ptr = u.addr + Header
    BY <2>1 DEF HeapStrong
  <2>3. g # h
    BY <1>0, <1>2, <2>1, <2>2, SameBlock
  <2> QED
    BY <1>1, <2>2, <2>3
<1>13. /\ held' \subseteq [ptr : Nat, size : Sizes]
       /\ \A g1, g2 \in held' : g1.ptr = g2.ptr => g1 = g2
  BY <1>1 DEF HeapStrong
<1> QED
  BY <1>1, <1>10, <1>11, <1>12, <1>13 DEF HeapStrong

(* One block that is the whole pool (heap.c:16-23). *)
LEMMA HeapFirst == heap_init => HeapStrong
<1> SUFFICES ASSUME heap_init PROVE HeapStrong
  OBVIOUS
<1> DEFINE b == Block(0, Pool - Header, TRUE)
<1>1. blocks = <<b>> /\ held = {} /\ result = NULL
  BY DEF heap_init
<1>2. Header \in Nat \ {0} /\ Pool \in Nat /\ Pool > Header /\ Align \in Nat \ {0}
  BY HeapAssumption
<1>3. 0 \in Nat /\ Pool - Header \in Nat /\ 0 + Header + (Pool - Header) = Pool
  BY SMT, <1>2
<1>4. b \in BlockState /\ b.addr = 0 /\ b.size = Pool - Header /\ b.free = TRUE
  BY <1>3 DEF Block, BlockState
<1>5. End(b) = Pool
  BY <1>3, <1>4 DEF End
<1>6. OnGrid(0)
  BY SMT, <1>2 DEF OnGrid
<1> HIDE DEF b
<1>7. <<b>> \in Seq(BlockState) /\ Len(<<b>>) = 1 /\ <<b>>[1] = b /\ 1 > 0 /\ 1 .. 1 - 1 = {} /\ 1 .. 1 = {1}
  BY SMT, <1>4
<1>8. LaidOut(blocks, Pool) /\ NoFreePair(blocks) /\ Aligned(blocks)
  BY <1>1, <1>4, <1>5, <1>6, <1>7 DEF LaidOut, NoFreePair, Aligned
<1>9. \A u : ~ Used(blocks, u)
  BY SMT, <1>1, <1>4, <1>7 DEF Used
<1> QED
  BY <1>1, <1>8, <1>9 DEF HeapStrong

(* What HeapInv asks for follows (heap.c:25-81).                            *)
LEMMA HeapStrongEnough == HeapStrong => HeapInv
<1> SUFFICES ASSUME HeapStrong PROVE HeapInv
  OBVIOUS
<1>0. /\ LaidOut(blocks, Pool) /\ blocks \in Seq(BlockState) /\ Len(blocks) \in Nat
      /\ DOMAIN blocks = 1 .. Len(blocks)
  <2>1. LaidOut(blocks, Pool) /\ blocks \in Seq(BlockState)
    BY DEF HeapStrong, LaidOut
  <2> QED
    BY SMT, <2>1
<1>1. ASSUME NEW h \in held PROVE h.ptr \in 0 .. Pool /\ h.size \in Sizes /\ h.ptr % Align = 0
  <2>1. PICK b : Used(blocks, b) /\ h.ptr = b.addr + Header
    BY DEF HeapStrong
  <2>2. b.addr \in Nat /\ b.addr + Header \in 0 .. Pool
    BY <1>0, <2>1, UsedBlock
  <2>3. OnGrid(b.addr) /\ OnGrid(Header) /\ Header \in Nat
    BY <2>1, HeapAssumption DEF HeapStrong, Aligned, Used, OnGrid
  <2>4. OnGrid(b.addr + Header)
    BY <2>2, <2>3, GridSum
  <2> QED
    BY <2>1, <2>2, <2>4 DEF HeapStrong, OnGrid
<1>2. HeapTypeOK
  <2>1. ASSUME NEW k \in 1 .. Len(blocks)
        PROVE blocks[k] \in [addr : 0 .. Pool, size : 0 .. Pool, free : BOOLEAN]
    <3>1. blocks[k] \in BlockState /\ blocks[k].addr \in Nat /\ blocks[k].size \in Nat
      BY <1>0, Elements
    <3>2. blocks[k].addr + Header + blocks[k].size <= Pool
      BY <1>0, Ordered DEF End
    <3>3. Header \in Nat /\ Pool \in Nat
      BY HeapAssumption
    <3>4. \A x, y, z, p \in Nat : x + y + z <= p => x \in 0 .. p /\ z \in 0 .. p
      BY SMT
    <3>5. blocks[k].addr \in 0 .. Pool /\ blocks[k].size \in 0 .. Pool
      BY <3>1, <3>2, <3>3, <3>4
    <3> QED
      BY <3>1, <3>5 DEF BlockState
  <2>2. blocks = [k \in 1 .. Len(blocks) |-> blocks[k]]
    BY SMT, <1>0
  <2> DEFINE T == [addr : 0 .. Pool, size : 0 .. Pool, free : BOOLEAN]
  <2>3. blocks \in [1 .. Len(blocks) -> T]
    <3> HIDE DEF T
    <3>1. \A k \in 1 .. Len(blocks) : blocks[k] \in T
      BY <2>1 DEF T
    <3> QED
      BY <2>2, <3>1
  <2>4. blocks \in Seq(T)
    <3> HIDE DEF T
    <3> QED
      BY SMT, <1>0, <2>3
  <2>5. held \subseteq [ptr : 0 .. Pool, size : Sizes]
    BY <1>1 DEF HeapStrong
  <2> QED
    BY <2>4, <2>5 DEF HeapTypeOK, HeapStrong
<1>3. Tiling /\ Coalesced
  BY <1>0 DEF HeapStrong, LaidOut, NoFreePair, Tiling, Coalesced
<1>4. {h.ptr - Header : h \in held} = {blocks[k].addr : k \in {i \in DOMAIN blocks : ~ blocks[i].free}}
  <2>1. ASSUME NEW h \in held
        PROVE \E k \in {i \in DOMAIN blocks : ~ blocks[i].free} : h.ptr - Header = blocks[k].addr
    <3>1. PICK b : Used(blocks, b) /\ h.ptr = b.addr + Header
      BY DEF HeapStrong
    <3>2. h.ptr - Header = b.addr
      BY <1>0, <3>1, UsedBlock
    <3> QED
      BY <1>0, <3>1, <3>2 DEF Used
  <2>2. ASSUME NEW k \in DOMAIN blocks, ~ blocks[k].free
        PROVE \E h \in held : h.ptr - Header = blocks[k].addr
    <3>1. Used(blocks, blocks[k])
      BY <1>0, <2>2 DEF Used
    <3>2. PICK h \in held : h.ptr = blocks[k].addr + Header
      BY <3>1 DEF HeapStrong
    <3> QED
      BY <1>0, <3>1, <3>2, UsedBlock
  <2> QED
    BY SMT, <2>1, <2>2
<1>5. ASSUME NEW h \in held
      PROVE \E k \in DOMAIN blocks : blocks[k].addr = h.ptr - Header /\ blocks[k].size >= h.size
  <2>1. PICK b : Used(blocks, b) /\ h.ptr = b.addr + Header /\ h.size <= b.size
    BY DEF HeapStrong
  <2>2. h.ptr - Header = b.addr /\ b.size \in Nat
    BY <1>0, <2>1, UsedBlock
  <2>3. h.size \in Nat
    BY <1>1, HeapAssumption
  <2>4. b.size >= h.size
    BY SMT, <2>1, <2>2, <2>3
  <2> QED
    BY <1>0, <2>1, <2>2, <2>4 DEF Used
<1>6. HoldersMatch
  BY <1>1, <1>4, <1>5 DEF HoldersMatch, HeapStrong
<1> QED
  BY <1>2, <1>3, <1>6 DEF HeapInv

(* Every call of kmalloc and kfree keeps the heap sound (heap.c:25-81).     *)
LEMMA HeapStep == HeapStrong /\ [HeapNext]_heap_vars => HeapStrong'
<1> SUFFICES ASSUME HeapStrong, [HeapNext]_heap_vars PROVE HeapStrong'
  OBVIOUS
<1>1. CASE UNCHANGED heap_vars
  BY <1>1 DEF heap_vars, HeapStrong
<1> QED
  BY <1>1, KmallocKeeps, KfreeKeeps DEF HeapNext

(* The heap is sound for every size of the pool, of the header and of the   *)
(* requests, through any sequence of kmalloc and kfree: the list tiles the  *)
(* pool, every caller has a block of its own that is large enough and       *)
(* aligned, and no two free blocks are neighbours (heap.c:25-81).           *)
THEOREM HeapSound == HeapSpec => []HeapInv
  BY HeapFirst, HeapStep, HeapStrongEnough, PTL DEF HeapSpec

(* Every byte of the pool lies in a block (heap.c:34-42, 72-74). *)
LEMMA BlockOver ==
  ASSUME NEW bs, NEW e \in Nat, LaidOut(bs, e), NEW a \in Nat, a < e
  PROVE  \E k \in 1 .. Len(bs) : bs[k].addr <= a /\ a < End(bs[k])
<1> DEFINE S == {k \in 1 .. Len(bs) : a < End(bs[k])}
<1>1. bs \in Seq(BlockState) /\ Len(bs) \in Nat /\ Len(bs) > 0 /\ End(bs[Len(bs)]) = e
  BY Elements DEF LaidOut
<1>2. Len(bs) \in S
  BY SMT, <1>1
<1>3. S \in SUBSET Nat /\ S # {}
  <2>1. \A k \in 1 .. Len(bs) : k \in Nat
    BY SMT
  <2> QED
    BY <1>2, <2>1
<1>4. PICK k \in S : \A j \in S : k <= j
  BY <1>3, NatMin
<1>5. k \in 1 .. Len(bs) /\ a < End(bs[k])
  BY <1>4
<1>6. bs[k].addr \in Nat
  BY <1>1, <1>5, Elements
<1>7. CASE k = 1
  <2>1. bs[k].addr = 0
    BY <1>7 DEF LaidOut
  <2>2. bs[k].addr <= a
    BY SMT, <2>1
  <2> QED
    BY <1>5, <2>2
<1>8. CASE k # 1
  <2>1. k - 1 \in 1 .. Len(bs) /\ k - 1 \in 1 .. Len(bs) - 1 /\ (k - 1) + 1 = k /\ ~ (k <= k - 1)
    BY SMT, <1>1, <1>5, <1>8
  <2>2. ~ (a < End(bs[k - 1])) /\ bs[(k - 1) + 1].addr = End(bs[k - 1]) /\ End(bs[k - 1]) \in Nat
    BY <1>1, <1>4, <2>1, Elements DEF LaidOut
  <2>3. bs[k].addr = End(bs[k - 1])
    BY <2>1, <2>2
  <2>4. bs[k].addr <= a
    BY SMT, <2>2, <2>3
  <2> QED
    BY <1>5, <2>4
<1> QED
  BY <1>7, <1>8

(* Where no free block is large enough, a block in use is in the way of     *)
(* every stretch of n bytes and a header (heap.c:32-51).                    *)
LEMMA NothingFits ==
  ASSUME HeapStrong, NEW n \in Nat, BigEnough(n) = {}, NEW a \in 0 .. Pool - Header - n
  PROVE  \E k \in DOMAIN blocks :
           ~ blocks[k].free /\ blocks[k].addr < a + Header + n /\ a < End(blocks[k])
<1>0. Header \in Nat \ {0} /\ Pool \in Nat
  BY HeapAssumption
<1>1. a \in Nat /\ a < Pool /\ a + Header + n <= Pool
  BY SMT, <1>0
<1>2. LaidOut(blocks, Pool) /\ blocks \in Seq(BlockState) /\ Len(blocks) \in Nat
  BY Elements DEF HeapStrong, LaidOut
<1>3. DOMAIN blocks = 1 .. Len(blocks)
  BY SMT, <1>2
<1>4. PICK k \in 1 .. Len(blocks) : blocks[k].addr <= a /\ a < End(blocks[k])
  BY <1>0, <1>1, <1>2, BlockOver
<1>5. PICK x, z \in Nat : x = blocks[k].addr /\ z = blocks[k].size
  BY <1>2, Elements
<1>6. End(blocks[k]) = x + Header + z
  BY <1>5 DEF End
<1>7. CASE ~ blocks[k].free
  <2>1. x < a + Header + n
    BY SMT, <1>0, <1>1, <1>4, <1>5
  <2> QED
    BY <1>3, <1>4, <1>5, <1>7, <2>1
<1>8. CASE blocks[k].free
  <2>1. ~ (z >= n)
    BY <1>3, <1>5, <1>8 DEF BigEnough
  <2>2. x <= a /\ a < x + Header + z
    BY <1>4, <1>5, <1>6
  <2>3. x + Header + z < a + Header + n /\ x + Header + z < Pool
    BY SMT, <1>0, <1>1, <2>1, <2>2
  <2>4. k # Len(blocks)
    <3> SUFFICES ASSUME k = Len(blocks) PROVE FALSE
      OBVIOUS
    <3>1. x + Header + z = Pool
      BY <1>2, <1>6 DEF LaidOut
    <3> QED
      BY SMT, <1>0, <2>3, <3>1
  <2>5. k \in 1 .. Len(blocks) - 1 /\ k + 1 \in 1 .. Len(blocks)
    BY SMT, <1>2, <2>4
  <2>6. ~ blocks[k + 1].free /\ blocks[k + 1].addr = x + Header + z
    BY <1>2, <1>6, <1>8, <2>5 DEF HeapStrong, LaidOut, NoFreePair
  <2>7. blocks[k + 1].addr < End(blocks[k + 1]) /\ End(blocks[k + 1]) \in Nat
    BY <1>2, <2>5, Elements
  <2>8. a < End(blocks[k + 1])
    BY SMTT(20), <1>0, <1>1, <2>2, <2>6, <2>7
  <2> QED
    BY <1>3, <2>3, <2>5, <2>6, <2>8
<1> QED
  BY <1>7, <1>8

(* kmalloc fails only when every stretch of bytes outside the blocks in use *)
(* is too short: merging leaves no free memory in pieces (heap.c:32-54,     *)
(* 70-78).                                                                  *)
THEOREM HeapRefusesOnlyWhenFull == HeapSpec => KmallocFailsOnlyWhenFull
<1> DEFINE A(size) ==
      kmalloc(size) /\ result' = NULL =>
        \A a \in 0 .. Pool - Header - Round(size) :
          \E k \in DOMAIN blocks :
            /\ ~ blocks[k].free
            /\ blocks[k].addr < a + Header + Round(size) /\ a < End(blocks[k])
<1>1. ASSUME HeapStrong PROVE \A size \in Sizes \ {0} : A(size)
  <2> SUFFICES ASSUME NEW size \in Sizes \ {0}, kmalloc(size), result' = NULL,
                      NEW a \in 0 .. Pool - Header - Round(size)
               PROVE  \E k \in DOMAIN blocks :
                        /\ ~ blocks[k].free
                        /\ blocks[k].addr < a + Header + Round(size) /\ a < End(blocks[k])
    OBVIOUS
  <2> DEFINE F == BigEnough(Round(size))
             k == CHOOSE i \in F : \A j \in F : i <= j
  <2>1. blocks \in Seq(BlockState) /\ Round(size) \in Nat /\ Header \in Nat
    BY <1>1, HeapAssumption, RoundUp DEF HeapStrong, LaidOut
  <2>2. ASSUME F # {} PROVE FALSE
    <3>1. result' = blocks[k].addr + Header
      BY <2>2 DEF kmalloc
    <3>2. DOMAIN blocks = 1 .. Len(blocks) /\ \A i \in 1 .. Len(blocks) : i \in Nat
      BY SMT, <2>1
    <3>3. F \in SUBSET Nat
      BY <3>2 DEF BigEnough
    <3>4. \E x \in F : \A y \in F : x <= y
      BY <2>2, <3>3, NatMin
    <3>5. k \in F
      <4> HIDE DEF F
      <4> QED
        BY <3>4
    <3>6. k \in 1 .. Len(blocks)
      BY <3>2, <3>5 DEF BigEnough
    <3> HIDE DEF k
    <3>7. blocks[k].addr \in Nat
      BY <2>1, <3>6, Elements
    <3>8. blocks[k].addr + Header \in Nat
      BY SMT, <2>1, <3>7
    <3> QED
      BY <3>1, <3>8, HeapAssumption
  <2> QED
    BY <1>1, <2>1, <2>2, NothingFits
<1>2. HeapStrong /\ [HeapNext]_heap_vars => HeapStrong'
  BY HeapStep
<1>3. HeapStrong => [\A size \in Sizes \ {0} : A(size)]_heap_vars
  BY <1>1
<1> QED
  BY <1>2, <1>3, HeapFirst, PTL DEF HeapSpec, KmallocFailsOnlyWhenFull

====
