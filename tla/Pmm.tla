-------------------------------- MODULE Pmm --------------------------------
(***************************************************************************)
(* The physical page allocator (src/kernel/pmm.c): a bitmap, one bit per   *)
(* page, searched next-fit from where the last search ended.  pmm_alloc    *)
(* and pmm_free hold pmm_lock with interrupts off from end to end, so each *)
(* call is one action.  The search is stated as which page it picks;       *)
(* module PmmSearch has its loops.                                         *)
(***************************************************************************)
EXTENDS Integers, FiniteSets, Sequences, FiniteSetsExt

CONSTANTS
  Descs,        \* the type 7 descriptors of the memory map: [start, pages]
  LowPages,     \* 0x1000000 / 4096, never handed out
  BytesPerPage, \* 4096
  Counts,       \* the sizes pmm_alloc is called with
  Null          \* the pointer 0

PagesOf(d) == d.start .. d.start + d.pages - 1
Usable == UNION {PagesOf(Descs[k]) : k \in DOMAIN Descs}

(* The first two loops of pmm_init: the end of memory, and the first        *)
(* descriptor above the low pages that has room for the bitmap.             *)
TotalPages == Max({Descs[k].start + Descs[k].pages : k \in DOMAIN Descs})
BitmapSize == TotalPages \div 8
BitmapLen == (BitmapSize + BytesPerPage - 1) \div BytesPerPage
HasRoom(d) == d.pages >= BitmapLen /\ d.start >= LowPages
BitmapStart == Descs[Min({k \in DOMAIN Descs : HasRoom(Descs[k])})].start

Page == 0 .. TotalPages - 1
BitmapPages == BitmapStart .. BitmapStart + BitmapLen - 1
Low == {p \in Page : p < LowPages}
Reserved == (Page \ Usable) \cup BitmapPages \cup Low

(* The size is rounded down: the pages of a last, incomplete byte have bits *)
(* that memset does not reach.  Those of usable pages are written later,    *)
(* those of holes never.                                                    *)
LastByte == {p \in Page : p >= 8 * BitmapSize}

(* A memory map has disjoint descriptors and room for the bitmap.  An       *)
(* incomplete byte is in the bitmap's own pages, as it is unless memory     *)
(* ends 1 to 7 pages after a multiple of 8 * 4096; then it is in a page     *)
(* that may be anyone's.  No page above low memory has address 0.           *)
ASSUME PmmAssumption ==
  /\ Descs \in Seq([start : Nat, pages : Nat])
  /\ LowPages \in Nat \ {0} /\ LowPages % 8 = 0 /\ BytesPerPage \in Nat \ {0}
  /\ Counts \subseteq Nat \ {0}
  /\ \A k, l \in DOMAIN Descs : k # l => PagesOf(Descs[k]) \cap PagesOf(Descs[l]) = {}
  /\ \E k \in DOMAIN Descs : HasRoom(Descs[k])
  /\ TotalPages % 8 = 0 \/ BitmapSize % BytesPerPage # 0
  /\ TotalPages > LowPages
  /\ Null \notin Page \ Low

VARIABLES
  bitmap,             \* the pages whose bit is set
  stray,              \* holes of LastByte whose bit was clear in the memory the bitmap got
  free_pages,         \* with its sign: the code's is this one modulo 2^64
  last_search_index,
  live,               \* the allocations not freed yet: [page, count]
  ret                 \* what the last pmm_alloc returned

vars == <<bitmap, stray, free_pages, last_search_index, live, ret>>

Run(i, n) == i .. i + n - 1

(* The index stays within memory (pmm.c:92-134). *)
PmmTypeOK ==
  /\ bitmap \subseteq Page
  /\ stray \subseteq LastByte \ Usable
  /\ free_pages \in Int
  /\ last_search_index \in 0 .. TotalPages
  /\ live \subseteq [page : Page, count : Counts]
  /\ ret \in Page \cup {Null}

-----------------------------------------------------------------------------
(* pmm_init's count: up for each usable page, down for each bitmap page,    *)
(* down for each low page still clear.                                      *)
InitialFree == Cardinality(Usable) - BitmapLen - Cardinality((Usable \cap Low) \ BitmapPages)

Init ==
  /\ stray \in SUBSET (LastByte \ Usable)
  /\ bitmap = Reserved \ stray
  /\ free_pages = InitialFree
  /\ last_search_index = 0
  /\ live = {}
  /\ ret = Null

\* Mutant: only the ends of a run are tested.
FitsEnds(i, n) == i \notin bitmap /\ i + n - 1 \notin bitmap

Fits(i, n) == \A p \in Run(i, n) : p \notin bitmap

\* Mutant: the search does not wrap round.
CandidatesForward(n) == {i \in last_search_index .. TotalPages - n - 1 : Fits(i, n)}

(* The first loop runs from the last index to total_pages - n, which it     *)
(* leaves out; the second from 0 up to the last index.                      *)
Forward(n) == {i \in last_search_index .. TotalPages - n - 1 : Fits(i, n)}
Wrapped(n) == {i \in 0 .. last_search_index - 1 : Fits(i, n)}
Candidates(n) == IF Forward(n) # {} THEN Forward(n) ELSE Wrapped(n)

(* The second loop looks past the end of the bitmap when the last index is  *)
(* within n of it.  A request for more than one page comes from heap_init   *)
(* alone, at boot, when the search is still far from the end.               *)
Called(n) == n \in Counts /\ (n = 1 \/ last_search_index <= TotalPages - n)

Alloc(n) ==
  /\ Called(n)
  /\ IF Candidates(n) # {}
     THEN LET i == Min(Candidates(n)) IN
          /\ bitmap' = bitmap \cup Run(i, n)
          /\ free_pages' = free_pages - n
          /\ last_search_index' = i + n
          /\ live' = live \cup {[page |-> i, count |-> n]}
          /\ ret' = i
     ELSE ret' = Null /\ UNCHANGED <<bitmap, free_pages, last_search_index, live>>
  /\ UNCHANGED stray

(* pmm_free, by a caller that gives back what it got. *)
Free(a) ==
  /\ a \in live
  /\ bitmap' = bitmap \ Run(a.page, a.count)
  /\ free_pages' = free_pages + a.count
  /\ live' = live \ {a}
  /\ UNCHANGED <<last_search_index, ret, stray>>

Next == (\E n \in Counts : Alloc(n)) \/ (\E a \in live : Free(a))

Spec == Init /\ [][Next]_vars

-----------------------------------------------------------------------------
(* No page is given to two owners, and every page given out is RAM that is  *)
(* neither low memory nor the bitmap itself, or a hole of the incomplete    *)
(* last byte whose bit memset did not reach (pmm.c:39, 57, 94-110,          *)
(* 114-132).                                                                *)
NoSharing ==
  /\ \A a \in live : Run(a.page, a.count) \subseteq (Page \ Reserved) \cup stray
  /\ \A a, b \in live : a # b => Run(a.page, a.count) \cap Run(b.page, b.count) = {}

(* The bitmap is exactly the reserved pages, those holes aside, and the     *)
(* live allocations: nothing leaks, nothing is given back early             *)
(* (pmm.c:103-105, 144-147).                                                *)
BitmapExact == bitmap = (Reserved \ stray) \cup UNION {Run(a.page, a.count) : a \in live}

(* free_pages, which the memory getters report, is the number of clear bits *)
(* less those holes, which were never counted; with all pages given out it  *)
(* goes below 0 by them (pmm.c:68, 77, 83, 106, 128, 146).                  *)
Accounting == free_pages + Cardinality(stray) = Cardinality(Page \ bitmap)

(* The invariant of the allocator: bitmap, counter and owners agree         *)
(* (pmm.c:25-150).                                                          *)
PmmInv == PmmTypeOK /\ NoSharing /\ BitmapExact /\ Accounting

(* pmm_alloc returns 0 only when no run of n pages is clear, the very last  *)
(* run of memory aside, which the loop bound leaves out (pmm.c:92, 114).    *)
FailsOnlyWhenFull ==
  [][\A n \in Counts : Alloc(n) /\ ret' = Null =>
       \A i \in 0 .. TotalPages - n - 1 : ~ Fits(i, n)]_vars
=============================================================================
