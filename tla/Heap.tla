-------------------------------- MODULE Heap --------------------------------
(***************************************************************************)
(* The kernel heap (src/kernel/heap.c): one pool from the page allocator,  *)
(* cut into blocks by headers that form a list in address order; first     *)
(* fit, split on allocation, merge on free.  kmalloc and kfree hold        *)
(* heap_lock with interrupts off, so each call is one action.  Addresses   *)
(* count from the start of the pool.                                       *)
(***************************************************************************)
EXTENDS Integers, Sequences

CONSTANTS
  Pool,     \* bytes of the pool: 1024 * 4096
  Header,   \* sizeof(heap_block_t): 24
  Align,    \* sizes are rounded up to a multiple of this: 8
  Slack,    \* a remainder of at most this many bytes is not split off: 16
  Sizes,    \* the sizes kmalloc is called with
  NULL

ASSUME HeapAssumption ==
  /\ Align \in Nat \ {0} /\ Slack \in Nat
  /\ Header \in Nat \ {0} /\ Header % Align = 0
  /\ Pool \in Nat /\ Pool > Header /\ Pool % Align = 0
  /\ Sizes \subseteq Nat /\ NULL \notin Nat

VARIABLES
  blocks,   \* the list from heap_start: [addr, size, free]
  held,     \* what callers hold: [ptr, size], the size they asked for
  result    \* what the last kmalloc returned

heap_vars == <<blocks, held, result>>

Block(a, s, f) == [addr |-> a, size |-> s, free |-> f]

(* Addresses and sizes stay within the pool (heap.c:34-42, 73). *)
HeapTypeOK ==
  /\ blocks \in Seq([addr : 0 .. Pool, size : 0 .. Pool, free : BOOLEAN])
  /\ held \subseteq [ptr : 0 .. Pool, size : Sizes]
  /\ result \in 0 .. Pool \cup {NULL}

heap_init ==
  /\ blocks = <<Block(0, Pool - Header, TRUE)>>
  /\ held = {}
  /\ result = NULL

-----------------------------------------------------------------------------
Round(s) == ((s + Align - 1) \div Align) * Align

\* Mutant: the header of the block split off is not accounted for.
CarveFat(b, s) ==
  IF b.size > s + Header + Slack
  THEN <<Block(b.addr, s, FALSE), Block(b.addr + Header + s, b.size - s, TRUE)>>
  ELSE <<Block(b.addr, b.size, FALSE)>>

(* A block that is taken, split when enough is left over. *)
Carve(b, s) ==
  IF b.size > s + Header + Slack
  THEN <<Block(b.addr, s, FALSE), Block(b.addr + Header + s, b.size - s - Header, TRUE)>>
  ELSE <<Block(b.addr, b.size, FALSE)>>

BigEnough(s) == {k \in DOMAIN blocks : blocks[k].free /\ blocks[k].size >= s}

kmalloc(size) ==
  LET s == Round(size)
      k == CHOOSE i \in BigEnough(s) : \A j \in BigEnough(s) : i <= j
  IN IF size = 0 \/ BigEnough(s) = {}
     THEN result' = NULL /\ UNCHANGED <<blocks, held>>
     ELSE /\ blocks' = SubSeq(blocks, 1, k - 1) \o Carve(blocks[k], s)
                         \o SubSeq(blocks, k + 1, Len(blocks))
          /\ held' = held \cup {[ptr |-> blocks[k].addr + Header, size |-> size]}
          /\ result' = blocks[k].addr + Header

-----------------------------------------------------------------------------
Merge(b, c) == Block(b.addr, b.size + c.size + Header, TRUE)

(* One round of the merging loop: c joins a free block before it, and the   *)
(* loop stays there to look at the next one.                                *)
Absorb(done, c) ==
  IF done # <<>> /\ done[Len(done)].free /\ c.free
  THEN [done EXCEPT ![Len(done)] = Merge(@, c)] ELSE Append(done, c)

Coalesce(bs) ==
  LET after[n \in 0 .. Len(bs)] == IF n = 0 THEN <<>> ELSE Absorb(after[n - 1], bs[n])
  IN after[Len(bs)]

(* kfree of a pointer kmalloc returned: its header carries the magic.       *)
kfree(h) ==
  /\ h \in held
  /\ blocks' = Coalesce([k \in DOMAIN blocks |->
                           IF blocks[k].addr = h.ptr - Header
                           THEN [blocks[k] EXCEPT !.free = TRUE] ELSE blocks[k]])
  /\ held' = held \ {h}
  /\ UNCHANGED result

HeapNext == (\E size \in Sizes : kmalloc(size)) \/ (\E h \in held : kfree(h))

HeapSpec == heap_init /\ [][HeapNext]_heap_vars

-----------------------------------------------------------------------------
End(b) == b.addr + Header + b.size

(* The list is the memory: blocks follow each other without gap or overlap  *)
(* from the start of the pool to its end, through any sequence of splits    *)
(* and merges (heap.c:34-42, 72-74).                                        *)
Tiling ==
  /\ blocks[1].addr = 0 /\ End(blocks[Len(blocks)]) = Pool
  /\ \A k \in 1 .. Len(blocks) - 1 : blocks[k + 1].addr = End(blocks[k])

(* What callers hold is exactly the blocks in use, each at least as large   *)
(* as asked for and aligned; no two callers share a block.                  *)
HoldersMatch ==
  /\ {h.ptr - Header : h \in held} = {blocks[k].addr : k \in {i \in DOMAIN blocks : ~ blocks[i].free}}
  /\ \A g, h \in held : g.ptr = h.ptr => g = h
  /\ \A h \in held : h.ptr % Align = 0 /\
       \E k \in DOMAIN blocks : blocks[k].addr = h.ptr - Header /\ blocks[k].size >= h.size

(* Free memory is never in two neighbouring blocks: a request fails only    *)
(* when no stretch of free memory is long enough, and when everything has   *)
(* been freed the pool is one block again (heap.c:70-78; the coalescing     *)
(* that heaptest's stage 2 looks for).                                      *)
Coalesced ==
  \A k \in 1 .. Len(blocks) - 1 : ~ (blocks[k].free /\ blocks[k + 1].free)

(* The invariant of the heap: list, memory and holders agree (heap.c).      *)
HeapInv == HeapTypeOK /\ Tiling /\ HoldersMatch /\ Coalesced

(* kmalloc fails only when every stretch of bytes outside the blocks in use *)
(* is too short for the request and its header.                             *)
KmallocFailsOnlyWhenFull ==
  [][\A size \in Sizes \ {0} : kmalloc(size) /\ result' = NULL =>
       \A a \in 0 .. Pool - Header - Round(size) :
         \E k \in DOMAIN blocks :
           /\ ~ blocks[k].free
           /\ blocks[k].addr < a + Header + Round(size) /\ a < End(blocks[k])]_heap_vars
=============================================================================
