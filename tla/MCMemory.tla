------------------------------ MODULE MCMemory ------------------------------
(***************************************************************************)
(* The page allocator, the heap and the page tables.  Once the heap has    *)
(* its pool they share nothing but the promise that a page is given out    *)
(* once, so what one does never depends on the others: the run lets them   *)
(* work one at a time, which adds up their state spaces instead of         *)
(* multiplying them.                                                       *)
(*                                                                         *)
(* Twenty pages, eight of them low memory, so the last byte of the bitmap  *)
(* is half used; holes before and in it; one page of bitmap, requests for  *)
(* 1 and 3 pages.  A pool of 32 bytes with headers of 4: requests that     *)
(* need rounding, that split, that take a block whole, and the request for *)
(* 0 bytes.  Two mappers (module MCVmm).                                   *)
(***************************************************************************)
EXTENDS PmmSearch, Heap, MCVmm

MCDescs == << [start |-> 0, pages |-> 6], [start |-> 10, pages |-> 6], [start |-> 17, pages |-> 3] >>
MCNull == -1

(* The mappers of this instance share no slot of the root.                  *)
ASSUME MappersApart == RootsApart

VARIABLE part

MemInit ==
  /\ part \in {"pages", "heap", "tables"}
  /\ Init /\ heap_init /\ VmmInit

MemNext ==
  /\ \/ part = "pages" /\ Next /\ UNCHANGED <<heap_vars, vmm_vars>>
     \/ part = "heap" /\ HeapNext /\ UNCHANGED <<vars, vmm_vars>>
     \/ part = "tables" /\ VmmNext /\ UNCHANGED <<vars, heap_vars>>
  /\ UNCHANGED part

MemSpec == MemInit /\ [][MemNext]_<<part, vars, heap_vars, vmm_vars>>

(* Both allocators refuse a request only when nothing fits: the search      *)
(* wraps round and leaves no run out but the last of memory, and merging    *)
(* leaves no free memory in pieces (pmm.c:91-134, heap.c:44-76).            *)
RefusesOnlyWhenFull == FailsOnlyWhenFull /\ KmallocFailsOnlyWhenFull
=============================================================================
