----------------------------- MODULE PmmSearch -----------------------------
(***************************************************************************)
(* The two search loops of pmm_alloc as they are written, each test and    *)
(* each jump of the index, against the page module Pmm says they pick.     *)
(***************************************************************************)
EXTENDS Pmm

(* The inner loop: the first j whose page is taken, n if there is none.     *)
FirstTaken(i, n) ==
  LET from[j \in 0 .. n] == IF j = n \/ i + j \in bitmap THEN j ELSE from[j + 1]
  IN from[0]

\* Mutant: after a failed test the index jumps one page too far.
NextIndexFar(i, j) == i + j + 2

(* i += j in the body, i++ in the loop header. *)
NextIndex(i, j) == i + j + 1

(* The outer loop from i up to limit: the page found, or Null.              *)
Loop(i, limit, n) ==
  LET from[k \in 0 .. TotalPages + n] ==
        IF k >= limit THEN Null
        ELSE LET j == FirstTaken(k, n) IN IF j = n THEN k ELSE from[NextIndex(k, j)]
  IN from[i]

Search(n) ==
  LET first == Loop(last_search_index, TotalPages - n, n) IN
  IF first # Null THEN first ELSE Loop(0, last_search_index, n)

(* Jumping over the pages before a taken one misses no run: the loops find  *)
(* the lowest fitting run from the last index on, or else the lowest of all *)
(* (pmm.c:91-134).                                                          *)
SearchIsNextFit ==
  \A n \in Counts : Called(n) =>
    Search(n) = IF Candidates(n) = {} THEN Null ELSE Min(Candidates(n))
=============================================================================
