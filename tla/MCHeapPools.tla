---------------------------- MODULE MCHeapPools ----------------------------
(* Three pools in two heaps: the smallest may borrow from the next, which   *)
(* may not borrow from the largest.                                         *)
EXTENDS HeapPools

MCSize == <<3, 4, 9>>
MCEntries == <<2, 2, 1>>
MCBorrow == <<TRUE, FALSE, FALSE>>
MCHeapIndex == <<0, 1, 0>>
MCHeapStart == [h \in Heaps |-> 40 * h + 4]
MCHeapSzs == {[h \in Heaps |-> HeapRequired(h)],
              [h \in Heaps |-> HeapRequired(h) - h]}
MCRequests == {0, 3, 4, 7, 9, 10}
=============================================================================
