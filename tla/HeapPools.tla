----------------------------- MODULE HeapPools -----------------------------
(***************************************************************************)
(* The memory pools of the script engine (src/src/ajs_heap.c): the heap is *)
(* carved into pools of equal blocks, one free list per pool.  A request   *)
(* is served by the first pool whose blocks are large enough, or by a      *)
(* later one when every pool on the way is exhausted and may borrow.       *)
(*                                                                         *)
(* An address is a natural number.  The free list, threaded in the code    *)
(* through the free blocks, is the sequence of their addresses.            *)
(***************************************************************************)
EXTENDS Integers, Sequences, FiniteSets

CONSTANTS
  NumPools,    \* pools, in ascending order of block size
  Heaps,       \* the separate memory regions that pools are carved from
  Size, Entries, Borrow, HeapIndex,  \* AJS_HeapConfig: one value per pool
  HeapStart,   \* first address of each heap, in heap 0 behind the pool table
  HeapSzs,     \* the sizes a target may have for its heaps: functions on Heaps
  Requests     \* bound: the sizes the engine asks for

AJS_HEAP_POOL_ROUNDING == 4

Pools == 1..NumPools

\* ajs_heap.h asks for pools in ascending order of size; the regions of two heaps
\* are different memory.
ASSUME HeapAssumption ==
  /\ NumPools \in Nat
  /\ Size \in [Pools -> Nat] /\ \A p, q \in Pools : p < q => Size[p] <= Size[q]
  /\ Entries \in [Pools -> Nat] /\ Borrow \in [Pools -> BOOLEAN]
  /\ HeapIndex \in [Pools -> Heaps]
  /\ HeapStart \in [Heaps -> Nat] /\ HeapSzs \subseteq [Heaps -> Nat]
  /\ \A sizes \in HeapSzs, g, h \in Heaps :
       g # h => \/ HeapStart[g] + sizes[g] <= HeapStart[h]
                \/ HeapStart[h] + sizes[h] <= HeapStart[g]
  /\ Requests \subseteq Nat

VARIABLES
  phase,                   \* "down", "init", "ready", "failed"
  heapSz,                  \* bytes AJS_HeapInit may use of each heap
  built,                   \* pools AJS_HeapInit has built
  heapEnd,                 \* end of the carved part of each heap
  startOfPool, endOfPool,  \* the address range of each pool
  freeList,                \* the free blocks of each pool, the next one first
  want,                    \* the blocks handed out: address -> bytes asked for
  use, hwm                 \* per pool: blocks in use, and the most there ever were

vars == <<phase, heapSz, built, heapEnd, startOfPool, endOfPool, freeList, want, use, hwm>>

Held == DOMAIN want
NothingHeld == [a \in {} |-> 0]
NoPool == [p \in Pools |-> 0]

TypeOK ==
  /\ phase \in {"down", "init", "ready", "failed"}
  /\ built \in 0..NumPools
  /\ heapSz \in HeapSzs
  /\ heapEnd \in [Heaps -> Nat]
  /\ startOfPool \in [Pools -> Nat] /\ endOfPool \in [Pools -> Nat]
  /\ freeList \in [Pools -> Seq(Nat)]
  /\ Held \subseteq Nat /\ want \in [Held -> Nat]
  /\ use \in [Pools -> Int] /\ hwm \in [Pools -> Int]

Init ==
  /\ phase = "down" /\ built = 0 /\ heapSz \in HeapSzs
  /\ heapEnd = HeapStart
  /\ startOfPool = NoPool /\ endOfPool = NoPool
  /\ freeList = [p \in Pools |-> <<>>]
  /\ want = NothingHeld
  /\ use = NoPool /\ hwm = NoPool

-----------------------------------------------------------------------------
(* AJS_HeapInit                                                            *)

\* Mutant: sizes are rounded down.
RoundedDown(sz) == sz - (sz % AJS_HEAP_POOL_ROUNDING)

\* A size that is a multiple already grows by a whole unit.
Rounded(sz) == sz + (AJS_HEAP_POOL_ROUNDING - (sz % AJS_HEAP_POOL_ROUNDING))

\* Mutant: the sum is of the sizes before they are rounded.
SumUnrounded(h) ==
  LET sum[p \in 0..NumPools] ==
        IF p = 0 THEN 0
        ELSE sum[p - 1] + (IF HeapIndex[p] = h THEN Entries[p] * Size[p] ELSE 0)
  IN  sum

\* What the loop of AJS_HeapRequired has added up behind each pool, without the
\* pool table that HeapStart accounts for.
RequiredUpTo(h) ==
  LET sum[p \in 0..NumPools] ==
        IF p = 0 THEN 0
        ELSE sum[p - 1] + (IF HeapIndex[p] = h THEN Entries[p] * Rounded(Size[p]) ELSE 0)
  IN  sum

HeapRequired(h) == RequiredUpTo(h)[NumPools]

\* AJS_HeapCreate: AJS_HeapInit clears the pool table of the heap memory.
Create ==
  /\ phase = "down"
  /\ phase' = "init" /\ built' = 0 /\ UNCHANGED heapSz
  /\ heapEnd' = HeapStart
  /\ startOfPool' = NoPool /\ endOfPool' = NoPool
  /\ freeList' = [p \in Pools |-> <<>>]
  /\ use' = NoPool /\ hwm' = NoPool
  /\ UNCHANGED want

\* Mutants: the pool is carved one block too high, and below its start.
CarveHigh(first, n, sz) == [k \in 1..n |-> first + (n - k + 1) * sz]
CarveBelow(first, n, sz) == [k \in 1..n |-> first - k * sz]

\* Each block is put in front of those below it.
Carve(first, n, sz) == [k \in 1..n |-> first + (n - k) * sz]

InitPool ==
  LET p == built + 1
      h == HeapIndex[p]
      sz == Rounded(Size[p])
      first == heapEnd[h]
      last == first + Entries[p] * sz
  IN
  /\ phase = "init" /\ built < NumPools
  /\ IF Entries[p] > 0 /\ last - HeapStart[h] > heapSz[h]
     THEN /\ phase' = "failed"
          /\ UNCHANGED <<built, heapEnd, startOfPool, endOfPool, freeList>>
     ELSE /\ startOfPool' = [startOfPool EXCEPT ![p] = first]
          /\ endOfPool' = [endOfPool EXCEPT ![p] = last]
          /\ freeList' = [freeList EXCEPT ![p] = Carve(first, Entries[p], sz)]
          /\ heapEnd' = [heapEnd EXCEPT ![h] = last]
          /\ built' = p
          /\ UNCHANGED phase
  /\ UNCHANGED <<heapSz, want, use, hwm>>

InitDone ==
  /\ phase = "init" /\ built = NumPools
  /\ phase' = "ready"
  /\ UNCHANGED <<heapSz, built, heapEnd, startOfPool, endOfPool, freeList, want, use, hwm>>

\* AJS_HeapDestroy: the engine is gone, and everything it held.
Destroy ==
  /\ phase \in {"ready", "failed"}
  /\ phase' = "down"
  /\ want' = NothingHeld
  /\ UNCHANGED <<heapSz, built, heapEnd, startOfPool, endOfPool, freeList, use, hwm>>

-----------------------------------------------------------------------------
(* AJS_Alloc, AJS_Free, AJS_Realloc                                        *)

\* The pool whose first free block AJS_Alloc takes, if there is one.
Chosen(sz, p) ==
  /\ sz <= Size[p] /\ freeList[p] # <<>>
  /\ \A q \in 1..p - 1 : sz <= Size[q] => freeList[q] = <<>> /\ Borrow[q]

\* The pool whose address range holds a block.
Within(a, p) == startOfPool[p] <= a /\ a < endOfPool[p]

Without(a) == [b \in Held \ {a} |-> want[b]]
With(m, a, sz) == [b \in DOMAIN m \union {a} |-> IF b = a THEN sz ELSE m[b]]

Larger(m, n) == IF m > n THEN m ELSE n

Alloc(sz) == \E p \in Pools :
  /\ phase = "ready" /\ Chosen(sz, p)
  /\ freeList' = [freeList EXCEPT ![p] = Tail(@)]
  /\ want' = With(want, Head(freeList[p]), sz)
  /\ use' = [use EXCEPT ![p] = @ + 1]
  /\ hwm' = [hwm EXCEPT ![p] = Larger(use[p] + 1, @)]
  /\ UNCHANGED <<phase, heapSz, built, heapEnd, startOfPool, endOfPool>>

Free(a) == \E p \in Pools :
  /\ phase = "ready" /\ a \in Held /\ Within(a, p)
  /\ freeList' = [freeList EXCEPT ![p] = <<a>> \o @]
  /\ want' = Without(a)
  /\ use' = [use EXCEPT ![p] = @ - 1]
  /\ UNCHANGED <<phase, heapSz, built, heapEnd, startOfPool, endOfPool, hwm>>

\* Mutant: any block that is large enough for the new size is kept, larger or not.
KeepsIfHalf(sz, p) == sz <= 2 * Size[p]

\* A block is kept only where a new request of that size would look first.
InPlace(sz, p) == sz <= Size[p] /\ (p > 1 => sz > Size[p - 1])

ReallocInPlace(a, sz) == \E p \in Pools :
  /\ phase = "ready" /\ a \in Held /\ Within(a, p) /\ InPlace(sz, p)
  /\ want' = With(want, a, sz)
  /\ UNCHANGED <<phase, heapSz, built, heapEnd, startOfPool, endOfPool, freeList, use, hwm>>

\* Mutant: the old block is not put on the free list.
LoseOld(lists, p, a) == lists

\* A block goes back to the front of the free list of its pool.
PutBack(lists, p, a) == [lists EXCEPT ![p] = <<a>> \o @]

\* The new block is taken first, so the old one cannot serve as the new.
ReallocMove(a, sz) == \E p, q \in Pools :
  /\ phase = "ready" /\ a \in Held /\ Within(a, p) /\ ~InPlace(sz, p)
  /\ Chosen(sz, q)
  /\ freeList' = PutBack([freeList EXCEPT ![q] = Tail(@)], p, a)
  /\ want' = With(Without(a), Head(freeList[q]), sz)
  /\ hwm' = [hwm EXCEPT ![q] = Larger(use[q] + 1, @)]
  /\ LET taken == [use EXCEPT ![q] = @ + 1] IN use' = [taken EXCEPT ![p] = @ - 1]
  /\ UNCHANGED <<phase, heapSz, built, heapEnd, startOfPool, endOfPool>>

Next ==
  \/ Create \/ InitPool \/ InitDone \/ Destroy
  \/ \E sz \in Requests : Alloc(sz)
  \/ \E a \in Held : Free(a)
  \/ \E a \in Held, sz \in Requests : ReallocInPlace(a, sz) \/ ReallocMove(a, sz)

Spec == Init /\ [][Next]_vars

-----------------------------------------------------------------------------
(* Properties                                                              *)

Up == phase = "ready"
Elements(list) == {list[k] : k \in DOMAIN list}
Distinct(list) == \A j, k \in DOMAIN list : list[j] = list[k] => j = k
OnList(p) == Elements(freeList[p])
HeldFrom(p) == {a \in Held : Within(a, p)}

\* ajs_heap.c never loses a block, links it twice or hands out one that is
\* still free: a free list has no duplicates and only blocks of its own pool
\* that nobody holds.
NoDuplicate == \A p \in Pools : Distinct(freeList[p])

FreeInOwnPool == \A p \in Pools : \A a \in OnList(p) : Within(a, p) /\ a \notin Held

FreeListsSound == NoDuplicate /\ FreeInOwnPool

\* Nothing leaks, through borrowing and resizing: the blocks held from a pool and
\* those on its free list make up the whole pool, and the counters say so.
NothingLeaks == Up => \A p \in Pools :
  /\ Cardinality(HeldFrom(p)) + Len(freeList[p]) = Entries[p]
  /\ use[p] = Cardinality(HeldFrom(p))
  /\ use[p] <= hwm[p] /\ hwm[p] <= Entries[p]

\* What is asked for fits in the block that serves it, also after a resize in
\* place: a block is never smaller than what its holder may write.
EveryBlockFits == \A a \in Held : \E p \in Pools : Within(a, p) /\ want[a] <= Size[p]

\* AJS_HeapRequired and AJS_HeapInit add up the same sizes: the pools of a heap
\* of the required size are built, and what is built never ends behind its heap.
HeapSizesAgree ==
  /\ phase = "failed" => \E h \in Heaps : heapSz[h] < HeapRequired(h)
  /\ \A h \in Heaps : heapEnd[h] <= HeapStart[h] + heapSz[h]

Promise == INSTANCE Allocator WITH mem <- want

\* The pools implement the promise of the memory functions: no two blocks that
\* are held ever overlap.
KeepsPromise == Promise!Spec
=============================================================================
