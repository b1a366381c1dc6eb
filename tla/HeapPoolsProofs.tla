-------------------------- MODULE HeapPoolsProofs --------------------------
(***************************************************************************)
(* Proofs about HeapPools for every configuration of the pools.            *)
(*                                                                         *)
(* FreeListsSound is not inductive: that a block is put back on the list   *)
(* of its own pool needs the address ranges of the pools to be disjoint,   *)
(* which the checks of AJS_HeapInit establish, and that no two blocks      *)
(* overlap needs them to be spaced by the rounded size.                    *)
(***************************************************************************)
EXTENDS HeapPools, Loops, SequenceTheorems, FiniteSetTheorems, TLAPS

Blocks(p) == OnList(p) \union HeldFrom(p)

\* Nothing is handed out unless the pools are built.
HeldOnlyWhenUp ==
  /\ phase # "ready" => Held = {}
  /\ phase = "ready" => built = NumPools

\* A pool that is not built is empty.
UnbuiltEmpty == \A p \in Pools : p > built =>
  freeList[p] = <<>> /\ startOfPool[p] = 0 /\ endOfPool[p] = 0

\* The carved part of each heap stays within its region.
CarvedWithinHeap == \A h \in Heaps :
  HeapStart[h] <= heapEnd[h] /\ heapEnd[h] <= HeapStart[h] + heapSz[h]

\* A pool lies in the carved part of its heap.
PoolCarved(p) ==
  /\ startOfPool[p] <= endOfPool[p]
  /\ HeapStart[HeapIndex[p]] <= startOfPool[p]
  /\ endOfPool[p] <= heapEnd[HeapIndex[p]]

PoolsCarved == \A p \in 1..built : PoolCarved(p)

\* The ranges of two pools are disjoint.
RangesDisjoint == \A p, q \in 1..built :
  p # q => endOfPool[p] <= startOfPool[q] \/ endOfPool[q] <= startOfPool[p]

\* Two addresses of blocks of pool p that leave room for a block each.
Apart(p, a, b) == a + Rounded(Size[p]) <= b \/ b + Rounded(Size[p]) <= a

\* The blocks of a pool are spaced by its rounded size and end within it.
Spaced == \A p \in Pools : \A a, b \in Blocks(p) :
  /\ a + Rounded(Size[p]) <= endOfPool[p]
  /\ a # b => Apart(p, a, b)

IInv ==
  /\ TypeOK
  /\ HeldOnlyWhenUp
  /\ UnbuiltEmpty
  /\ CarvedWithinHeap
  /\ PoolsCarved
  /\ RangesDisjoint
  /\ Spaced
  /\ FreeListsSound
  /\ EveryBlockFits

-----------------------------------------------------------------------------
(* Free lists                                                              *)

\* Taking the first block leaves a list of the others.
LEMMA Popped ==
  ASSUME NEW list \in Seq(Nat), list # <<>>, Distinct(list)
  PROVE  /\ Head(list) \in Nat /\ Head(list) \in Elements(list)
         /\ Tail(list) \in Seq(Nat) /\ Distinct(Tail(list))
         /\ Elements(Tail(list)) = Elements(list) \ {Head(list)}
<1>1. /\ Len(list) \in Nat \ {0} /\ DOMAIN list = 1..Len(list)
      /\ Head(list) = list[1] /\ Head(list) \in Nat
      /\ Tail(list) \in Seq(Nat)
      /\ DOMAIN Tail(list) = 1..(Len(list) - 1)
      /\ \A k \in 1..(Len(list) - 1) : Tail(list)[k] = list[k + 1]
  OBVIOUS
<1>2. Head(list) \in Elements(list)
  BY <1>1 DEF Elements
<1>3. Distinct(Tail(list))
  <2> SUFFICES ASSUME NEW j \in 1..(Len(list) - 1), NEW k \in 1..(Len(list) - 1),
                      Tail(list)[j] = Tail(list)[k]
               PROVE  j = k
    BY <1>1 DEF Distinct
  <2>1. list[j + 1] = list[k + 1] /\ j + 1 \in DOMAIN list /\ k + 1 \in DOMAIN list
    BY <1>1
  <2>2. j + 1 = k + 1
    BY <2>1 DEF Distinct
  <2> QED  BY <2>2
<1>4. Elements(Tail(list)) \subseteq Elements(list) \ {Head(list)}
  BY <1>1 DEF Elements, Distinct
<1>5. ASSUME NEW a \in Elements(list) \ {Head(list)}
      PROVE  a \in Elements(Tail(list))
  <2>1. PICK k \in 1..Len(list) : a = list[k]
    BY <1>1 DEF Elements
  <2>2. k - 1 \in 1..(Len(list) - 1) /\ Tail(list)[k - 1] = a
    BY <1>1, <2>1
  <2> QED  BY <1>1, <2>2 DEF Elements
<1> QED  BY <1>1, <1>2, <1>3, <1>4, <1>5

\* A block that is not on a list can be put in front of it.
LEMMA Pushed ==
  ASSUME NEW list \in Seq(Nat), NEW a \in Nat, Distinct(list), a \notin Elements(list)
  PROVE  /\ <<a>> \o list \in Seq(Nat) /\ Distinct(<<a>> \o list)
         /\ Elements(<<a>> \o list) = Elements(list) \union {a}
<1> DEFINE new == <<a>> \o list
<1>1. /\ Len(list) \in Nat /\ DOMAIN list = 1..Len(list)
      /\ new \in Seq(Nat) /\ DOMAIN new = 1..(Len(list) + 1)
      /\ new[1] = a /\ \A k \in 1..Len(list) : new[k + 1] = list[k]
  OBVIOUS
<1>2. \A k \in DOMAIN new : k = 1 \/ (k - 1 \in 1..Len(list) /\ new[k] = list[k - 1])
  BY <1>1
<1> HIDE DEF new
<1>3. Distinct(new)
  <2> SUFFICES ASSUME NEW j \in DOMAIN new, NEW k \in DOMAIN new, new[j] = new[k]
               PROVE  j = k
    BY DEF Distinct
  <2>1. \A i \in 1..Len(list) : list[i] # a
    BY <1>1 DEF Elements
  <2>2. \A i \in DOMAIN new : i = 1 \/ new[i] # a
    BY <1>2, <2>1
  <2>3. CASE j = 1 \/ k = 1
    BY <1>1, <2>2, <2>3
  <2>4. CASE j # 1 /\ k # 1
    <3>1. j - 1 \in DOMAIN list /\ k - 1 \in DOMAIN list /\ list[j - 1] = list[k - 1]
      BY <1>1, <1>2, <2>4
    <3>2. j - 1 = k - 1
      BY <3>1 DEF Distinct
    <3> QED  BY <1>1, <3>2
  <2> QED  BY <2>3, <2>4
<1>4. Elements(new) \subseteq Elements(list) \union {a}
  BY <1>1, <1>2 DEF Elements
<1>5. ASSUME NEW b \in Elements(list) PROVE b \in Elements(new)
  <2>1. PICK k \in 1..Len(list) : b = list[k]
    BY <1>1 DEF Elements
  <2> QED  BY <1>1, <2>1, k + 1 \in DOMAIN new DEF Elements
<1>6. a \in Elements(new)
  BY <1>1, 1 \in DOMAIN new DEF Elements
<1> QED  BY <1>1, <1>3, <1>4, <1>5, <1>6 DEF new

\* Multiplication, as far as the layout of a pool needs it.
LEMMA Multiples ==
  ASSUME NEW m \in Nat, NEW n \in Nat, NEW sz \in Nat, m < n
  PROVE  m * sz + sz <= n * sz
<1>1. PICK d \in Nat : n = m + 1 + d
  <2>1. n - m - 1 \in Nat /\ n = m + 1 + (n - m - 1)  OBVIOUS
  <2> QED  BY <2>1
<1>2. n * sz = m * sz + sz + d * sz
  BY <1>1
<1>3. d * sz \in Nat /\ m * sz \in Nat
  OBVIOUS
<1> QED  BY <1>2, <1>3

\* A carved pool: blocks of sz bytes, next to each other, in front of last.
LEMMA Carved ==
  ASSUME NEW first \in Nat, NEW n \in Nat, NEW sz \in Nat \ {0}
  PROVE  /\ Carve(first, n, sz) \in Seq(Nat)
         /\ Distinct(Carve(first, n, sz))
         /\ first + n * sz \in Nat /\ first <= first + n * sz
         /\ \A a \in Elements(Carve(first, n, sz)) :
              first <= a /\ a + sz <= first + n * sz
         /\ \A a, b \in Elements(Carve(first, n, sz)) :
              a # b => a + sz <= b \/ b + sz <= a
<1> DEFINE list == Carve(first, n, sz)
<1>1. list = [k \in 1..n |-> first + (n - k) * sz]
  BY DEF Carve
<1>2. ASSUME NEW k \in 1..n
      PROVE  list[k] \in Nat /\ first <= list[k] /\ list[k] + sz <= first + n * sz
  <2>1. n - k \in Nat /\ n - k < n  OBVIOUS
  <2>2. (n - k) * sz \in Nat /\ n * sz \in Nat  BY <2>1
  <2>3. (n - k) * sz + sz <= n * sz  BY <2>1, Multiples
  <2>4. list[k] = first + (n - k) * sz  BY <1>1
  <2> QED  BY <2>2, <2>3, <2>4
<1>3. ASSUME NEW j \in 1..n, NEW k \in 1..n, j < k
      PROVE  list[k] + sz <= list[j]
  <2>1. n - j \in Nat /\ n - k \in Nat /\ n - k < n - j  BY <1>3
  <2>2. (n - k) * sz \in Nat /\ (n - j) * sz \in Nat  BY <2>1
  <2>3. (n - k) * sz + sz <= (n - j) * sz  BY <2>1, Multiples
  <2>4. list[k] = first + (n - k) * sz /\ list[j] = first + (n - j) * sz  BY <1>1
  <2> QED  BY <2>2, <2>3, <2>4
<1>4. DOMAIN list = 1..n  BY <1>1
<1>5. list \in Seq(Nat)
  <2>1. list \in [1..n -> Nat]  BY <1>1, <1>2
  <2> QED  BY <2>1
<1> HIDE DEF list
<1>6. n * sz \in Nat  OBVIOUS
<1>7. Distinct(list)
  <2> SUFFICES ASSUME NEW j \in 1..n, NEW k \in 1..n, list[j] = list[k] PROVE j = k
    BY <1>4 DEF Distinct
  <2> QED  BY <1>2, <1>3
<1>8. ASSUME NEW a \in Elements(list), NEW b \in Elements(list), a # b
      PROVE  a + sz <= b \/ b + sz <= a
  <2>1. PICK j \in 1..n : a = list[j]  BY <1>4 DEF Elements
  <2>2. PICK k \in 1..n : b = list[k]  BY <1>4 DEF Elements
  <2>3. j < k \/ k < j  BY <1>8, <2>1, <2>2
  <2> QED  BY <1>3, <2>1, <2>2, <2>3
<1>9. \A a \in Elements(list) : first <= a /\ a + sz <= first + n * sz
  BY <1>2, <1>4 DEF Elements
<1> QED  BY <1>5, <1>6, <1>7, <1>8, <1>9 DEF list

-----------------------------------------------------------------------------
(* The invariant                                                           *)

\* Rounding up a size to a multiple of 8 never makes it smaller.
LEMMA RoundedUp ==
  ASSUME NEW p \in Pools
  PROVE  Size[p] \in Nat /\ Rounded(Size[p]) \in Nat \ {0} /\ Size[p] < Rounded(Size[p])
BY HeapAssumption DEF Rounded, AJS_HEAP_POOL_ROUNDING

\* An address lies in one pool only.
LEMMA OneRange ==
  ASSUME TypeOK, UnbuiltEmpty, RangesDisjoint,
         NEW a \in Nat, NEW p \in Pools, NEW q \in Pools, Within(a, p), Within(a, q)
  PROVE  p = q
<1>1. /\ startOfPool[p] \in Nat /\ endOfPool[p] \in Nat
      /\ startOfPool[q] \in Nat /\ endOfPool[q] \in Nat /\ built \in Nat
  BY DEF TypeOK
<1>2. \A r \in Pools : Within(a, r) => r \in 1..built
  <2> SUFFICES ASSUME NEW r \in Pools, Within(a, r) PROVE r \in 1..built
    OBVIOUS
  <2>1. r \in Nat /\ r >= 1
    BY HeapAssumption DEF Pools
  <2>2. CASE r > built
    <3>1. startOfPool[r] = 0 /\ endOfPool[r] = 0  BY <2>2 DEF UnbuiltEmpty
    <3> QED  BY <3>1 DEF Within
  <2> QED  BY <1>1, <2>1, <2>2
<1> QED  BY <1>1, <1>2 DEF RangesDisjoint, Within

\* Before the pools are built nothing is free, carved or held.
LEMMA InitIInv == Init => IInv
<1> SUFFICES ASSUME Init PROVE IInv
  OBVIOUS
<1> USE HeapAssumption DEF Init
<1>1. Held = {}
  BY DEF Held, NothingHeld
<1>2. \A p \in Pools : freeList[p] = <<>> /\ startOfPool[p] = 0 /\ endOfPool[p] = 0
  BY DEF NoPool
<1>3. \A p \in Pools : Elements(freeList[p]) = {}
  BY <1>2 DEF Elements
<1>4. \A p \in Pools : Blocks(p) = {}
  BY <1>1, <1>3 DEF Blocks, OnList, HeldFrom
<1>5. TypeOK
  BY <1>1 DEF TypeOK, NoPool, NothingHeld, Held
<1>6. HeldOnlyWhenUp /\ UnbuiltEmpty /\ PoolsCarved /\ RangesDisjoint
  BY <1>1, <1>2 DEF HeldOnlyWhenUp, UnbuiltEmpty, PoolsCarved, RangesDisjoint
<1>7. CarvedWithinHeap
  BY DEF CarvedWithinHeap
<1>8. Spaced
  BY <1>4 DEF Spaced
<1>9. FreeListsSound
  BY <1>2, <1>3 DEF FreeListsSound, NoDuplicate, FreeInOwnPool, OnList, Distinct
<1>10. EveryBlockFits
  BY <1>1 DEF EveryBlockFits
<1> QED  BY <1>5, <1>6, <1>7, <1>8, <1>9, <1>10 DEF IInv

layout == <<phase, heapSz, built, heapEnd, startOfPool, endOfPool>>

\* While the pools are up, a step keeps the invariant if it keeps the layout, makes
\* no block of what was none, and keeps the free lists sound and the blocks fitting.
LEMMA LayoutKept ==
  ASSUME IInv, phase = "ready", UNCHANGED layout,
         freeList' \in [Pools -> Seq(Nat)],
         Held' \subseteq Nat, want' \in [Held' -> Nat],
         use' \in [Pools -> Int], hwm' \in [Pools -> Int],
         \A p \in Pools : Blocks(p)' \subseteq Blocks(p),
         FreeListsSound', EveryBlockFits'
  PROVE  IInv'
<1> USE DEF IInv, layout
<1>1. TypeOK'
  BY DEF TypeOK
<1>2. HeldOnlyWhenUp'
  BY DEF HeldOnlyWhenUp
<1>3. UnbuiltEmpty'
  BY HeapAssumption DEF UnbuiltEmpty, HeldOnlyWhenUp, Pools
<1>4. CarvedWithinHeap' /\ PoolsCarved' /\ RangesDisjoint'
  BY DEF CarvedWithinHeap, PoolsCarved, PoolCarved, RangesDisjoint
<1>5. Spaced'
  BY DEF Spaced, Apart
<1> QED  BY <1>1, <1>2, <1>3, <1>4, <1>5

\* Building one more pool.
LEMMA InitPoolIInv == IInv /\ InitPool => IInv'
<1> SUFFICES ASSUME IInv, InitPool PROVE IInv'
  OBVIOUS
<1>0. PICK p \in Pools : p = built + 1
  <2>1. built \in Nat /\ built < NumPools /\ NumPools \in Nat
    BY HeapAssumption DEF IInv, TypeOK, InitPool
  <2> QED  BY <2>1 DEF Pools
<1> DEFINE h == HeapIndex[p]
           sz == Rounded(Size[p])
           first == heapEnd[h]
           last == first + Entries[p] * sz
<1>1. /\ phase = "init" /\ p \in Pools /\ h \in Heaps /\ Held = {}
      /\ first \in Nat /\ Entries[p] \in Nat /\ sz \in Nat \ {0} /\ built \in Nat
      /\ heapSz[h] \in Nat /\ HeapStart[h] \in Nat
  BY <1>0, HeapAssumption, RoundedUp DEF IInv, InitPool, TypeOK, HeldOnlyWhenUp
<1>2. UNCHANGED <<heapSz, want, use, hwm>>
  BY DEF InitPool
<1>3. CASE Entries[p] > 0 /\ last - HeapStart[h] > heapSz[h]
  <2>1. /\ phase' = "failed"
        /\ UNCHANGED <<built, heapEnd, startOfPool, endOfPool, freeList>>
    BY <1>0, <1>3 DEF InitPool
  <2>2. TypeOK' /\ HeldOnlyWhenUp'
    BY <1>1, <1>2, <2>1 DEF IInv, TypeOK, HeldOnlyWhenUp, Held
  <2>3. UnbuiltEmpty' /\ CarvedWithinHeap' /\ PoolsCarved' /\ RangesDisjoint'
    BY <1>2, <2>1 DEF IInv, UnbuiltEmpty, CarvedWithinHeap, PoolsCarved, PoolCarved,
                      RangesDisjoint
  <2>4. \A q \in Pools : Blocks(q)' = Blocks(q)
    BY <1>2, <2>1 DEF Blocks, OnList, HeldFrom, Held, Within
  <2>5. Spaced'
    BY <2>1, <2>4 DEF IInv, Spaced, Apart
  <2>6. FreeListsSound' /\ EveryBlockFits'
    BY <1>2, <2>1 DEF IInv, FreeListsSound, NoDuplicate, FreeInOwnPool, OnList, Held,
                      Within, EveryBlockFits
  <2> QED  BY <2>2, <2>3, <2>5, <2>6 DEF IInv
<1>4. CASE ~(Entries[p] > 0 /\ last - HeapStart[h] > heapSz[h])
  <2> DEFINE list == Carve(first, Entries[p], sz)
  <2>1. /\ startOfPool' = [startOfPool EXCEPT ![p] = first]
        /\ endOfPool' = [endOfPool EXCEPT ![p] = last]
        /\ freeList' = [freeList EXCEPT ![p] = list]
        /\ heapEnd' = [heapEnd EXCEPT ![h] = last]
        /\ built' = p /\ phase' = "init"
    BY <1>0, <1>1, <1>4 DEF InitPool
  <2>2. /\ list \in Seq(Nat) /\ Distinct(list)
        /\ last \in Nat /\ first <= last
        /\ \A a \in Elements(list) : first <= a /\ a + sz <= last
        /\ \A a, b \in Elements(list) : a # b => a + sz <= b \/ b + sz <= a
    BY <1>1, Carved
  <2>3. last <= HeapStart[h] + heapSz[h]
    <3>1. CASE Entries[p] = 0
      <4>1. Entries[p] * sz = 0  BY <1>1, <3>1
      <4>2. last = first  BY <1>1, <4>1
      <4> QED  BY <1>1, <4>2 DEF IInv, CarvedWithinHeap
    <3>2. CASE Entries[p] # 0
      BY <1>1, <1>4, <2>2, <3>2
    <3> QED  BY <3>1, <3>2
  <2> HIDE DEF h, sz, first, last, list
  <2>4. /\ startOfPool'[p] = first /\ endOfPool'[p] = last /\ freeList'[p] = list
        /\ \A q \in Pools \ {p} : /\ startOfPool'[q] = startOfPool[q]
                                  /\ endOfPool'[q] = endOfPool[q]
                                  /\ freeList'[q] = freeList[q]
        /\ heapEnd'[h] = last /\ \A g \in Heaps \ {h} : heapEnd'[g] = heapEnd[g]
    BY <1>1, <2>1 DEF IInv, TypeOK
  <2>5. TypeOK'
    <3>1. built' \in 0..NumPools
      BY <1>1, <2>1, HeapAssumption DEF Pools
    <3> QED  BY <1>1, <1>2, <2>1, <2>2, <3>1 DEF IInv, TypeOK, Held
  <2>6. HeldOnlyWhenUp' /\ Held' = {}
    BY <1>1, <1>2, <2>1 DEF HeldOnlyWhenUp, Held
  <2>7. UnbuiltEmpty'
    <3> SUFFICES ASSUME NEW q \in Pools, q > p
                 PROVE  freeList'[q] = <<>> /\ startOfPool'[q] = 0 /\ endOfPool'[q] = 0
      BY <2>1 DEF UnbuiltEmpty
    <3>1. q > built /\ q # p
      BY <1>0, <1>1, HeapAssumption DEF Pools
    <3> QED  BY <2>4, <3>1 DEF IInv, UnbuiltEmpty
  <2>8. CarvedWithinHeap'
    <3> SUFFICES ASSUME NEW g \in Heaps
                 PROVE HeapStart[g] <= heapEnd'[g] /\ heapEnd'[g] <= HeapStart[g] + heapSz[g]
      BY <1>2 DEF CarvedWithinHeap
    <3>1. HeapStart[g] <= heapEnd[g] /\ heapEnd[g] <= HeapStart[g] + heapSz[g]
      BY DEF IInv, CarvedWithinHeap
    <3> QED  BY <1>1, <2>2, <2>3, <2>4, <3>1 DEF first
  <2>9. PoolsCarved'
    <3> SUFFICES ASSUME NEW q \in 1..p
                 PROVE /\ startOfPool'[q] <= endOfPool'[q]
                       /\ HeapStart[HeapIndex[q]] <= startOfPool'[q]
                       /\ endOfPool'[q] <= heapEnd'[HeapIndex[q]]
      BY <2>1 DEF PoolsCarved, PoolCarved
    <3>1. CASE q = p
      <4>1. HeapStart[h] <= first
        BY <1>1 DEF IInv, CarvedWithinHeap, first
      <4> QED  BY <1>1, <2>2, <2>4, <3>1, <4>1 DEF h
    <3>2. CASE q # p
      <4>1. q \in 1..built /\ q \in Pools \ {p} /\ HeapIndex[q] \in Heaps
        BY <1>0, <1>1, <3>2, HeapAssumption DEF Pools
      <4>2. PoolCarved(q)
        BY <4>1 DEF IInv, PoolsCarved
      <4>3. /\ startOfPool[q] \in Nat /\ endOfPool[q] \in Nat
            /\ heapEnd[HeapIndex[q]] \in Nat
        BY <4>1 DEF IInv, TypeOK
      <4>4. heapEnd[HeapIndex[q]] <= heapEnd'[HeapIndex[q]]
        <5>1. CASE HeapIndex[q] = h  BY <2>2, <2>4, <5>1 DEF first
        <5>2. CASE HeapIndex[q] # h  BY <2>4, <4>1, <4>3, <5>2
        <5> QED  BY <5>1, <5>2
      <4>5. heapEnd'[HeapIndex[q]] \in Nat
        BY <2>5, <4>1 DEF TypeOK
      <4>6. startOfPool'[q] = startOfPool[q] /\ endOfPool'[q] = endOfPool[q]
        BY <2>4, <4>1
      <4> QED  BY <4>2, <4>3, <4>4, <4>5, <4>6 DEF PoolCarved
    <3> QED  BY <3>1, <3>2
  <2>10. RangesDisjoint'
    <3>1. ASSUME NEW q \in 1..built
          PROVE  endOfPool[q] <= first \/ last <= startOfPool[q]
      <4>1. q \in Pools /\ HeapIndex[q] \in Heaps /\ PoolCarved(q)
        BY <1>0, <1>1, HeapAssumption DEF IInv, PoolsCarved, Pools
      <4>2. /\ startOfPool[q] \in Nat /\ endOfPool[q] \in Nat
            /\ heapEnd[HeapIndex[q]] \in Nat
            /\ HeapStart[HeapIndex[q]] \in Nat /\ heapSz[HeapIndex[q]] \in Nat
        BY <4>1, HeapAssumption DEF IInv, TypeOK
      <4>3. CASE HeapIndex[q] = h
        BY <4>1, <4>3 DEF PoolCarved, first
      <4>4. CASE HeapIndex[q] # h
        <5>1. \/ HeapStart[HeapIndex[q]] + heapSz[HeapIndex[q]] <= HeapStart[h]
              \/ HeapStart[h] + heapSz[h] <= HeapStart[HeapIndex[q]]
          BY <1>1, <4>1, <4>4, HeapAssumption DEF IInv, TypeOK
        <5>2. /\ heapEnd[HeapIndex[q]] <= HeapStart[HeapIndex[q]] + heapSz[HeapIndex[q]]
              /\ HeapStart[h] <= first
          BY <1>1, <4>1 DEF IInv, CarvedWithinHeap, first
        <5>3. first \in Nat /\ last \in Nat /\ heapSz[h] \in Nat /\ HeapStart[h] \in Nat
          BY <1>1, <2>2 DEF first
        <5>4. /\ HeapStart[HeapIndex[q]] <= startOfPool[q]
              /\ endOfPool[q] <= heapEnd[HeapIndex[q]]
          BY <4>1 DEF PoolCarved
        <5>5. CASE HeapStart[HeapIndex[q]] + heapSz[HeapIndex[q]] <= HeapStart[h]
          BY <4>2, <5>2, <5>3, <5>4, <5>5
        <5>6. CASE HeapStart[h] + heapSz[h] <= HeapStart[HeapIndex[q]]
          BY <2>3, <4>2, <5>3, <5>4, <5>6
        <5> QED  BY <5>1, <5>5, <5>6
      <4> QED  BY <4>3, <4>4
    <3>2. \A q \in 1..p : q = p \/ (q \in 1..built /\ q \in Pools \ {p})
      BY <1>0, <1>1, HeapAssumption DEF Pools
    <3> QED  BY <1>1, <2>1, <2>4, <3>1, <3>2 DEF IInv, RangesDisjoint
  <2>11. \A q \in Pools \ {p} : Blocks(q)' = OnList(q) /\ Blocks(q) = OnList(q)
    BY <1>1, <2>4, <2>6 DEF Blocks, OnList, HeldFrom, Held
  <2>12. Blocks(p)' = Elements(list)
    BY <1>1, <2>4, <2>6 DEF Blocks, OnList, HeldFrom, Held
  <2>13. Spaced'
    <3>1. \A a, b \in Blocks(p)' : /\ a + Rounded(Size[p]) <= endOfPool'[p]
                                   /\ a # b => Apart(p, a, b)
      BY <2>2, <2>4, <2>12 DEF Apart, sz
    <3>2. \A q \in Pools \ {p} : \A a, b \in Blocks(q)' :
             /\ a + Rounded(Size[q]) <= endOfPool'[q]
             /\ a # b => Apart(q, a, b)
      BY <2>4, <2>11 DEF IInv, Spaced
    <3> QED  BY <3>1, <3>2 DEF Spaced, Apart
  <2>14. FreeListsSound'
    <3>1. NoDuplicate'
      BY <2>2, <2>4 DEF IInv, FreeListsSound, NoDuplicate
    <3>2. FreeInOwnPool'
      <4> SUFFICES ASSUME NEW q \in Pools, NEW a \in Elements(freeList'[q])
                   PROVE  startOfPool'[q] <= a /\ a < endOfPool'[q]
        BY <2>6 DEF FreeInOwnPool, OnList, Within, Held
      <4>1. CASE q = p
        <5>1. a \in Elements(list)  BY <2>4, <4>1
        <5>2. a \in Nat  BY <2>2, <5>1 DEF Elements
        <5> QED  BY <1>1, <2>2, <2>4, <4>1, <5>1, <5>2
      <4>2. CASE q # p
        BY <2>4, <4>2 DEF IInv, FreeListsSound, FreeInOwnPool, OnList, Within
      <4> QED  BY <4>1, <4>2
    <3> QED  BY <3>1, <3>2 DEF FreeListsSound
  <2>15. EveryBlockFits'
    BY <2>6 DEF EveryBlockFits
  <2> QED  BY <2>5, <2>6, <2>7, <2>8, <2>9, <2>10, <2>13, <2>14, <2>15 DEF IInv
<1> QED  BY <1>3, <1>4
-----------------------------------------------------------------------------
(* Blocks taken and put back                                               *)

\* The first free block of a pool is nobody's, and taking it leaves lists of the others.
LEMMA Taken ==
  ASSUME IInv, NEW p \in Pools, freeList[p] # <<>>,
         NEW a, a = Head(freeList[p]),
         NEW lists, lists = [freeList EXCEPT ![p] = Tail(@)]
  PROVE  /\ a \in Nat /\ a \in OnList(p) /\ Within(a, p) /\ a \notin Held
         /\ lists \in [Pools -> Seq(Nat)]
         /\ \A q \in Pools : /\ Distinct(lists[q]) /\ a \notin Elements(lists[q])
                             /\ Elements(lists[q]) \subseteq OnList(q)
<1>1. /\ freeList \in [Pools -> Seq(Nat)] /\ Distinct(freeList[p])
      /\ TypeOK /\ UnbuiltEmpty /\ RangesDisjoint
      /\ \A q \in Pools : Distinct(freeList[q])
      /\ \A q \in Pools : \A b \in OnList(q) : Within(b, q) /\ b \notin Held
  BY DEF IInv, TypeOK, FreeListsSound, NoDuplicate, FreeInOwnPool
<1>2. /\ a \in Nat /\ a \in OnList(p) /\ Tail(freeList[p]) \in Seq(Nat)
      /\ Distinct(Tail(freeList[p]))
      /\ Elements(Tail(freeList[p])) = OnList(p) \ {a}
  BY <1>1, Popped DEF OnList
<1>3. lists[p] = Tail(freeList[p]) /\ \A q \in Pools \ {p} : lists[q] = freeList[q]
  BY <1>1
<1>4. ASSUME NEW q \in Pools
      PROVE  /\ Distinct(lists[q]) /\ a \notin Elements(lists[q])
             /\ Elements(lists[q]) \subseteq OnList(q)
  <2>1. CASE q = p
    BY <1>2, <1>3, <2>1
  <2>2. CASE q # p
    <3>1. lists[q] = freeList[q] /\ Elements(lists[q]) = OnList(q)
      BY <1>3, <2>2 DEF OnList
    <3>2. a \notin OnList(q)
      BY <1>1, <1>2, <2>2, OneRange
    <3> QED  BY <1>1, <3>1, <3>2
  <2> QED  BY <2>1, <2>2
<1>5. lists \in [Pools -> Seq(Nat)]
  BY <1>1, <1>2
<1> QED  BY <1>1, <1>2, <1>4, <1>5

\* A held block is on no list, and can be put on that of its pool.
LEMMA Returned ==
  ASSUME IInv, NEW p \in Pools, NEW a \in Held, Within(a, p),
         NEW lists \in [Pools -> Seq(Nat)],
         \A q \in Pools : Distinct(lists[q]) /\ Elements(lists[q]) \subseteq OnList(q)
  PROVE  /\ [lists EXCEPT ![p] = <<a>> \o @] \in [Pools -> Seq(Nat)]
         /\ \A q \in Pools :
              /\ Distinct([lists EXCEPT ![p] = <<a>> \o @][q])
              /\ Elements([lists EXCEPT ![p] = <<a>> \o @][q])
                   = IF q = p THEN Elements(lists[q]) \union {a} ELSE Elements(lists[q])
<1>1. a \in Nat /\ a \notin OnList(p)
  BY DEF IInv, TypeOK, FreeListsSound, FreeInOwnPool
<1>2. /\ <<a>> \o lists[p] \in Seq(Nat) /\ Distinct(<<a>> \o lists[p])
      /\ Elements(<<a>> \o lists[p]) = Elements(lists[p]) \union {a}
  BY <1>1, Pushed
<1>3. /\ [lists EXCEPT ![p] = <<a>> \o @][p] = <<a>> \o lists[p]
      /\ \A q \in Pools \ {p} : [lists EXCEPT ![p] = <<a>> \o @][q] = lists[q]
  OBVIOUS
<1> QED  BY <1>2, <1>3

-----------------------------------------------------------------------------
(* The steps                                                               *)

\* Creating a heap clears every pool and what was held in it.
LEMMA CreateIInv == IInv /\ Create => IInv'
<1> SUFFICES ASSUME IInv, Create PROVE IInv'
  OBVIOUS
<1> USE HeapAssumption DEF Create
<1>1. Held' = {} /\ phase' = "init" /\ built' = 0
  BY DEF IInv, HeldOnlyWhenUp, Held
<1>2. \A p \in Pools : /\ freeList'[p] = <<>>
                       /\ startOfPool'[p] = 0 /\ endOfPool'[p] = 0
  BY DEF NoPool
<1>3. \A p \in Pools : Elements(freeList'[p]) = {}
  BY <1>2 DEF Elements
<1>4. \A p \in Pools : Blocks(p)' = {}
  BY <1>1, <1>3 DEF Blocks, OnList, HeldFrom
<1>5. TypeOK'
  BY <1>1 DEF IInv, TypeOK, NoPool, Held
<1>6. HeldOnlyWhenUp' /\ UnbuiltEmpty' /\ PoolsCarved' /\ RangesDisjoint'
  BY <1>1, <1>2 DEF HeldOnlyWhenUp, UnbuiltEmpty, PoolsCarved, RangesDisjoint
<1>7. CarvedWithinHeap'
  BY DEF IInv, TypeOK, CarvedWithinHeap
<1>8. Spaced'
  BY <1>4 DEF Spaced
<1>9. FreeListsSound'
  BY <1>2, <1>3 DEF FreeListsSound, NoDuplicate, FreeInOwnPool, OnList, Distinct
<1>10. EveryBlockFits'
  BY <1>1 DEF EveryBlockFits
<1> QED  BY <1>5, <1>6, <1>7, <1>8, <1>9, <1>10 DEF IInv

\* The pools keep their free lists when they are finished or destroyed, and what is
\* held is forgotten if it changes at all.
LEMMA PhaseIInv == IInv /\ (InitDone \/ Destroy) => IInv'
<1> SUFFICES ASSUME IInv, InitDone \/ Destroy PROVE IInv'
  OBVIOUS
<1>1. /\ UNCHANGED <<heapSz, built, heapEnd, startOfPool, endOfPool, freeList, use, hwm>>
      /\ Held' = {} /\ want' \in [Held' -> Nat]
      /\ phase' \in {"ready", "down"} /\ (phase' = "ready" => built = NumPools)
  BY DEF InitDone, Destroy, NothingHeld, Held, IInv, HeldOnlyWhenUp, TypeOK
<1>2. TypeOK' /\ HeldOnlyWhenUp'
  BY <1>1 DEF IInv, TypeOK, HeldOnlyWhenUp
<1>3. UnbuiltEmpty' /\ CarvedWithinHeap' /\ PoolsCarved' /\ RangesDisjoint'
  BY <1>1 DEF IInv, UnbuiltEmpty, CarvedWithinHeap, PoolsCarved, PoolCarved, RangesDisjoint
<1>4. \A p \in Pools : Blocks(p)' \subseteq Blocks(p)
  BY <1>1 DEF Blocks, OnList, HeldFrom
<1>5. Spaced'
  BY <1>1, <1>4 DEF IInv, Spaced, Apart
<1>6. FreeListsSound' /\ EveryBlockFits'
  BY <1>1 DEF IInv, FreeListsSound, NoDuplicate, FreeInOwnPool, OnList, Within, EveryBlockFits
<1> QED  BY <1>2, <1>3, <1>5, <1>6 DEF IInv

\* The block handed out holds what is asked for, wherever it stood before.
LEMMA AllocIInv == ASSUME NEW sz \in Requests PROVE IInv /\ Alloc(sz) => IInv'
<1> SUFFICES ASSUME IInv, Alloc(sz) PROVE IInv'
  OBVIOUS
<1>1. PICK p \in Pools :
        /\ phase = "ready" /\ sz <= Size[p] /\ freeList[p] # <<>>
        /\ freeList' = [freeList EXCEPT ![p] = Tail(@)]
        /\ want' = With(want, Head(freeList[p]), sz)
        /\ use' = [use EXCEPT ![p] = @ + 1]
        /\ hwm' = [hwm EXCEPT ![p] = Larger(use[p] + 1, @)]
        /\ UNCHANGED layout
  BY DEF Alloc, Chosen, layout
<1>2. PICK a : a = Head(freeList[p])
  OBVIOUS
<1>3. /\ a \in Nat /\ a \in OnList(p) /\ Within(a, p) /\ a \notin Held
      /\ freeList' \in [Pools -> Seq(Nat)]
      /\ \A q \in Pools : /\ Distinct(freeList'[q]) /\ a \notin Elements(freeList'[q])
                          /\ Elements(freeList'[q]) \subseteq OnList(q)
  BY <1>1, <1>2, Taken
<1>4. /\ Held' = Held \union {a} /\ want'[a] = sz
      /\ \A b \in Held : want'[b] = want[b]
  BY <1>1, <1>2, <1>3 DEF With, Held
<1>5. Held' \subseteq Nat /\ want' \in [Held' -> Nat]
  BY <1>1, <1>2, <1>3, <1>4, HeapAssumption DEF IInv, TypeOK, With, Held
<1>6. use' \in [Pools -> Int] /\ hwm' \in [Pools -> Int]
  BY <1>1 DEF IInv, TypeOK, Larger
<1>7. \A b, q : Within(b, q)' <=> Within(b, q)
  BY <1>1 DEF Within, layout
<1>8. ASSUME NEW q \in Pools PROVE Blocks(q)' \subseteq Blocks(q)
  <2>1. OnList(q)' \subseteq OnList(q)
    BY <1>3 DEF OnList
  <2>2. HeldFrom(q)' \subseteq HeldFrom(q) \union OnList(q)
    <3>1. ASSUME Within(a, q) PROVE q = p
      BY <1>3, <3>1, OneRange DEF IInv
    <3> QED  BY <1>3, <1>4, <1>7, <3>1 DEF HeldFrom
  <2> QED  BY <2>1, <2>2 DEF Blocks
<1>9. FreeListsSound'
  BY <1>3, <1>4, <1>7 DEF IInv, FreeListsSound, NoDuplicate, FreeInOwnPool, OnList
<1>10. EveryBlockFits'
  BY <1>1, <1>3, <1>4, <1>7 DEF IInv, EveryBlockFits
<1> QED  BY <1>1, <1>3, <1>5, <1>6, <1>8, <1>9, <1>10, LayoutKept

\* AJS_Free puts the block back on the list of the pool its address lies in.
LEMMA FreeIInv == ASSUME NEW a \in Held PROVE IInv /\ Free(a) => IInv'
<1> SUFFICES ASSUME IInv, Free(a) PROVE IInv'
  OBVIOUS
<1>1. PICK p \in Pools :
        /\ phase = "ready" /\ Within(a, p)
        /\ freeList' = [freeList EXCEPT ![p] = <<a>> \o @]
        /\ want' = Without(a)
        /\ use' = [use EXCEPT ![p] = @ - 1] /\ hwm' = hwm
        /\ UNCHANGED layout
  BY DEF Free, layout
<1>2. /\ freeList \in [Pools -> Seq(Nat)]
      /\ \A q \in Pools : Distinct(freeList[q]) /\ Elements(freeList[q]) \subseteq OnList(q)
  BY DEF IInv, TypeOK, FreeListsSound, NoDuplicate, OnList
<1>3. /\ freeList' \in [Pools -> Seq(Nat)]
      /\ \A q \in Pools :
           /\ Distinct(freeList'[q])
           /\ Elements(freeList'[q]) = IF q = p THEN OnList(q) \union {a} ELSE OnList(q)
  BY <1>1, <1>2, Returned DEF OnList
<1>4. Held' = Held \ {a} /\ \A b \in Held' : want'[b] = want[b]
  BY <1>1 DEF Without, Held
<1>5. Held' \subseteq Nat /\ want' \in [Held' -> Nat]
  BY <1>1, <1>4 DEF IInv, TypeOK, Without, Held
<1>6. use' \in [Pools -> Int] /\ hwm' \in [Pools -> Int]
  BY <1>1 DEF IInv, TypeOK
<1>7. \A b, q : Within(b, q)' <=> Within(b, q)
  BY <1>1 DEF Within, layout
<1>8. ASSUME NEW q \in Pools PROVE Blocks(q)' \subseteq Blocks(q)
  <2>1. HeldFrom(q)' \subseteq HeldFrom(q)
    BY <1>4, <1>7 DEF HeldFrom
  <2>2. OnList(q)' \subseteq OnList(q) \union HeldFrom(q)
    BY <1>1, <1>3 DEF OnList, HeldFrom
  <2> QED  BY <2>1, <2>2 DEF Blocks
<1>9. FreeListsSound'
  BY <1>1, <1>3, <1>4, <1>7 DEF IInv, FreeListsSound, NoDuplicate, FreeInOwnPool, OnList
<1>10. EveryBlockFits'
  BY <1>4, <1>7 DEF IInv, EveryBlockFits
<1> QED  BY <1>1, <1>3, <1>5, <1>6, <1>8, <1>9, <1>10, LayoutKept

\* AJS_Realloc keeps a block only when the new size fits the pool it is in.
LEMMA ReallocInPlaceIInv ==
  ASSUME NEW a \in Held, NEW sz \in Requests PROVE IInv /\ ReallocInPlace(a, sz) => IInv'
<1> SUFFICES ASSUME IInv, ReallocInPlace(a, sz) PROVE IInv'
  OBVIOUS
<1>1. PICK p \in Pools :
        /\ phase = "ready" /\ Within(a, p) /\ sz <= Size[p]
        /\ want' = With(want, a, sz)
        /\ UNCHANGED layout /\ UNCHANGED <<freeList, use, hwm>>
  BY DEF ReallocInPlace, InPlace, layout
<1>2. /\ Held' = Held /\ want' \in [Held' -> Nat] /\ want'[a] = sz
      /\ \A b \in Held \ {a} : want'[b] = want[b]
  <2>1. want' = [b \in Held |-> IF b = a THEN sz ELSE want[b]]
    BY <1>1 DEF With, Held
  <2>2. Held' = Held
    BY <2>1 DEF Held
  <2>3. want \in [Held -> Nat] /\ sz \in Nat
    BY HeapAssumption DEF IInv, TypeOK
  <2> QED  BY <2>1, <2>2, <2>3
<1>3. \A b, q : Within(b, q)' <=> Within(b, q)
  BY <1>1 DEF Within, layout
<1>4. \A q \in Pools : Blocks(q)' \subseteq Blocks(q)
  BY <1>1, <1>2, <1>3 DEF Blocks, OnList, HeldFrom
<1>5. FreeListsSound'
  BY <1>1, <1>2, <1>3 DEF IInv, FreeListsSound, NoDuplicate, FreeInOwnPool, OnList
<1>6. EveryBlockFits'
  BY <1>1, <1>2, <1>3 DEF IInv, EveryBlockFits
<1>7. /\ Held' \subseteq Nat /\ freeList' \in [Pools -> Seq(Nat)]
      /\ use' \in [Pools -> Int] /\ hwm' \in [Pools -> Int]
  BY <1>1, <1>2 DEF IInv, TypeOK
<1> QED  BY <1>1, <1>2, <1>4, <1>5, <1>6, <1>7, LayoutKept

\* The new block is taken while the old one is still held, so they differ.
LEMMA ReallocMoveIInv ==
  ASSUME NEW a \in Held, NEW sz \in Requests PROVE IInv /\ ReallocMove(a, sz) => IInv'
<1> SUFFICES ASSUME IInv, ReallocMove(a, sz) PROVE IInv'
  OBVIOUS
<1>1. PICK p \in Pools, q \in Pools :
        /\ phase = "ready" /\ Within(a, p) /\ sz <= Size[q] /\ freeList[q] # <<>>
        /\ freeList' = PutBack([freeList EXCEPT ![q] = Tail(@)], p, a)
        /\ want' = With(Without(a), Head(freeList[q]), sz)
        /\ hwm' = [hwm EXCEPT ![q] = Larger(use[q] + 1, @)]
        /\ use' = [[use EXCEPT ![q] = @ + 1] EXCEPT ![p] = @ - 1]
        /\ UNCHANGED layout
  BY DEF ReallocMove, Chosen, layout
<1>2. PICK b : b = Head(freeList[q])
  OBVIOUS
<1>3. PICK lists : lists = [freeList EXCEPT ![q] = Tail(@)]
  OBVIOUS
<1>4. /\ b \in Nat /\ b \in OnList(q) /\ Within(b, q) /\ b \notin Held
      /\ lists \in [Pools -> Seq(Nat)]
      /\ \A r \in Pools : /\ Distinct(lists[r]) /\ b \notin Elements(lists[r])
                          /\ Elements(lists[r]) \subseteq OnList(r)
  BY <1>1, <1>2, <1>3, Taken
<1>5. freeList' = [lists EXCEPT ![p] = <<a>> \o @]
  BY <1>1, <1>3 DEF PutBack
<1>6. /\ freeList' \in [Pools -> Seq(Nat)]
      /\ \A r \in Pools :
           /\ Distinct(freeList'[r])
           /\ Elements(freeList'[r])
                = IF r = p THEN Elements(lists[r]) \union {a} ELSE Elements(lists[r])
  <2>1. \A r \in Pools : Distinct(lists[r]) /\ Elements(lists[r]) \subseteq OnList(r)
    BY <1>4
  <2>2. /\ [lists EXCEPT ![p] = <<a>> \o @] \in [Pools -> Seq(Nat)]
        /\ \A r \in Pools :
             /\ Distinct([lists EXCEPT ![p] = <<a>> \o @][r])
             /\ Elements([lists EXCEPT ![p] = <<a>> \o @][r])
                  = IF r = p THEN Elements(lists[r]) \union {a} ELSE Elements(lists[r])
    BY <1>1, <1>4, <2>1, Returned
  <2> HIDE DEF Elements, Distinct
  <2> QED  BY <1>5, <2>2
<1>7. /\ Held' = (Held \ {a}) \union {b} /\ want'[b] = sz /\ a # b
      /\ \A c \in Held \ {a} : want'[c] = want[c]
  BY <1>1, <1>2, <1>4 DEF With, Without, Held
<1>8. Held' \subseteq Nat /\ want' \in [Held' -> Nat]
  <2>1. Held' \subseteq Nat
    BY <1>4, <1>7 DEF IInv, TypeOK
  <2>2. /\ want' = [c \in Held' |-> want'[c]]
        /\ \A c \in Held' : want'[c] \in Nat
    BY <1>1, <1>2, <1>7, HeapAssumption DEF IInv, TypeOK, With, Without, Held
  <2> QED  BY <2>1, <2>2
<1>9. use' \in [Pools -> Int] /\ hwm' \in [Pools -> Int]
  <2>1. use \in [Pools -> Int] /\ hwm \in [Pools -> Int]
    BY DEF IInv, TypeOK
  <2>2. PICK taken : taken = [use EXCEPT ![q] = @ + 1]
    OBVIOUS
  <2>3. taken \in [Pools -> Int]
    BY <2>1, <2>2
  <2>4. use' = [taken EXCEPT ![p] = @ - 1]
    BY <1>1, <2>2
  <2> QED  BY <1>1, <2>1, <2>3, <2>4 DEF Larger
<1>10. \A c, r : Within(c, r)' <=> Within(c, r)
  BY <1>1 DEF Within, layout
<1>11. ASSUME NEW r \in Pools PROVE Blocks(r)' \subseteq Blocks(r)
  <2>1. OnList(r)' \subseteq OnList(r) \union HeldFrom(r)
    BY <1>1, <1>4, <1>6 DEF OnList, HeldFrom
  <2>2. HeldFrom(r)' \subseteq HeldFrom(r) \union OnList(r)
    <3>1. ASSUME Within(b, r) PROVE r = q
      BY <1>4, <3>1, OneRange DEF IInv
    <3> QED  BY <1>4, <1>7, <1>10, <3>1 DEF HeldFrom
  <2> QED  BY <2>1, <2>2 DEF Blocks
<1>12. FreeListsSound'
  <2>1. NoDuplicate'
    BY <1>6 DEF NoDuplicate
  <2>2. ASSUME NEW r \in Pools, NEW c \in Elements(freeList'[r])
        PROVE  Within(c, r) /\ c \notin Held'
    <3>1. CASE c = a
      <4>1. r = p
        <5>1. ASSUME r # p PROVE FALSE
          <6>1. a \in OnList(r)  BY <1>4, <1>6, <3>1, <5>1
          <6> QED  BY <6>1 DEF IInv, FreeListsSound, FreeInOwnPool
        <5> QED  BY <5>1
      <4> QED  BY <1>1, <1>7, <3>1, <4>1
    <3>2. CASE c # a
      <4>1. c \in Elements(lists[r]) /\ c # b /\ c \in OnList(r)
        BY <1>4, <1>6, <3>2
      <4> QED  BY <1>7, <4>1 DEF IInv, FreeListsSound, FreeInOwnPool
    <3> QED  BY <3>1, <3>2
  <2> QED  BY <1>10, <2>1, <2>2 DEF FreeListsSound, FreeInOwnPool, OnList
<1>13. EveryBlockFits'
  BY <1>1, <1>4, <1>7, <1>10 DEF IInv, EveryBlockFits
<1> QED  BY <1>1, <1>6, <1>8, <1>9, <1>11, <1>12, <1>13, LayoutKept

-----------------------------------------------------------------------------
(* The theorems                                                            *)

\* A step that changes no variable keeps the invariant.
LEMMA StutterIInv == IInv /\ UNCHANGED vars => IInv'
BY DEF vars, IInv, TypeOK, HeldOnlyWhenUp, UnbuiltEmpty, CarvedWithinHeap, PoolsCarved,
       PoolCarved, RangesDisjoint, Spaced, Apart, Blocks, OnList, HeldFrom, FreeListsSound,
       NoDuplicate, FreeInOwnPool, EveryBlockFits, Within, Held

\* Every step of the heap keeps the invariant.
LEMMA NextIInv == IInv /\ [Next]_vars => IInv'
<1> SUFFICES ASSUME IInv, [Next]_vars PROVE IInv'
  OBVIOUS
<1>1. CASE Create  BY <1>1, CreateIInv
<1>2. CASE InitPool  BY <1>2, InitPoolIInv
<1>3. CASE InitDone \/ Destroy  BY <1>3, PhaseIInv
<1>4. ASSUME NEW sz \in Requests, Alloc(sz) PROVE IInv'
  BY <1>4, AllocIInv
<1>5. ASSUME NEW a \in Held, Free(a) PROVE IInv'
  BY <1>5, FreeIInv
<1>6. ASSUME NEW a \in Held, NEW sz \in Requests, ReallocInPlace(a, sz) PROVE IInv'
  BY <1>6, ReallocInPlaceIInv
<1>7. ASSUME NEW a \in Held, NEW sz \in Requests, ReallocMove(a, sz) PROVE IInv'
  BY <1>7, ReallocMoveIInv
<1>8. CASE UNCHANGED vars  BY <1>8, StutterIInv
<1> QED  BY <1>1, <1>2, <1>3, <1>4, <1>5, <1>6, <1>7, <1>8 DEF Next

\* The inductive invariant holds in every state: the pools built so far are carved into
\* blocks side by side, in ranges of their own, and each block is held or free, once.
THEOREM Invariance == Spec => []IInv
<1> QED  BY InitIInv, NextIInv, PTL DEF Spec

\* The variables of the heap have their types for every configuration of the pools.
THEOREM TypeCorrect == Spec => []TypeOK
<1>1. IInv => TypeOK  BY DEF IInv
<1> QED  BY <1>1, Invariance, PTL

\* For every configuration of pools and heaps and every sequence of requests that
\* AJS_Alloc, AJS_Free and AJS_Realloc serve, a free list never names a block twice,
\* nor one that is held, nor one of another pool.
THEOREM FreeListsStaySound == Spec => []FreeListsSound
<1>1. IInv => FreeListsSound  BY DEF IInv
<1> QED  BY <1>1, Invariance, PTL

\* What AJS_Alloc and AJS_Realloc hand out is never smaller than what was asked for,
\* whatever the sizes of the pools.
THEOREM BlocksAlwaysFit == Spec => []EveryBlockFits
<1>1. IInv => EveryBlockFits  BY DEF IInv
<1> QED  BY <1>1, Invariance, PTL

-----------------------------------------------------------------------------
(* Nothing leaks                                                           *)

\* Between AJS_HeapCreate and AJS_HeapDestroy the counters of a pool say how many of its
\* blocks are held; those of a pool that is built are held or on its list.
BalancedPool(p) ==
  /\ IsFiniteSet(HeldFrom(p))
  /\ use[p] = Cardinality(HeldFrom(p))
  /\ use[p] <= hwm[p] /\ hwm[p] <= Entries[p]
  /\ p <= built => Cardinality(HeldFrom(p)) + Len(freeList[p]) = Entries[p]

Balanced == phase \in {"init", "ready"} => \A p \in Pools : BalancedPool(p)

\* The blocks of a set that are in a pool.
From(S, p) == {a \in S : Within(a, p)}

\* How many blocks of each pool are in a set: none, one more, one less.
LEMMA CountNone == ASSUME NEW p PROVE IsFiniteSet(From({}, p)) /\ Cardinality(From({}, p)) = 0
<1>1. From({}, p) = {}
  BY DEF From
<1> QED  BY <1>1, FS_EmptySet

LEMMA CountMore ==
  ASSUME TypeOK, UnbuiltEmpty, RangesDisjoint, NEW S, NEW q \in Pools, NEW b \in Nat,
         Within(b, q), b \notin S, NEW p \in Pools, IsFiniteSet(From(S, p))
  PROVE  /\ IsFiniteSet(From(S \union {b}, p))
         /\ Cardinality(From(S \union {b}, p)) = Cardinality(From(S, p)) + IF p = q THEN 1 ELSE 0
         /\ Cardinality(From(S, p)) \in Nat
<1>1. Cardinality(From(S, p)) \in Nat
  BY FS_CardinalityType
<1>2. CASE p = q
  <2>1. From(S \union {b}, p) = From(S, p) \union {b} /\ b \notin From(S, p)
    BY <1>2 DEF From
  <2>2. IsFiniteSet(From(S \union {b}, p))
        /\ Cardinality(From(S \union {b}, p)) = Cardinality(From(S, p)) + 1
    BY <2>1, FS_AddElement
  <2> QED  BY <1>1, <1>2, <2>2
<1>3. CASE p # q
  <2>1. ~Within(b, p)
    BY <1>3, OneRange
  <2>2. From(S \union {b}, p) = From(S, p)
    BY <2>1 DEF From
  <2> QED  BY <1>1, <1>3, <2>2
<1> QED  BY <1>2, <1>3

LEMMA CountLess ==
  ASSUME TypeOK, UnbuiltEmpty, RangesDisjoint, NEW S, NEW q \in Pools, NEW b \in Nat,
         Within(b, q), b \in S, NEW p \in Pools, IsFiniteSet(From(S, p))
  PROVE  /\ IsFiniteSet(From(S \ {b}, p))
         /\ Cardinality(From(S \ {b}, p)) = Cardinality(From(S, p)) - IF p = q THEN 1 ELSE 0
         /\ Cardinality(From(S, p)) \in Nat /\ Cardinality(From(S \ {b}, p)) \in Nat
<1>1. Cardinality(From(S, p)) \in Nat
  BY FS_CardinalityType
<1>2. CASE p = q
  <2>1. From(S \ {b}, p) = From(S, p) \ {b} /\ b \in From(S, p)
    BY <1>2 DEF From
  <2>2. IsFiniteSet(From(S \ {b}, p))
        /\ Cardinality(From(S \ {b}, p)) = Cardinality(From(S, p)) - 1
    <3>1. PICK T : T = From(S, p)
      OBVIOUS
    <3>2. IsFiniteSet(T) /\ b \in T
      BY <2>1, <3>1
    <3>3. IsFiniteSet(T \ {b}) /\ Cardinality(T \ {b}) = Cardinality(T) - 1
      BY <3>2, FS_RemoveElement
    <3> QED  BY <2>1, <3>1, <3>3
  <2> QED  BY <1>1, <1>2, <2>2, FS_CardinalityType
<1>3. CASE p # q
  <2>1. ~Within(b, p)
    BY <1>3, OneRange
  <2>2. From(S \ {b}, p) = From(S, p)
    BY <2>1 DEF From
  <2> QED  BY <1>1, <1>3, <2>2
<1> QED  BY <1>2, <1>3

\* While the ranges of the pools stay, what is held from a pool is a matter of Held.
LEMMA HeldFromIs ==
  ASSUME UNCHANGED <<startOfPool, endOfPool>>
  PROVE  \A p \in Pools : HeldFrom(p) = From(Held, p) /\ HeldFrom(p)' = From(Held', p)
BY DEF HeldFrom, From, Within

LEMMA Lengths ==
  ASSUME NEW list \in Seq(Nat)
  PROVE  /\ Len(list) \in Nat
         /\ list # <<>> => /\ Len(list) >= 1 /\ Tail(list) \in Seq(Nat)
                            /\ Len(Tail(list)) = Len(list) - 1
         /\ \A a \in Nat : Len(<<a>> \o list) = Len(list) + 1
OBVIOUS

LEMMA BeforeBalanced ==
  ASSUME IInv, Balanced, Create \/ InitPool \/ InitDone \/ Destroy PROVE Balanced'
<1>1. CASE phase' \notin {"init", "ready"}
  BY <1>1 DEF Balanced
<1>2. CASE Create
  <2>1. Held' = {} /\ built' = 0
    BY <1>2 DEF Create, IInv, HeldOnlyWhenUp, Held
  <2>2. \A p \in Pools : HeldFrom(p)' = {}
    BY <2>1 DEF HeldFrom
  <2>3. \A p \in Pools : use'[p] = 0 /\ hwm'[p] = 0 /\ Entries[p] \in Nat /\ p \in Nat \ {0}
    BY <1>2, HeapAssumption DEF Create, NoPool, Pools
  <2>4. ASSUME NEW p \in Pools PROVE BalancedPool(p)'
    <3>1. IsFiniteSet(HeldFrom(p)') /\ Cardinality(HeldFrom(p)') = 0
      BY <2>2, FS_EmptySet
    <3> QED  BY <2>1, <2>3, <3>1 DEF BalancedPool
  <2> QED  BY <2>4 DEF Balanced
<1>3. CASE InitPool /\ phase' \in {"init", "ready"}
  <2>1. PICK q \in Pools : q = built + 1 /\ built \in Nat
    <3>1. built \in Nat /\ built < NumPools /\ NumPools \in Nat
      BY <1>3, HeapAssumption DEF IInv, TypeOK, InitPool
    <3> QED  BY <3>1 DEF Pools
  <2>2. /\ phase = "init" /\ Held = {} /\ UNCHANGED <<want, use, hwm>> /\ built' = q
        /\ \E first \in Nat, sz \in Nat \ {0} :
             freeList' = [freeList EXCEPT ![q] = Carve(first, Entries[q], sz)]
    <3>1. phase = "init" /\ UNCHANGED <<want, use, hwm>> /\ phase' # "failed"
      BY <1>3 DEF InitPool
    <3>2. /\ built' = q
          /\ freeList' = [freeList EXCEPT ![q] =
               Carve(heapEnd[HeapIndex[q]], Entries[q], Rounded(Size[q]))]
      BY <1>3, <2>1, <3>1 DEF InitPool
    <3>3. heapEnd[HeapIndex[q]] \in Nat
      BY HeapAssumption DEF IInv, TypeOK
    <3>4. Held = {}
      BY <3>1 DEF IInv, HeldOnlyWhenUp
    <3> QED  BY <3>1, <3>2, <3>3, <3>4, RoundedUp
  <2>3. \A p \in Pools : HeldFrom(p) = {} /\ HeldFrom(p)' = {}
    BY <2>2 DEF HeldFrom, Held
  <2>4. PICK first \in Nat, sz \in Nat \ {0} :
          freeList' = [freeList EXCEPT ![q] = Carve(first, Entries[q], sz)]
    BY <2>2
  <2>5. \A p \in Pools : Len(freeList'[p]) = IF p = q THEN Entries[p] ELSE Len(freeList[p])
    <3>1. Len(Carve(first, Entries[q], sz)) = Entries[q]
      BY HeapAssumption DEF Carve
    <3> QED  BY <2>4, <3>1 DEF IInv, TypeOK
  <2>6. ASSUME NEW p \in Pools PROVE BalancedPool(p)'
    <3>1. BalancedPool(p) /\ p \in Nat /\ Entries[p] \in Nat
      BY <2>2, HeapAssumption DEF Balanced, Pools
    <3>2. p <= built' => p = q \/ p <= built
      BY <2>1, <2>2, <3>1
    <3>3. /\ IsFiniteSet(HeldFrom(p)') /\ Cardinality(HeldFrom(p)') = 0
          /\ Cardinality(HeldFrom(p)) = 0
      BY <2>3, FS_EmptySet
    <3>4. use'[p] = 0 /\ use'[p] <= hwm'[p] /\ hwm'[p] <= Entries[p]
      BY <2>2, <3>1, <3>3 DEF BalancedPool
    <3>5. p <= built' => Len(freeList'[p]) = Entries[p]
      BY <2>5, <3>1, <3>2, <3>3 DEF BalancedPool, IInv, TypeOK
    <3> QED  BY <3>1, <3>3, <3>4, <3>5 DEF BalancedPool
  <2> QED  BY <2>6 DEF Balanced
<1>4. CASE InitDone
  BY <1>4 DEF InitDone, Balanced, BalancedPool, HeldFrom, Within, Held
<1>5. CASE Destroy
  BY <1>5 DEF Destroy, Balanced
<1> QED  BY <1>1, <1>2, <1>3, <1>4, <1>5

LEMMA AllocBalanced ==
  ASSUME IInv, Balanced, NEW sz \in Requests, Alloc(sz) PROVE Balanced'
<1>1. PICK q \in Pools :
        /\ phase = "ready" /\ freeList[q] # <<>>
        /\ freeList' = [freeList EXCEPT ![q] = Tail(@)]
        /\ want' = With(want, Head(freeList[q]), sz)
        /\ use' = [use EXCEPT ![q] = @ + 1] /\ hwm' = [hwm EXCEPT ![q] = Larger(use[q] + 1, @)]
        /\ UNCHANGED <<phase, built, startOfPool, endOfPool>>
  BY DEF Alloc, Chosen
<1>2. PICK b : b = Head(freeList[q])
  OBVIOUS
<1>3. PICK lists : lists = [freeList EXCEPT ![q] = Tail(@)]
  OBVIOUS
<1>4. b \in Nat /\ Within(b, q) /\ b \notin Held
  BY <1>1, <1>2, <1>3, Taken
<1>5. Held' = Held \union {b}
  BY <1>1, <1>2 DEF Held, With
<1>6. ASSUME NEW p \in Pools PROVE BalancedPool(p)'
  <2>1. BalancedPool(p) /\ HeldFrom(p) = From(Held, p) /\ HeldFrom(p)' = From(Held', p)
    BY <1>1, HeldFromIs DEF Balanced
  <2>2. /\ IsFiniteSet(From(Held', p)) /\ Cardinality(From(Held, p)) \in Nat
        /\ Cardinality(From(Held', p)) = Cardinality(From(Held, p)) + IF p = q THEN 1 ELSE 0
    BY <1>4, <1>5, <2>1, CountMore DEF IInv, BalancedPool
  <2>3. freeList[p] \in Seq(Nat) /\ use[p] \in Int /\ hwm[p] \in Int /\ Entries[p] \in Nat
        /\ freeList'[p] = (IF p = q THEN Tail(freeList[p]) ELSE freeList[p])
        /\ use'[p] = (IF p = q THEN use[p] + 1 ELSE use[p])
        /\ hwm'[p] = (IF p = q THEN Larger(use[p] + 1, hwm[p]) ELSE hwm[p])
    BY <1>1, HeapAssumption DEF IInv, TypeOK
  <2>4. Len(freeList[p]) \in Nat
        /\ p = q => Len(freeList[p]) >= 1 /\ Len(freeList'[p]) = Len(freeList[p]) - 1
    BY <1>1, <2>3, Lengths
  <2>5. p <= built /\ p <= built'
    BY <1>1, HeapAssumption DEF IInv, HeldOnlyWhenUp, Pools
  <2> QED  BY <2>1, <2>2, <2>3, <2>4, <2>5 DEF BalancedPool, Larger
<1> QED  BY <1>6 DEF Balanced

LEMMA FreeBalanced ==
  ASSUME IInv, Balanced, NEW a \in Held, Free(a) PROVE Balanced'
<1>1. PICK q \in Pools :
        /\ phase = "ready" /\ Within(a, q)
        /\ freeList' = [freeList EXCEPT ![q] = <<a>> \o @]
        /\ want' = Without(a)
        /\ use' = [use EXCEPT ![q] = @ - 1]
        /\ UNCHANGED <<phase, built, startOfPool, endOfPool, hwm>>
  BY DEF Free
<1>2. a \in Nat /\ Held' = Held \ {a}
  BY <1>1 DEF Held, Without, IInv, TypeOK
<1>3. ASSUME NEW p \in Pools PROVE BalancedPool(p)'
  <2>1. BalancedPool(p) /\ HeldFrom(p) = From(Held, p) /\ HeldFrom(p)' = From(Held', p)
    BY <1>1, HeldFromIs DEF Balanced
  <2>2. /\ IsFiniteSet(From(Held', p)) /\ Cardinality(From(Held, p)) \in Nat
        /\ Cardinality(From(Held', p)) = Cardinality(From(Held, p)) - IF p = q THEN 1 ELSE 0
    BY <1>1, <1>2, <2>1, CountLess DEF IInv, BalancedPool
  <2>3. freeList[p] \in Seq(Nat) /\ use[p] \in Int /\ hwm[p] \in Int /\ Entries[p] \in Nat
        /\ freeList'[p] = (IF p = q THEN <<a>> \o freeList[p] ELSE freeList[p])
        /\ use'[p] = (IF p = q THEN use[p] - 1 ELSE use[p]) /\ hwm'[p] = hwm[p]
    BY <1>1, HeapAssumption DEF IInv, TypeOK
  <2>4. Len(freeList[p]) \in Nat /\ p = q => Len(freeList'[p]) = Len(freeList[p]) + 1
    BY <1>2, <2>3, Lengths
  <2>5. p <= built /\ p <= built'
    BY <1>1, HeapAssumption DEF IInv, HeldOnlyWhenUp, Pools
  <2>6. CASE p = q
    BY <2>1, <2>2, <2>3, <2>4, <2>5, <2>6 DEF BalancedPool
  <2>7. CASE p # q
    BY <2>1, <2>2, <2>3, <2>4, <2>5, <2>7 DEF BalancedPool
  <2> QED  BY <2>6, <2>7
<1> QED  BY <1>3 DEF Balanced

LEMMA ReallocInPlaceBalanced ==
  ASSUME IInv, Balanced, NEW a \in Held, NEW sz \in Requests, ReallocInPlace(a, sz)
  PROVE  Balanced'
<1>1. /\ want' = With(want, a, sz) /\ UNCHANGED <<phase, built, startOfPool, endOfPool>>
      /\ UNCHANGED <<freeList, use, hwm>>
  BY DEF ReallocInPlace
<1>2. Held' = Held
  BY <1>1 DEF With, Held
<1> QED  BY <1>1, <1>2 DEF Balanced, BalancedPool, HeldFrom, Within

LEMMA ReallocMoveBalanced ==
  ASSUME IInv, Balanced, NEW a \in Held, NEW sz \in Requests, ReallocMove(a, sz)
  PROVE  Balanced'
<1>1. PICK o \in Pools, q \in Pools :
        /\ phase = "ready" /\ Within(a, o) /\ freeList[q] # <<>>
        /\ freeList' = PutBack([freeList EXCEPT ![q] = Tail(@)], o, a)
        /\ want' = With(Without(a), Head(freeList[q]), sz)
        /\ hwm' = [hwm EXCEPT ![q] = Larger(use[q] + 1, @)]
        /\ use' = [[use EXCEPT ![q] = @ + 1] EXCEPT ![o] = @ - 1]
        /\ UNCHANGED <<phase, built, startOfPool, endOfPool>>
  BY DEF ReallocMove, Chosen
<1>2. PICK b : b = Head(freeList[q])
  OBVIOUS
<1>3. PICK lists : lists = [freeList EXCEPT ![q] = Tail(@)]
  OBVIOUS
<1>4. b \in Nat /\ Within(b, q) /\ b \notin Held /\ a \in Nat
  BY <1>1, <1>2, <1>3, Taken DEF IInv, TypeOK
<1>5. Held' = (Held \ {a}) \union {b}
  BY <1>1, <1>2 DEF Held, With, Without
<1>6. ASSUME NEW p \in Pools PROVE BalancedPool(p)'
  <2>1. BalancedPool(p) /\ HeldFrom(p) = From(Held, p) /\ HeldFrom(p)' = From(Held', p)
    BY <1>1, HeldFromIs DEF Balanced
  <2>2. /\ IsFiniteSet(From(Held \ {a}, p)) /\ Cardinality(From(Held, p)) \in Nat
        /\ Cardinality(From(Held \ {a}, p)) = Cardinality(From(Held, p)) - IF p = o THEN 1 ELSE 0
    BY <1>1, <1>4, <2>1, CountLess DEF IInv, BalancedPool
  <2>3. /\ IsFiniteSet(From(Held', p))
        /\ Cardinality(From(Held', p)) = Cardinality(From(Held \ {a}, p)) + IF p = q THEN 1 ELSE 0
    BY <1>4, <1>5, <2>2, CountMore DEF IInv
  <2>4. /\ freeList[p] \in Seq(Nat) /\ use[p] \in Int /\ hwm[p] \in Int /\ Entries[p] \in Nat
        /\ use'[p] = use[p] + (IF p = q THEN 1 ELSE 0) - (IF p = o THEN 1 ELSE 0)
        /\ hwm'[p] = (IF p = q THEN Larger(use[p] + 1, hwm[p]) ELSE hwm[p])
    <3>1. /\ use \in [Pools -> Int] /\ hwm \in [Pools -> Int] /\ freeList \in [Pools -> Seq(Nat)]
          /\ Entries[p] \in Nat
      BY HeapAssumption DEF IInv, TypeOK
    <3>2. CASE p = o /\ p = q
      BY <1>1, <3>1, <3>2
    <3>3. CASE p = o /\ p # q
      BY <1>1, <3>1, <3>3
    <3>4. CASE p # o /\ p = q
      BY <1>1, <3>1, <3>4
    <3>5. CASE p # o /\ p # q
      BY <1>1, <3>1, <3>5
    <3> QED  BY <3>2, <3>3, <3>4, <3>5
  <2>5. PICK rest : rest = IF p = q THEN Tail(freeList[p]) ELSE freeList[p]
    OBVIOUS
  <2>6. rest \in Seq(Nat) /\ Len(rest) = Len(freeList[p]) - (IF p = q THEN 1 ELSE 0)
        /\ Len(freeList[p]) \in Nat /\ (p = q => Len(freeList[p]) >= 1)
    BY <1>1, <2>4, <2>5, Lengths
  <2>7. freeList'[p] = IF p = o THEN <<a>> \o rest ELSE rest
    BY <1>1, <2>5 DEF PutBack, IInv, TypeOK
  <2>8. Len(freeList'[p]) = Len(rest) + IF p = o THEN 1 ELSE 0
    <3>1. Len(<<a>> \o rest) = Len(rest) + 1 /\ Len(rest) \in Nat
      BY <1>4, <2>6, Lengths
    <3> QED  BY <2>7, <3>1
  <2>9. p <= built /\ p <= built'
    BY <1>1, HeapAssumption DEF IInv, HeldOnlyWhenUp, Pools
  <2>10. PICK out \in {0, 1}, in \in {0, 1} :
           /\ out = (IF p = o THEN 1 ELSE 0) /\ in = (IF p = q THEN 1 ELSE 0)
    OBVIOUS
  <2>11. /\ IsFiniteSet(HeldFrom(p)')
         /\ Cardinality(HeldFrom(p)') = Cardinality(HeldFrom(p)) - out + in
         /\ use'[p] = use[p] + in - out /\ Len(freeList'[p]) = Len(freeList[p]) - in + out
         /\ Cardinality(HeldFrom(p)) \in Nat /\ Len(freeList[p]) \in Nat
    BY <2>1, <2>2, <2>3, <2>4, <2>6, <2>8, <2>10
  <2>12. /\ use[p] = Cardinality(HeldFrom(p)) /\ use[p] <= hwm[p] /\ hwm[p] <= Entries[p]
         /\ Cardinality(HeldFrom(p)) + Len(freeList[p]) = Entries[p]
    BY <2>1, <2>9 DEF BalancedPool
  <2>13. use'[p] <= hwm'[p] /\ hwm'[p] <= Entries[p]
    <3>1. CASE p = q
      BY <2>4, <2>6, <2>10, <2>11, <2>12, <3>1 DEF Larger
    <3>2. CASE p # q
      BY <2>4, <2>10, <2>11, <2>12, <3>2
    <3> QED  BY <3>1, <3>2
  <2> QED  BY <2>4, <2>11, <2>12, <2>13 DEF BalancedPool
<1> QED  BY <1>6 DEF Balanced

LEMMA NextBalanced == IInv /\ Balanced /\ [Next]_vars => Balanced'
<1> SUFFICES ASSUME IInv, Balanced, [Next]_vars PROVE Balanced'
  OBVIOUS
<1>1. CASE Create \/ InitPool \/ InitDone \/ Destroy
  BY <1>1, BeforeBalanced
<1>2. ASSUME NEW sz \in Requests, Alloc(sz) PROVE Balanced'
  BY <1>2, AllocBalanced
<1>3. ASSUME NEW a \in Held, Free(a) PROVE Balanced'
  BY <1>3, FreeBalanced
<1>4. ASSUME NEW a \in Held, NEW sz \in Requests, ReallocInPlace(a, sz) PROVE Balanced'
  BY <1>4, ReallocInPlaceBalanced
<1>5. ASSUME NEW a \in Held, NEW sz \in Requests, ReallocMove(a, sz) PROVE Balanced'
  BY <1>5, ReallocMoveBalanced
<1>6. CASE UNCHANGED vars
  BY <1>6 DEF vars, Balanced, BalancedPool, HeldFrom, Within, Held
<1> QED  BY <1>1, <1>2, <1>3, <1>4, <1>5, <1>6 DEF Next

\* Through borrowing and resizing, the blocks held from a pool and those on its free list
\* make up the pool, and the counters of AJS_DumpHeapStats say so.
THEOREM NothingIsLost == Spec => []NothingLeaks
<1>1. Init => Balanced
  BY DEF Init, Balanced
<1>2. IInv /\ Balanced => NothingLeaks
  <2> SUFFICES ASSUME IInv, Balanced, Up, NEW p \in Pools PROVE
        /\ Cardinality(HeldFrom(p)) + Len(freeList[p]) = Entries[p]
        /\ use[p] = Cardinality(HeldFrom(p))
        /\ use[p] <= hwm[p] /\ hwm[p] <= Entries[p]
    BY DEF NothingLeaks
  <2>1. BalancedPool(p) /\ p <= built
    BY HeapAssumption DEF Up, Balanced, IInv, HeldOnlyWhenUp, Pools
  <2> QED  BY <2>1 DEF BalancedPool
<1> QED  BY <1>1, <1>2, Invariance, NextBalanced, PTL DEF Spec

-----------------------------------------------------------------------------
(* The sizes of the heaps                                                  *)

\* What a pool adds to the size of its heap.
Share(h, p) == IF HeapIndex[p] = h THEN Entries[p] * Rounded(Size[p]) ELSE 0

LEMMA ShareIs ==
  ASSUME NEW h \in Heaps, NEW p \in Pools
  PROVE  Share(h, p) \in Nat
<1>1. Entries[p] \in Nat /\ Rounded(Size[p]) \in Nat
  BY HeapAssumption, RoundedUp
<1>2. Entries[p] * Rounded(Size[p]) \in Nat
  BY <1>1
<1> QED BY <1>2 DEF Share

\* The loop of AJS_HeapRequired adds up the shares of the pools.
LEMMA RequiredIs ==
  ASSUME NEW h \in Heaps
  PROVE  /\ RequiredUpTo(h) \in [0..NumPools -> Nat]
         /\ RequiredUpTo(h)[0] = 0
         /\ \A p \in 1..NumPools : RequiredUpTo(h)[p] = RequiredUpTo(h)[p - 1] + Share(h, p)
<1> DEFINE step == [x \in (1..NumPools) \X Nat |-> x[2] + Share(h, x[1])]
           F(f) == f = [p \in 0..NumPools |->
                          IF p = 0 THEN 0
                          ELSE f[p - 1] + (IF HeapIndex[p] = h THEN Entries[p] * Rounded(Size[p]) ELSE 0)]
<1>0. NumPools \in Nat
  BY HeapAssumption
<1>1. step \in Rounds(NumPools, Nat)
  BY ShareIs DEF Pools, Rounds
<1>2. PICK g : IsLoop(g, NumPools, Nat, 0, step)
  <2>1. 0 \in Nat
    OBVIOUS
  <2> HIDE DEF step
  <2> QED BY <1>0, <1>1, <2>1, Loop, Zenon
<1>3. ASSUME NEW k \in 1..NumPools PROVE g[k] = g[k - 1] + Share(h, k)
  <2>1. <<k, g[k - 1]>> \in (1..NumPools) \X Nat
    BY <1>0, <1>2 DEF IsLoop
  <2> QED BY <1>2, <2>1 DEF IsLoop
<1>4. F(g)
  BY <1>0, <1>2, <1>3 DEF Share, IsLoop
<1>5. RequiredUpTo(h) = CHOOSE f : F(f)
  BY DEF RequiredUpTo
<1>6. F(RequiredUpTo(h))
  <2> HIDE DEF F
  <2> QED BY <1>4, <1>5, Zenon
<1> DEFINE r == RequiredUpTo(h)
<1> HIDE DEF r
<1>7. r = [p \in 0..NumPools |-> IF p = 0 THEN 0 ELSE r[p - 1] + Share(h, p)]
  BY <1>6 DEF r, Share
<1>8. r[0] = 0 /\ \A p \in 1..NumPools : r[p] = r[p - 1] + Share(h, p)
  BY <1>0, <1>7
<1>9. r \in [0..NumPools -> Nat]
  <2> DEFINE P == {k \in 0..NumPools : r[k] \in Nat}
  <2>1. 0 \in P /\ \A k \in 1..NumPools : k - 1 \in P => k \in P
    BY <1>0, <1>8, ShareIs DEF Pools
  <2>2. 0..NumPools \subseteq P
    <3> HIDE DEF P
    <3> QED BY <1>0, <2>1, UpTo
  <2> QED BY <1>7, <2>2
<1> QED BY <1>8, <1>9 DEF r

\* The sum never falls, so that of some pools is no more than that of all.
LEMMA RequiredGrows ==
  ASSUME NEW h \in Heaps, NEW p \in 0..NumPools
  PROVE  RequiredUpTo(h)[p] <= HeapRequired(h)
<1> DEFINE r == RequiredUpTo(h)
           P == {k \in 0..NumPools : p <= k => r[p] <= r[k]}
<1>0. NumPools \in Nat /\ HeapRequired(h) = r[NumPools]
  BY HeapAssumption DEF HeapRequired
<1>1. r \in [0..NumPools -> Nat] /\ \A k \in 1..NumPools : r[k] = r[k - 1] + Share(h, k)
  BY RequiredIs
<1> HIDE DEF r
<1>2. 0 \in P
  BY <1>0, <1>1
<1>3. ASSUME NEW k \in 1..NumPools, k - 1 \in P PROVE k \in P
  <2>1. Share(h, k) \in Nat /\ r[k] = r[k - 1] + Share(h, k)
    BY <1>1, ShareIs DEF Pools
  <2>2. r[p] \in Nat /\ r[k] \in Nat /\ r[k - 1] \in Nat
    BY <1>0, <1>1
  <2> QED BY <1>0, <1>3, <2>1, <2>2
<1>4. 0..NumPools \subseteq P
  <2> HIDE DEF P
  <2> QED BY <1>0, <1>2, <1>3, UpTo
<1> QED BY <1>0, <1>4 DEF r

\* What is carved of a heap is what AJS_HeapRequired counts for the pools built so far;
\* a pool that did not fit would have ended behind its heap.
SizesInStep ==
  /\ \A h \in Heaps : heapEnd[h] = HeapStart[h] + RequiredUpTo(h)[built]
  /\ phase = "failed" => \E h \in Heaps : heapSz[h] < HeapRequired(h)

LEMMA InitSizes == Init => SizesInStep
BY RequiredIs, HeapAssumption DEF Init, SizesInStep

LEMMA InitPoolSizes ==
  ASSUME IInv, SizesInStep, InitPool
  PROVE  SizesInStep'
<1>0. PICK p \in Pools : p = built + 1
  <2>1. built \in Nat /\ built < NumPools /\ NumPools \in Nat
    BY HeapAssumption DEF IInv, TypeOK, InitPool
  <2> QED BY <2>1 DEF Pools
<1> DEFINE h == HeapIndex[p]
           last == heapEnd[h] + Entries[p] * Rounded(Size[p])
<1>1. /\ h \in Heaps /\ heapEnd \in [Heaps -> Nat] /\ built \in 0..NumPools
      /\ heapSz[h] \in Nat /\ HeapStart \in [Heaps -> Nat]
      /\ p \in 1..NumPools /\ p - 1 = built /\ NumPools \in Nat
  BY <1>0, HeapAssumption DEF IInv, TypeOK, Pools
<1>2. \A g \in Heaps :
        /\ RequiredUpTo(g)[p] = RequiredUpTo(g)[built] + Share(g, p)
        /\ RequiredUpTo(g)[p] \in Nat /\ RequiredUpTo(g)[built] \in Nat /\ Share(g, p) \in Nat
        /\ RequiredUpTo(g)[p] <= HeapRequired(g) /\ HeapRequired(g) \in Nat
  <2> SUFFICES ASSUME NEW g \in Heaps
               PROVE  /\ RequiredUpTo(g)[p] = RequiredUpTo(g)[built] + Share(g, p)
                      /\ RequiredUpTo(g)[p] \in Nat /\ RequiredUpTo(g)[built] \in Nat
                      /\ Share(g, p) \in Nat
                      /\ RequiredUpTo(g)[p] <= HeapRequired(g) /\ HeapRequired(g) \in Nat
    OBVIOUS
  <2>1. RequiredUpTo(g) \in [0..NumPools -> Nat] /\ HeapRequired(g) = RequiredUpTo(g)[NumPools]
    BY RequiredIs DEF HeapRequired
  <2>2. RequiredUpTo(g)[p] = RequiredUpTo(g)[p - 1] + Share(g, p)
    BY <1>1, RequiredIs
  <2>3. Share(g, p) \in Nat
    BY ShareIs
  <2>4. RequiredUpTo(g)[p] <= HeapRequired(g)
    BY <1>1, RequiredGrows, p \in 0..NumPools
  <2> QED BY <1>1, <2>1, <2>2, <2>3, <2>4
<1>3. /\ last = HeapStart[h] + RequiredUpTo(h)[p]
      /\ last = heapEnd[h] + Share(h, p)
  BY <1>1, <1>2 DEF SizesInStep, Share
<1>4. CASE Entries[p] > 0 /\ last - HeapStart[h] > heapSz[h]
  <2>1. UNCHANGED <<built, heapEnd, heapSz>>
    BY <1>0, <1>4 DEF InitPool
  <2>2. heapSz[h] < HeapRequired(h)
    BY <1>1, <1>2, <1>3, <1>4
  <2> QED BY <1>1, <2>1, <2>2 DEF SizesInStep
<1>5. CASE ~(Entries[p] > 0 /\ last - HeapStart[h] > heapSz[h])
  <2>1. /\ heapEnd' = [heapEnd EXCEPT ![h] = last] /\ built' = p
        /\ phase' = "init" /\ heapSz' = heapSz
    BY <1>0, <1>5 DEF InitPool
  <2>2. ASSUME NEW g \in Heaps PROVE heapEnd'[g] = HeapStart[g] + RequiredUpTo(g)[built']
    <3>1. CASE g = h
      BY <1>1, <1>3, <2>1, <3>1
    <3>2. CASE g # h
      <4>1. Share(g, p) = 0
        BY <3>2 DEF Share
      <4> QED BY <1>1, <1>2, <2>1, <3>2, <4>1 DEF SizesInStep
    <3> QED BY <3>1, <3>2
  <2> QED BY <2>1, <2>2 DEF SizesInStep
<1> QED BY <1>4, <1>5

LEMMA NextSizes == IInv /\ SizesInStep /\ [Next]_vars => SizesInStep'
<1> SUFFICES ASSUME IInv, SizesInStep, [Next]_vars PROVE SizesInStep'
  OBVIOUS
<1>1. CASE Create
  <2>1. heapEnd' = HeapStart /\ built' = 0 /\ phase' = "init"
    BY <1>1 DEF Create
  <2> QED BY <2>1, RequiredIs, HeapAssumption DEF SizesInStep
<1>2. CASE InitPool
  BY <1>2, InitPoolSizes
<1>3. CASE UNCHANGED <<built, heapEnd, heapSz>> /\ (phase' = "failed" => phase = "failed")
  BY <1>3 DEF SizesInStep
<1> QED
  BY <1>1, <1>2, <1>3 DEF Next, vars, InitDone, Destroy, Alloc, Free, ReallocInPlace, ReallocMove

\* For every configuration of pools AJS_HeapInit builds the pools of heaps that have
\* the sizes AJS_HeapRequired returns, and never carves behind the end of a heap.
THEOREM RequiredIsEnough == Spec => []HeapSizesAgree
<1>1. IInv /\ SizesInStep => HeapSizesAgree
  BY DEF IInv, SizesInStep, CarvedWithinHeap, HeapSizesAgree
<1> QED BY <1>1, InitSizes, NextSizes, Invariance, PTL DEF Spec

-----------------------------------------------------------------------------
(* The pools keep the promise of the memory functions                      *)

\* Two held blocks do not overlap.
HeldApart == \A a, b \in Held : a # b => a + want[a] <= b \/ b + want[b] <= a

LEMMA HeldClear == IInv => HeldApart
<1> SUFFICES ASSUME IInv, NEW a \in Held, NEW b \in Held, a # b
             PROVE  a + want[a] <= b \/ b + want[b] <= a
  BY DEF HeldApart
<1>1. PICK p \in Pools : Within(a, p) /\ want[a] <= Size[p]
  BY DEF IInv, EveryBlockFits
<1>2. PICK q \in Pools : Within(b, q) /\ want[b] <= Size[q]
  BY DEF IInv, EveryBlockFits
<1>3. /\ a \in Nat /\ b \in Nat /\ want[a] \in Nat /\ want[b] \in Nat
      /\ startOfPool[p] \in Nat /\ endOfPool[p] \in Nat
      /\ startOfPool[q] \in Nat /\ endOfPool[q] \in Nat
  BY DEF IInv, TypeOK
<1>4. /\ Size[p] \in Nat /\ Size[q] \in Nat
      /\ Rounded(Size[p]) \in Nat /\ Rounded(Size[q]) \in Nat
      /\ Size[p] < Rounded(Size[p]) /\ Size[q] < Rounded(Size[q])
  BY RoundedUp
<1>5. a \in Blocks(p) /\ b \in Blocks(q)
  BY <1>1, <1>2 DEF Blocks, HeldFrom
<1>6. a + Rounded(Size[p]) <= endOfPool[p] /\ b + Rounded(Size[q]) <= endOfPool[q]
  BY <1>5 DEF IInv, Spaced
<1>7. CASE p = q
  <2>1. Apart(p, a, b)
    BY <1>5, <1>7 DEF IInv, Spaced
  <2> QED  BY <1>1, <1>2, <1>3, <1>4, <1>7, <2>1 DEF Apart
<1>8. CASE p # q
  <2>1. p \in 1..built /\ q \in 1..built
    BY DEF IInv, HeldOnlyWhenUp, Pools
  <2>2. endOfPool[p] <= startOfPool[q] \/ endOfPool[q] <= startOfPool[p]
    BY <1>8, <2>1 DEF IInv, RangesDisjoint
  <2>3. startOfPool[p] <= a /\ startOfPool[q] <= b
    BY <1>1, <1>2 DEF Within
  <2>4. CASE endOfPool[p] <= startOfPool[q]
    BY <1>1, <1>3, <1>4, <1>6, <2>3, <2>4
  <2>5. CASE endOfPool[q] <= startOfPool[p]
    BY <1>2, <1>3, <1>4, <1>6, <2>3, <2>5
  <2> QED  BY <2>2, <2>4, <2>5
<1> QED  BY <1>7, <1>8

\* The same in the state that a step reaches.
LEMMA HeldClearAfter == IInv' => HeldApart'
BY HeldClear, PTL

\* A request served is an allocation of the promise.
LEMMA AllocPromised ==
  ASSUME NEW sz \in Requests, IInv, IInv', Alloc(sz)
  PROVE  Promise!Alloc
<1>1. PICK p \in Pools : /\ freeList[p] # <<>>
                         /\ want' = With(want, Head(freeList[p]), sz)
  BY DEF Alloc, Chosen
<1>2. PICK a : a = Head(freeList[p])
  OBVIOUS
<1>3. PICK lists : lists = [freeList EXCEPT ![p] = Tail(@)]
  OBVIOUS
<1>4. a \in Nat /\ a \notin Held
  BY <1>1, <1>2, <1>3, Taken
<1>5. /\ Held' = Held \union {a} /\ want'[a] = sz /\ sz \in Nat
      /\ \A b \in Held : want'[b] = want[b]
      /\ want' = With(want, a, want'[a])
  BY <1>1, <1>2, <1>4, HeapAssumption DEF With, Held
<1>6. \A b \in Held' \ {a} : a + want'[a] <= b \/ b + want'[b] <= a
  BY <1>5, HeldClearAfter DEF HeldApart
<1>7. Promise!Clear(want, a, want'[a], a)
  BY <1>4, <1>5, <1>6 DEF Promise!Clear, Held
<1>8. a \in DOMAIN want' \ DOMAIN want
  BY <1>4, <1>5 DEF Held
<1>9. want' = Promise!With(want, a, want'[a])
  BY <1>5 DEF With, Promise!With
<1> QED  BY <1>4, <1>5, <1>7, <1>8, <1>9 DEF Promise!Alloc

\* A block resized in place or moved is clear of all the others.
LEMMA ReallocPromised ==
  ASSUME NEW a \in Held, NEW sz \in Requests, IInv, IInv',
         ReallocInPlace(a, sz) \/ ReallocMove(a, sz)
  PROVE  Promise!Resize
<1>1. \E b : /\ b \in Nat /\ (b = a \/ b \notin Held)
             /\ want' = With(Without(a), b, sz)
  <2>1. CASE ReallocInPlace(a, sz)
    <3>1. want' = With(want, a, sz)
      BY <2>1 DEF ReallocInPlace
    <3>2. With(want, a, sz) = With(Without(a), a, sz)
      BY DEF With, Without, Held
    <3> QED  BY <3>1, <3>2 DEF IInv, TypeOK
  <2>2. CASE ReallocMove(a, sz)
    <3>1. PICK q \in Pools : /\ freeList[q] # <<>>
                             /\ want' = With(Without(a), Head(freeList[q]), sz)
      BY <2>2 DEF ReallocMove, Chosen
    <3>2. PICK lists : lists = [freeList EXCEPT ![q] = Tail(@)]
      OBVIOUS
    <3>3. Head(freeList[q]) \in Nat /\ Head(freeList[q]) \notin Held
      BY <3>1, <3>2, Taken
    <3> QED  BY <3>1, <3>3
  <2> QED  BY <2>1, <2>2
<1>2. PICK b : /\ b \in Nat /\ (b = a \/ b \notin Held)
               /\ want' = With(Without(a), b, sz)
  BY <1>1
<1>3. /\ Held' = (Held \ {a}) \union {b} /\ want'[b] = sz /\ sz \in Nat
      /\ \A c \in Held \ {a, b} : want'[c] = want[c]
  BY <1>2, HeapAssumption DEF With, Without, Held
<1>4. \A c \in Held' \ {b} : b + want'[b] <= c \/ c + want'[c] <= b
  BY <1>3, HeldClearAfter DEF HeldApart
<1>5. Promise!Clear(want, b, want'[b], a)
  BY <1>2, <1>3, <1>4 DEF Promise!Clear, Held
<1>6. want' = Promise!With(Promise!Without(want, a), b, want'[b])
  BY <1>2, <1>3 DEF With, Without, Held, Promise!With, Promise!Without
<1> QED  BY <1>2, <1>3, <1>5, <1>6 DEF Promise!Resize, Held

\* Every step of the heap is a step of the promise or leaves what is held as it is.
LEMMA NextPromised == IInv /\ IInv' /\ [Next]_vars => [Promise!Next]_want
<1> SUFFICES ASSUME IInv, IInv', [Next]_vars PROVE [Promise!Next]_want
  OBVIOUS
<1>1. CASE Create \/ InitPool \/ InitDone
  BY <1>1 DEF Create, InitPool, InitDone
<1>2. CASE Destroy
  BY <1>2 DEF Destroy, NothingHeld, Promise!Next, Promise!Destroy
<1>3. ASSUME NEW sz \in Requests, Alloc(sz) PROVE [Promise!Next]_want
  BY <1>3, AllocPromised DEF Promise!Next
<1>4. ASSUME NEW a \in Held, Free(a) PROVE [Promise!Next]_want
  BY <1>4 DEF Free, Without, Held, Promise!Next, Promise!Release, Promise!Without
<1>5. ASSUME NEW a \in Held, NEW sz \in Requests,
             ReallocInPlace(a, sz) \/ ReallocMove(a, sz)
      PROVE  [Promise!Next]_want
  BY <1>5, ReallocPromised DEF Promise!Next
<1>6. CASE UNCHANGED vars
  BY <1>6 DEF vars
<1> QED  BY <1>1, <1>2, <1>3, <1>4, <1>5, <1>6 DEF Next

\* For every configuration the pools implement the promise of the memory functions:
\* what AJS_Alloc and AJS_Realloc return never overlaps other memory that is held.
THEOREM Implements == Spec => KeepsPromise
<1>1. Init => Promise!Init
  BY DEF Init, NothingHeld, Promise!Init
<1> QED  BY <1>1, Invariance, NextPromised, PTL DEF Spec, KeepsPromise, Promise!Spec
=============================================================================
