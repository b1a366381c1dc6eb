SPECIFICATION Spec
CONSTANTS
  NumPools = 3
  Heaps = {0, 1}
  Size <- MCSize
  Entries <- MCEntries
  Borrow <- MCBorrow
  HeapIndex <- MCHeapIndex
  HeapStart <- MCHeapStart
  HeapSzs <- MCHeapSzs
  Requests <- MCRequests
INVARIANTS TypeOK FreeListsSound NothingLeaks EveryBlockFits 
PROPERTIES KeepsPromise
