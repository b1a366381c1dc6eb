----------------------------- MODULE Allocator -----------------------------
(***************************************************************************)
(* What the script engine is promised by its memory functions (the         *)
(* declarations of AJS_Alloc, AJS_Free and AJS_Realloc in                  *)
(* src/src/ajs_heap.h): memory held at the same time never overlaps, a     *)
(* resized block keeps its place or moves to one clear of all the others,  *)
(* and what fails changes nothing.                                         *)
(***************************************************************************)
EXTENDS Integers

VARIABLE mem   \* the memory held: address of a block -> bytes asked for

\* The bytes [a, a + sz) are clear of every block of m but the one at own.
Clear(m, a, sz, own) ==
  \A b \in DOMAIN m \ {own} : b # a /\ (a + sz <= b \/ b + m[b] <= a)

Without(m, a) == [b \in DOMAIN m \ {a} |-> m[b]]
With(m, a, sz) == [b \in DOMAIN m \union {a} |-> IF b = a THEN sz ELSE m[b]]

Init == mem = [a \in {} |-> 0]

Alloc == \E a \in DOMAIN mem' \ DOMAIN mem :
  /\ a \in Nat /\ mem'[a] \in Nat
  /\ Clear(mem, a, mem'[a], a)
  /\ mem' = With(mem, a, mem'[a])

Release == \E a \in DOMAIN mem : mem' = Without(mem, a)

Resize == \E a \in DOMAIN mem, b \in DOMAIN mem' :
  /\ b = a \/ b \notin DOMAIN mem
  /\ b \in Nat /\ mem'[b] \in Nat
  /\ Clear(mem, b, mem'[b], a)
  /\ mem' = With(Without(mem, a), b, mem'[b])

\* The engine is gone and its memory with it.
Destroy == mem' = [a \in {} |-> 0]

Next == Alloc \/ Release \/ Resize \/ Destroy

Spec == Init /\ [][Next]_mem
=============================================================================
