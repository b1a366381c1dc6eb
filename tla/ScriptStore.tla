----------------------------- MODULE ScriptStore -----------------------------
(***************************************************************************)
(* The properties that a script keeps itself, with AJ.store and AJ.load    *)
(* (src/src/ajs_handlers.c): a list, itself one entry of the non-volatile  *)
(* memory, has the identifier of the entry of each property.  The list is  *)
(* written before the value, and power may fail in between.                *)
(***************************************************************************)
EXTENDS Naturals, FiniteSets

CONSTANTS
  Props,  \* names of properties
  Vals,   \* their values
  Ids     \* identifiers of entries: 1..256 in the program

VARIABLES
  list,    \* the list: the identifier of each property, or 0
  data,    \* the entries: what was stored, and for which property
  kept,    \* history: the value that each property must have
  forgot   \* history: the list was lost

vars == <<list, data, kept, forgot>>

None == "none"
Entries == Props \X Vals \union {<<None, None>>}

TypeOK ==
  /\ list \in [Props -> Ids \union {0}] /\ data \in [Ids -> Entries]
  /\ kept \in [Props -> Vals \union {None}] /\ forgot \in BOOLEAN

Init ==
  /\ list = [p \in Props |-> 0] /\ data = [i \in Ids |-> <<None, None>>]
  /\ kept = [p \in Props |-> None] /\ forgot = FALSE

\* The list of the boot before; a list that could not be written is empty.
Used == {list[p] : p \in Props} \ {0}

FreeSlot ==
  IF Ids \subseteq Used THEN 0 ELSE CHOOSE i \in Ids \ Used : \A j \in Ids \ Used : i <= j

\* The list is lost when opening it for writing, or the write, fails.
LoseList ==
  /\ list' = [p \in Props |-> 0] /\ forgot' = TRUE
  /\ kept' = [p \in Props |-> None] /\ UNCHANGED data

\* The value is written last; if that fails nobody is told.
Write(p, id, v) ==
  /\ list' = [list EXCEPT ![p] = id] /\ UNCHANGED forgot
  /\ \/ data' = [data EXCEPT ![id] = <<p, v>>] /\ kept' = [kept EXCEPT ![p] = v]
     \/ data' = [data EXCEPT ![id] = <<None, None>>] /\ kept' = [kept EXCEPT ![p] = None]
     \/ list[p] = 0 /\ kept' = [kept EXCEPT ![p] = None] /\ UNCHANGED data

\* Without a free identifier an error is thrown.
StorePropInNVRAM(p, v) ==
  IF list[p] # 0 THEN Write(p, list[p], v)
  ELSE FreeSlot # 0 /\ (LoseList \/ Write(p, FreeSlot, v))

\* undefined without an identifier, an error without an entry.
LoadPropFromNVRAM(p) == IF list[p] = 0 THEN None ELSE data[list[p]][2]

Next == \E p \in Props, v \in Vals : StorePropInNVRAM(p, v)

Spec == Init /\ [][Next]_vars

-----------------------------------------------------------------------------
(* Properties                                                              *)

\* As long as the list was not lost, a property reads as it was stored last, or
\* as nothing when that failed, and never as the value of another.
LoadsOwn ==
  ~forgot => \A p \in Props :
    /\ LoadPropFromNVRAM(p) = kept[p]
    /\ list[p] # 0 => data[list[p]][1] \in {p, None}
=============================================================================
