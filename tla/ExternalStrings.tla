--------------------------- MODULE ExternalStrings ---------------------------
(***************************************************************************)
(* Strings that are kept in the program's memory and not on the heap       *)
(* (src/src/ajs_extstr.c): a binary search over a sorted table of words.   *)
(*                                                                         *)
(* Words are sequences of letters, which are numbers; the table of the     *)
(* program is any table of a few words here.                               *)
(***************************************************************************)
EXTENDS Integers, Sequences, FiniteSets

CONSTANTS
  Words,    \* what may be in the table, and what is looked up
  MinLen,   \* shorter strings are not looked up; 4 in the program
  MaxTable  \* bound: words in the table

VARIABLES
  sortedWords,  \* the table
  str,          \* the string that duktape interns
  min, max,     \* the part of the table that is searched
  found         \* the word, "none", or "searching"

vars == <<sortedWords, str, min, max, found>>

Less(s, t) ==
  \E n \in 1..Len(t) :
    /\ \A i \in 1..n - 1 : i <= Len(s) /\ s[i] = t[i]
    /\ n > Len(s) \/ s[n] < t[n]

SortedTables ==
  {t \in UNION {[1..n -> Words] : n \in 2..MaxTable} : \A i \in 1..Len(t) - 1 : Less(t[i], t[i + 1])}

Init ==
  /\ sortedWords \in SortedTables /\ str = << >> /\ min = 0 /\ max = 0 /\ found = <<"none">>

AJS_ExternalStringCheck ==
  /\ found # <<"searching">> /\ \E w \in Words : str' = w
  /\ IF Len(str') < MinLen THEN found' = <<"none">> /\ UNCHANGED <<min, max>>
     ELSE found' = <<"searching">> /\ min' = 0 /\ max' = Len(sortedWords) - 1
  /\ UNCHANGED sortedWords

\* One round of the search; a word that begins with the string comes after it.  The
\* upper end is never looked at.
Search ==
  LET pos == min + (max - min) \div 2
      word == sortedWords[pos + 1] IN
  /\ found = <<"searching">>
  /\ IF str = word THEN found' = <<"found", word>> /\ UNCHANGED <<min, max>>
     ELSE /\ IF Less(str, word)
             THEN max' = pos /\ UNCHANGED min
             ELSE min' = pos + 1 /\ UNCHANGED max
          /\ found' = IF max' = min' THEN <<"none">> ELSE <<"searching">>
  /\ UNCHANGED <<sortedWords, str>>

Next == AJS_ExternalStringCheck \/ Search

Spec == Init /\ [][Next]_vars

-----------------------------------------------------------------------------
(* Properties                                                              *)

\* The search stays within the table, and gets smaller in every round.
\* It finds every word of the table but the last, and nothing else.
SearchFinds ==
  /\ found = <<"searching">> => 0 <= min /\ min < max /\ max < Len(sortedWords)
  /\ found[1] = "found" => found[2] = str
  /\ found = <<"none">> /\ Len(str) >= MinLen =>
       \A i \in 1..Len(sortedWords) - 1 : sortedWords[i] # str
=============================================================================
