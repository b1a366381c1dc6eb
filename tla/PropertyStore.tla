---------------------------- MODULE PropertyStore ----------------------------
(***************************************************************************)
(* The properties of the device that About announces and the Config        *)
(* service changes (src/src/ajs_propstore.c), and the languages they are   *)
(* in (src/src/ajs_translations.c).  A localized property is one value of  *)
(* the non-volatile memory that holds the string of each language, under   *)
(* the name of the language; peers give the index of a language in the     *)
(* table that the script defines, and which is the current language is     *)
(* itself one of the properties.                                           *)
(***************************************************************************)
EXTENDS Naturals, Sequences, FiniteSets

CONSTANTS
  Fields,  \* the properties, in their order: one of a sort is enough
  Langs,   \* names of languages, "en" among them
  Tables,  \* what the script may define as its languages
  MayFail  \* bound: properties of which a write may fail

VARIABLES
  nv,         \* the non-volatile memory: the strings of each property
  phase,      \* "script": the installed script runs, "loop", "lost": used the context of no heap
  languages,  \* AJ.languages
  stash,      \* the stash holds an object of translations
  default,    \* where the initial description is: "built-in", "script", "freed"
  told,       \* history: what was set, under the index of the language, and must be read
  fresh       \* history: nothing was set since all was reset

vars == <<nv, phase, languages, stash, default, told, fresh>>

FieldSet == {Fields[i] : i \in DOMAIN Fields}
Localized == {"DeviceName", "Description"}
Private == {"RealmName"}
ReadOnly == {"DeviceId"}
Announced == {"DeviceId", "DeviceName", "DefaultLanguage"}

Keys == Langs \union {"any"}  \* the string of a property that is not localized
Strings == Langs \union {"initial", "own", "none", "freed"}
Indices == 0..Cardinality(Langs) - 1
Nothing == [f \in FieldSet |-> [i \in Indices |-> "none"]]
Empty == [k \in Keys |-> "none"]

TypeOK ==
  /\ nv \in [FieldSet -> [Keys -> Strings]]
  /\ told \in [FieldSet -> [Indices -> Strings]]
  /\ phase \in {"script", "loop", "lost"} /\ languages \in {<<>>} \union Tables
  /\ stash \in BOOLEAN /\ default \in {"built-in", "script", "freed"} /\ fresh \in BOOLEAN

Init ==
  /\ nv = [f \in FieldSet |-> Empty] /\ told = Nothing
  /\ phase = "script" /\ languages = <<>> /\ stash = FALSE
  /\ default = "built-in" /\ fresh = FALSE

-----------------------------------------------------------------------------
(* Languages; n is the non-volatile memory                                 *)

CurrentLanguageName(n) == n["DefaultLanguage"]["any"]

NumberOfLanguages == IF languages = <<>> THEN 1 ELSE Len(languages)

NameInTable(n, index) ==
  IF index < Len(languages) THEN languages[index + 1] ELSE CurrentLanguageName(n)

GetLanguageName(n, index) ==
  LET name == IF index < NumberOfLanguages THEN NameInTable(n, index) ELSE CurrentLanguageName(n)
  IN IF name = "none" THEN "en" ELSE name

\* A language that is not in the table counts as its first.
GetLanguageIndex(name) ==
  IF \E i \in DOMAIN languages : languages[i] = name
  THEN CHOOSE i \in 0..Len(languages) - 1 : languages[i + 1] = name
  ELSE 0

GetCurrentLanguage(n) ==
  IF CurrentLanguageName(n) = "none" THEN 0 ELSE GetLanguageIndex(CurrentLanguageName(n))

-----------------------------------------------------------------------------
(* Reading and writing                                                     *)

Stored(n, f) == \E k \in Keys : n[f][k] # "none"

\* Asked for a language, then the current one, then "en".
Localize(n, f, name) ==
  IF n[f][name] # "none" THEN n[f][name]
  ELSE IF CurrentLanguageName(n) # "none" /\ n[f][CurrentLanguageName(n)] # "none"
  THEN n[f][CurrentLanguageName(n)]
  ELSE n[f]["en"]

GetValueForLang(n, f, index) ==
  IF f \in Private THEN "none"
  ELSE IF f \in Localized THEN Localize(n, f, GetLanguageName(n, index))
  ELSE n[f]["any"]

GetValue(n, f) == GetValueForLang(n, f, GetCurrentLanguage(n))

KeyOf(n, f, index) == IF f \in Localized THEN GetLanguageName(n, index) ELSE "any"

\* Mutant: the strings of the other languages are not read before.
SetValueAlone(n, f, index, value, failing) ==
  [n EXCEPT ![f] = IF f \in failing THEN Empty ELSE [Empty EXCEPT ![KeyOf(n, f, index)] = value]]

\* A value that is there already is not written again; where the write fails
\* nothing is left of the property, and nobody is told.
SetValueForLang(n, f, index, value, failing) ==
  LET k == KeyOf(n, f, index) IN
  [n EXCEPT ![f] = IF n[f][k] # value /\ f \in failing THEN Empty ELSE [@ EXCEPT ![k] = value]]

InitialValue(f, from) ==
  CASE f = "RealmName"       -> "none"
    [] f = "DefaultLanguage" -> "en"
    [] f = "Description"     -> IF from = "freed" THEN "freed" ELSE "initial"
    [] OTHER                 -> "initial"

\* A property that is there stays as it is, unless all are reset.
InitField(n, f, from, force, failing) ==
  IF (~force /\ Stored(n, f)) \/ InitialValue(f, from) = "none" THEN n
  ELSE SetValueForLang(n, f, GetCurrentLanguage(n), InitialValue(f, from), failing)

\* In the order of the fields, each in the language that is then the current.
InitProperties(start, from, force, failing) ==
  LET after[i \in 0..Len(Fields)] ==
        IF i = 0 THEN start ELSE InitField(after[i - 1], Fields[i], from, force, failing)
  IN  after[Len(Fields)]

\* What a peer is told of all the properties.
Filtered(filter) ==
  {f \in FieldSet \ Private : \/ filter = "about"
                              \/ filter = "config" /\ f \notin ReadOnly
                              \/ filter = "announce" /\ f \in Announced}

ReadAll(filter, index) == [f \in Filtered(filter) |-> GetValueForLang(nv, f, index)]

-----------------------------------------------------------------------------
(* Actions                                                                 *)

\* At most one write fails in an operation.
Failing == {{}} \union {{f} : f \in MayFail}

\* The script runs before the property store has the context of its heap: the
\* context is that of the heap before, or none.
BuiltInTooEarly ==
  /\ phase = "script" /\ phase' = "lost"
  /\ UNCHANGED <<nv, languages, stash, default, told, fresh>>

\* The command line may give the device a name, at every start.
Named == {nv, SetValueForLang(nv, "DeviceName", GetCurrentLanguage(nv), "own", {})}

\* The definition of the script changes the table of initial values for good;
\* the strings are in its heap.
PropertyStoreInit ==
  /\ phase = "script" /\ phase' = "loop"
  /\ default' \in {default, "script"}
  /\ \E start \in Named, failing \in Failing :
       nv' = InitProperties(start, default', FALSE, failing)
  /\ UNCHANGED <<languages, stash, told, fresh>>

Restart ==
  /\ phase' = "script" /\ languages' = <<>> /\ stash' = FALSE
  /\ default' = (IF default = "script" THEN "freed" ELSE default)
  /\ told' = Nothing /\ fresh' = FALSE /\ UNCHANGED nv

\* The setter of AJ.translations, once in the life of a script.
TranslationsSetter ==
  /\ phase \in {"script", "loop"} /\ ~stash
  /\ stash' = TRUE /\ languages' \in Tables
  /\ told' = Nothing /\ fresh' = FALSE
  /\ UNCHANGED <<nv, phase, default>>

\* Also a lookup leaves an object in the stash, which then refuses the setter.
Translate ==
  /\ phase \in {"script", "loop"} /\ stash' = TRUE
  /\ UNCHANGED <<nv, phase, languages, default, told, fresh>>

\* Without a table the current language is the only one, and a property is read
\* in another language once that is changed.
Told(f, index, value, failing) ==
  IF f = "DefaultLanguage" /\ languages = <<>>
  THEN [Nothing EXCEPT ![f] = [i \in Indices |-> IF f \in failing THEN "none" ELSE value]]
  ELSE [told EXCEPT ![f] = [i \in Indices |->
          IF f \in failing THEN "none"
          ELSE IF i = index \/ f \notin Localized THEN value ELSE @[i]]]

\* One write; the Config service checks nothing of the value.
Set(f, index, value) ==
  /\ phase = "loop"
  /\ \E failing \in {{}, {f} \intersect MayFail} :
       /\ nv' = SetValueForLang(nv, f, index, value, failing)
       /\ told' = Told(f, index, value, failing)
  /\ fresh' = FALSE
  /\ UNCHANGED <<phase, languages, stash, default>>

ValuesOf(f) == IF f = "DefaultLanguage" THEN Langs ELSE {"own"}

\* store in a script: what is read only or private is not changed.
StoreProperty ==
  \E f \in FieldSet \ (ReadOnly \union Private) :
    \E value \in ValuesOf(f) : Set(f, GetCurrentLanguage(nv), value)

\* The Config service names a language.
Update ==
  \E f \in FieldSet, name \in Langs :
    \E value \in ValuesOf(f) : Set(f, GetLanguageIndex(name), value)

\* The passcode is set together with the realm, and the bus is left.
SetPasscode == Set("RealmName", GetCurrentLanguage(nv), "own")

\* What is deleted is not the property; unless that fails, what is missing is then
\* filled in.
Reset ==
  /\ phase = "loop"
  /\ \/ UNCHANGED nv
     \/ \E failing \in Failing : nv' = InitProperties(nv, default, FALSE, failing)
  /\ UNCHANGED <<phase, languages, stash, default, told, fresh>>

\* A factory reset, by the script or by a peer; the program starts anew after it.
FactoryReset ==
  /\ phase = "loop"
  /\ \E failing \in Failing :
       nv' = InitProperties(nv, default, TRUE, failing) /\ fresh' = (failing = {} /\ default # "freed")
  /\ told' = Nothing
  /\ UNCHANGED <<phase, languages, stash, default>>

Next ==
  \/ BuiltInTooEarly \/ PropertyStoreInit \/ Restart \/ TranslationsSetter \/ Translate
  \/ StoreProperty \/ Update \/ SetPasscode \/ Reset \/ FactoryReset

-----------------------------------------------------------------------------
(* Properties                                                              *)

\* What was set in one language is what a peer is told in that language, however
\* the property is set in others and whatever else is set, filled in or reset
\* by name; unless a write failed (SetValueForLang, GetValueForLang, ReadAll).
ReadsBack ==
  \A i \in 0..NumberOfLanguages - 1 : LET all == ReadAll("about", i) IN
    \A f \in DOMAIN all : told[f][i] # "none" => all[f] = told[f][i]

\* After a factory reset the language is the built-in one, and the properties
\* that come after it have their initial value in it (InitProperties).
ResetRestores ==
  fresh => GetValue(nv, "DefaultLanguage") = "en" /\ GetValue(nv, "Description") = "initial"

Spec == Init /\ [][Next]_vars
=============================================================================
