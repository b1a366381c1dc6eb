------------------------------- MODULE MCBoard -------------------------------
(***************************************************************************)
(* The message loop and the parts around the scripts, for TLC.  The values *)
(* in messages (Marshal) are one part more, next to those of Board.        *)
(***************************************************************************)
EXTENDS Board, TLC

CONSTANTS Scalars, Numbers  \* of Marshal

VARIABLES sig, value, body, got

Values == INSTANCE Marshal

valuesVars == <<sig, value, body, got>>

MCInit ==
  \/ BoardInit /\ sig = 0 /\ value = 0 /\ body = 0 /\ got = 0
  \/ part = "values" /\ Values!Init /\ Init /\ ~printed /\ ~locked /\ IdleInit

MCNext ==
  \/ BoardNext /\ UNCHANGED valuesVars
  \/ part = "values" /\ Values!Next /\ UNCHANGED boardVars

MCSpec == MCInit /\ [][MCNext]_<<boardVars, valuesVars>>

\* A value that was sent is the value that is read (Marshal).
ValuesAgree == part = "values" => Values!RoundTrip

\* Of properties that are localized and not, one before and one after that of the
\* language, and the one of the passcode; and tables with and without "en".
MCFields == <<"DeviceName", "DefaultLanguage", "RealmName", "Description">>
MCTables == {<<"en", "fr">>, <<"fr">>}
MCMayFail == {"DefaultLanguage", "Description"}

\* Words of two letters; the shortest are not looked up.
MCWords == UNION {[1..n -> {1, 2}] : n \in 1..3}

\* Calls and objects are told apart by nothing else than which is which.
Symmetry == Permutations(Calls) \union Permutations(Objs)
=============================================================================
