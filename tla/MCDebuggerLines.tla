--------------------------- MODULE MCDebuggerLines ---------------------------
(* The streams of the debugger for TLC, of a script that stops in a line      *)
(* whose low byte is like the start of a string.                              *)
EXTENDS DebugStream

MCNames == {<<97>>}
MCFrames == {[file |-> <<97>>, func |-> <<98>>, line |-> 100, pc |-> 1]}
MCCalls == {[kind |-> "callStack", name |-> <<>>, line |-> 0, val |-> <<>>]}
=============================================================================
