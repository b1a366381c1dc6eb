----------------------------- MODULE MCDebugger -----------------------------
(* The debugger for TLC.                                                    *)
EXTENDS DebugTarget

\* A number of the protocol, 8 bytes that look like the start of other values.
ANumber == [type |-> 26, data |-> <<0, 2, 20, 96, 3, 18, 192, 1>>]
Undefined == [type |-> 22, data |-> <<>>]
MCValues ==
  {Undefined, ANumber,
   [type |-> 97, data |-> <<4>>], [type |-> 18, data |-> [i \in 1..33 |-> 97]],
   [type |-> 20, data |-> <<0, 4>>], [type |-> 27, data |-> <<10, 4, 0, 0, 7>>],
   [type |-> 28, data |-> <<0, 3>>]}

MCNames == {<<97>>}
MCNumbers == {1, 63, 300}

Frame(file, func, line, pc) == [file |-> file, func |-> func, line |-> line, pc |-> pc]
MCFrames == {Frame(<<>>, <<97>>, 1, 63), Frame(<<97>>, <<>>, 300, 16383),
             Frame(<<97>>, [i \in 1..31 |-> 98], 64, 65)}

AnyCall(kind, name, line, val) == [kind |-> kind, name |-> name, line |-> line, val |-> val]
MCCalls ==
  {AnyCall("addBreak", <<97>>, line, Undefined) : line \in {63, 64, 16383, 16384}}
  \union {AnyCall("delBreak", <<>>, 63, Undefined)}
  \union {AnyCall(k, [i \in 1..31 |-> 97], 0, Undefined) : k \in {"getVar", "eval"}}
  \union {AnyCall("putVar", <<98>>, 0, v) : v \in {ANumber, [type |-> 97, data |-> <<1, 2>>]}}
  \union {AnyCall(k, <<>>, 0, Undefined) :
            k \in {"pause", "listBreak", "callStack", "locals", "info"}}
=============================================================================
