---------------------------- MODULE DebugTarget ----------------------------
(***************************************************************************)
(* The debugger as a whole: sessions of the console (Debugger) and the     *)
(* bytes of what is said in them (DebugStream), one or the other in a      *)
(* behaviour.                                                              *)
(***************************************************************************)
EXTENDS Debugger

CONSTANTS Calls, Names, Numbers, Frames, Values, MaxList  \* of DebugStream

VARIABLES part, call, read, taken, reply, rest, buf, parse, asked, heard

streamVars == <<call, read, taken, reply, rest, buf, parse, asked, heard>>

Stream == INSTANCE DebugStream

-----------------------------------------------------------------------------
(* What goes through the streams unharmed                                  *)

Byte == 0..255

\* The length of a name has five bits.
IsName(s) == s \in Seq(Byte) /\ Len(s) <= 31

\* Bytes in a number, in an object and in a pointer that the scanner of DebuggerWrite
\* takes neither for the start of a value nor for the end of the message.
InObject == 1..95 \ ({Stream!STRING2} \union Stream!BUFFER2..Stream!NUMBER)
InPointer == InObject \ {Stream!OBJECT}
InNumber == InObject \union Stream!LargeInt

IsNumber(n) == n \in Nat /\ n <= 16383 /\ (n <= 63 \/ n % 256 \in InNumber)

IsFrame(f) == IsName(f.file) /\ IsName(f.func) /\ IsNumber(f.line) /\ IsNumber(f.pc)

\* The scanner has one byte for the length of a long string or a buffer.
IsValue(v) ==
  /\ v \in [type : Byte, data : Seq(Byte)]
  /\ \/ v.type \in Stream!Simple /\ v.data = <<>>
     \/ v.type \in Stream!ShortString /\ Len(v.data) = v.type - 96
     \/ v.type = Stream!NUMBER /\ Len(v.data) = 8
     \/ v.type \in {Stream!STRING2, Stream!BUFFER2} /\ Len(v.data) <= 255
     \/ v.type = Stream!OBJECT /\ v.data[1] \in InObject /\ Len(v.data) - 1 \in InObject
     \/ v.type \in {Stream!POINTER, Stream!HEAPPTR} /\ Len(v.data) \in InPointer

\* What the console can ask for: it sets numbers and short strings.
IsCall(c) ==
  /\ IsName(c.name)
  /\ \/ c.kind = "addBreak" /\ c.line \in Nat
     \/ c.kind = "delBreak" /\ c.line \in 0..63
     \/ /\ c.kind = "putVar" /\ c.val \in [type : Byte, data : Seq(Byte)]
        /\ \/ c.val.type = Stream!NUMBER /\ Len(c.val.data) = 8
           \/ c.val.type \in Stream!ShortString /\ Len(c.val.data) \in 1..31
     \/ c.kind \in {"getVar", "eval", "pause", "listBreak", "callStack", "locals", "info"}

ASSUME StreamAssumption ==
  /\ MaxList \in Nat
  /\ \A c \in Calls : IsCall(c)
  /\ \A s \in Names : IsName(s)
  /\ \A n \in Numbers : IsNumber(n)
  /\ \A f \in Frames : IsFrame(f)
  /\ \A v \in Values : IsValue(v)

-----------------------------------------------------------------------------
TargetInit == Init /\ Stream!Init /\ part \in {"session", "stream"}

TargetNext ==
  \/ part = "session" /\ Next /\ UNCHANGED <<part, streamVars>>
  \/ part = "stream" /\ Stream!Next /\ UNCHANGED <<part, vars>>

allVars == <<part, vars, streamVars>>

TargetSpec == TargetInit /\ [][TargetNext]_allVars /\ Fairness

-----------------------------------------------------------------------------
(* Properties                                                              *)

\* Every variable of the sessions and of the streams has a value of its type.
TypesOK == TypeOK /\ Stream!TypeOK

\* Wherever the interpreter cuts what it writes, DebuggerWrite finds the ends of its
\* messages, and the console is told what was sent.
RepliesArrive == Stream!RepliesArrive

\* In whatever pieces DebuggerRead hands out a request, the interpreter understands
\* what the console asked for.
RequestsArrive == Stream!RequestsArrive

\* The scanner of DebuggerWrite knows every byte it comes to, and is at rest between
\* messages.
StreamInStep == Stream!StreamInStep
=============================================================================
