----------------------------- MODULE DebugCodec -----------------------------
(***************************************************************************)
(* The bytes of the debugger (src/src/ajs_debugger.c): how the target      *)
(* writes a command into the buffer that the interpreter reads, how it     *)
(* takes apart what the interpreter wrote, how it marshals a value of      *)
(* unknown type, and what the console (src/console/ajs_console.cc) makes   *)
(* of it.  Bytes are numbers, names and values are sequences of bytes.     *)
(*                                                                         *)
(* The interpreter is not part of the repository: Duk... says what it      *)
(* writes and what it reads, as the comments of ajs_debugger.c have it.    *)
(***************************************************************************)
EXTENDS Integers, Sequences, SequencesExt

EOM == 0
REQ == 1
REP == 2
ERR == 3
NFY == 4
STRING2 == 18
BUFFER2 == 20
UNUSED == 21
UNDEFINED == 22
NULL == 23
TRUEVAL == 24
FALSEVAL == 25
NUMBER == 26
OBJECT == 27
POINTER == 28
HEAPPTR == 30
Simple == UNUSED..FALSEVAL
ShortString == 96..127
SmallInt == 128..191
LargeInt == 192..255

Bytes(b, first, n) == SubSeq(b, first, first + n - 1)

-----------------------------------------------------------------------------
(* Integers and strings                                                    *)

\* Up to 16383; a larger number is refused before it is encoded.
IntEncode(n) ==
  IF n <= 63 THEN <<128 + n>> ELSE <<192 + (n \div 256), n % 256>>

\* Value and length of the integer at position i, length 0 if there is none.
IntDecode(b, i) ==
  CASE b[i] \in SmallInt -> [val |-> b[i] - 128, adv |-> 1]
    [] b[i] \in LargeInt -> [val |-> (b[i] - 192) * 256 + b[i + 1], adv |-> 2]
    [] OTHER             -> [val |-> 0, adv |-> 0]

\* Two bytes of length are read in the order of the host, not of the protocol.
StringDecode(b, i) ==
  CASE b[i] \in ShortString ->
         [val |-> Bytes(b, i + 1, b[i] - 96), adv |-> 1 + b[i] - 96]
    [] b[i] = STRING2 ->
         LET sz == b[i + 1] + 256 * b[i + 2] IN
         [val |-> Bytes(b, i + 3, sz), adv |-> (3 + sz) % 256]
    [] OTHER -> [val |-> <<>>, adv |-> 0]

\* UnmarshalBuffer: the values of a signature of integers "i", strings "s" and
\* bytes "y" from position i on, and the position behind them.
Decode(b, i, t) ==
  CASE t = "i" -> IntDecode(b, i)
    [] t = "s" -> StringDecode(b, i)
    [] t = "y" -> [val |-> b[i], adv |-> 1]

Unmarshalled(b, acc, t) ==
  LET d == Decode(b, acc.pos, t) IN [vals |-> Append(acc.vals, d.val), pos |-> acc.pos + d.adv]

UnmarshalBuffer(b, i, sig) ==
  LET after[k \in 0..Len(sig)] ==
        IF k = 0 THEN [vals |-> <<>>, pos |-> i] ELSE Unmarshalled(b, after[k - 1], sig[k])
  IN  after[Len(sig)]

-----------------------------------------------------------------------------
(* Values                                                                  *)

\* What the interpreter writes for a value [type, data]; the data of an object
\* are its class number and a pointer.
DukValue(v) ==
  CASE v.type \in Simple -> <<v.type>>
    [] v.type \in ShortString \union {NUMBER} -> <<v.type>> \o v.data
    [] v.type \in {STRING2, BUFFER2} ->
         <<v.type, Len(v.data) \div 256, Len(v.data) % 256>> \o v.data
    [] v.type = OBJECT -> <<v.type, v.data[1], Len(v.data) - 1>> \o Tail(v.data)
    [] v.type \in {POINTER, HEAPPTR} -> <<v.type, Len(v.data)>> \o v.data

\* Mutant: the class number of an object is left out.
MarshalNoClass(b, i, type) ==
  LET sz == IF type = OBJECT THEN b[i + 1] ELSE b[i]
      at == IF type = OBJECT THEN i + 2 ELSE i + 1
  IN [size |-> sz + at - i, arg |-> [sig |-> "(yyay)", type |-> type, extra |-> 0,
                                     data |-> Bytes(b, at, sz)]]

\* A struct of type, class number (0 for a pointer) and bytes.
MarshalObject(b, i, type) ==
  LET sz == IF type = OBJECT THEN b[i + 1] ELSE b[i] IN
  IF type = OBJECT
  THEN [size |-> 2 + sz, arg |-> [sig |-> "(yyay)", type |-> type, extra |-> b[i],
                                  data |-> Bytes(b, i + 2, sz)]]
  ELSE [size |-> 1 + sz, arg |-> [sig |-> "(yyay)", type |-> type, extra |-> 0,
                                  data |-> Bytes(b, i + 1, sz)]]

\* MarshalTvalMsg: the variant marshalled for the value of this type whose data
\* start at position i, and how many bytes they are.
MarshalTvalMsg(b, i, type) ==
  LET long == b[i] * 256 + b[i + 1] IN
  CASE type = NUMBER -> [size |-> 8, arg |-> [sig |-> "t", data |-> Bytes(b, i, 8)]]
    [] type \in Simple -> [size |-> 0, arg |-> [sig |-> "y", data |-> <<type>>]]
    [] type = BUFFER2 ->
         [size |-> 2 + long, arg |-> [sig |-> "(qay)", data |-> Bytes(b, i + 2, long)]]
    [] type \in ShortString ->
         [size |-> type - 96, arg |-> [sig |-> "s", data |-> Bytes(b, i, type - 96)]]
    [] type \in {OBJECT, POINTER, HEAPPTR} -> MarshalObject(b, i, type)
    [] type = STRING2 ->
         [size |-> 2 + long, arg |-> [sig |-> "s", data |-> Bytes(b, i + 2, long)]]
    [] OTHER -> [size |-> 0, arg |-> [sig |-> "none", data |-> <<>>]]

\* ParseDvalData: the console's type and bytes of a variant; a string ends in 0.
ParseDvalData(identifier, arg) ==
  CASE identifier = STRING2       -> [type |-> identifier, data |-> Append(arg.data, 0)]
    [] identifier \in Simple      -> [type |-> arg.data[1], data |-> arg.data]
    [] identifier = NUMBER        -> [type |-> NUMBER, data |-> arg.data]
    [] identifier = OBJECT        -> [type |-> arg.type, data |-> <<arg.extra>> \o arg.data]
    [] identifier \in {POINTER, HEAPPTR} -> [type |-> arg.type, data |-> arg.data]
    [] identifier = BUFFER2       -> [type |-> identifier, data |-> arg.data]
    [] identifier \in ShortString -> [type |-> 96, data |-> Append(arg.data, 0)]

\* The same value as the console should show it.
Shown(v) ==
  CASE v.type \in Simple      -> [type |-> v.type, data |-> <<v.type>>]
    [] v.type \in ShortString -> [type |-> 96, data |-> Append(v.data, 0)]
    [] v.type = STRING2       -> [type |-> v.type, data |-> Append(v.data, 0)]
    [] OTHER                  -> v

-----------------------------------------------------------------------------
(* Commands                                                                *)

PAUSE_REQ == 18
ADD_BREAK_REQ == 24
DEL_BREAK_REQ == 25
LIST_BREAK_REQ == 23
GET_VAR_REQ == 26
PUT_VAR_REQ == 27
GET_CALL_STACK_REQ == 28
GET_LOCALS_REQ == 29
EVAL_REQ == 30
BASIC_INFO_REQ == 16
SimpleCommands == {PAUSE_REQ, LIST_BREAK_REQ, GET_CALL_STACK_REQ, GET_LOCALS_REQ,
                   BASIC_INFO_REQ}

Request(command, args) == <<REQ, 128 + command>> \o args \o <<EOM>>

\* The length of a name shares its byte with the type, a bitwise or with 0x60.
NameEncode(name) == <<96 + (Len(name) % 32)>> \o name

\* Mutant: any line is encoded.
AnyLine(line) == TRUE

\* Other lines are refused.
LineFits(line) == line <= 16383
DebugAddBreak(file, line) == Request(ADD_BREAK_REQ, NameEncode(file) \o IntEncode(line))
\* The index is not checked: it must fit into a small integer.
DebugDelBreak(index) == Request(DEL_BREAK_REQ, <<128 + index>>)
DebugGetVar(var) == Request(GET_VAR_REQ, NameEncode(var))
DebugEval(eval) == Request(EVAL_REQ, NameEncode(eval))
DebugSimpleCommand(command) == Request(command, <<>>)

\* Mutant: the bytes of a number are not swapped.
PutUnswapped(name, v) == Request(PUT_VAR_REQ, NameEncode(name) \o <<v.type>> \o v.data)

\* A number comes in the order of the host and goes out in that of the protocol.
DebugPutVar(name, v) ==
  Request(PUT_VAR_REQ, NameEncode(name) \o <<v.type>> \o
                       (IF v.type = NUMBER THEN Reverse(v.data) ELSE v.data))

\* PutVar of the console: the type of a short string follows its new length.
PutType(v) == IF v.type \in ShortString THEN 96 + Len(v.data) ELSE v.type

\* DebugMsgUnmarshal: the bytes that a call of the console puts into the buffer;
\* none if it is refused.
Command(call) ==
  CASE call.kind = "addBreak" ->
         IF LineFits(call.line) THEN DebugAddBreak(call.name, call.line) ELSE <<>>
    [] call.kind = "delBreak" -> DebugDelBreak(call.line)
    [] call.kind = "getVar"   -> DebugGetVar(call.name)
    [] call.kind = "eval"     -> DebugEval(call.name)
    [] call.kind = "putVar"   ->
         DebugPutVar(call.name, [call.val EXCEPT !.type = PutType(call.val)])
    [] call.kind = "pause"     -> DebugSimpleCommand(PAUSE_REQ)
    [] call.kind = "listBreak" -> DebugSimpleCommand(LIST_BREAK_REQ)
    [] call.kind = "callStack" -> DebugSimpleCommand(GET_CALL_STACK_REQ)
    [] call.kind = "locals"    -> DebugSimpleCommand(GET_LOCALS_REQ)
    [] call.kind = "info"      -> DebugSimpleCommand(BASIC_INFO_REQ)

\* What the interpreter reads in a request: the values between command and EOM.
DukRequest(b) ==
  LET name == StringDecode(b, 3) IN
  CASE b[2] - 128 = ADD_BREAK_REQ ->
         [name |-> name.val, line |-> IntDecode(b, 3 + name.adv).val]
    [] b[2] - 128 = DEL_BREAK_REQ -> [line |-> IntDecode(b, 3).val]
    [] b[2] - 128 \in {GET_VAR_REQ, EVAL_REQ} -> [name |-> name.val]
    [] b[2] - 128 = PUT_VAR_REQ ->
         [name |-> name.val, val |-> SubSeq(b, 3 + name.adv, Len(b) - 1)]
    [] OTHER -> [command |-> b[2] - 128]

\* What it should read for a call.
Asked(call) ==
  CASE call.kind = "addBreak" -> [name |-> call.name, line |-> call.line]
    [] call.kind = "delBreak" -> [line |-> call.line]
    [] call.kind \in {"getVar", "eval"} -> [name |-> call.name]
    [] call.kind = "putVar" ->
         [name |-> call.name,
          val |-> DukValue(IF call.val.type = NUMBER
                           THEN [call.val EXCEPT !.data = Reverse(@)]
                           ELSE [call.val EXCEPT !.type = PutType(call.val)])]
    [] call.kind = "pause"     -> [command |-> PAUSE_REQ]
    [] call.kind = "listBreak" -> [command |-> LIST_BREAK_REQ]
    [] call.kind = "callStack" -> [command |-> GET_CALL_STACK_REQ]
    [] call.kind = "locals"    -> [command |-> GET_LOCALS_REQ]
    [] call.kind = "info"      -> [command |-> BASIC_INFO_REQ]
=============================================================================
