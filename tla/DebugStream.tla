---------------------------- MODULE DebugStream ----------------------------
(***************************************************************************)
(* The two byte streams between the target of the debugger and its script  *)
(* interpreter (src/src/ajs_debugger.c): DebuggerRead hands out the        *)
(* request of a call in pieces, DebuggerWrite collects the pieces of a     *)
(* reply or a notification, finds its end and has it marshalled for the    *)
(* console.                                                                *)
(*                                                                         *)
(* The interpreter cuts what it writes anywhere, but writes the end of a   *)
(* message on its own.  One call is under way at a time, as the console    *)
(* waits for each reply.                                                   *)
(***************************************************************************)
EXTENDS DebugCodec

CONSTANTS
  Calls,    \* what the console asks for: [kind, name, line, val]
  Names,    \* names of files and variables that the interpreter reports
  Numbers,  \* its line numbers and versions
  Frames,   \* places in the script: [file, func, line, pc]
  Values,   \* values: [type, data]
  MaxList   \* bound: entries of a list that it reports

VARIABLES
  call,    \* the call under way, NoCall between calls
  read,    \* bytes in the read buffer
  taken,   \* bytes of the request that the interpreter has read
  reply,   \* the message the interpreter is writing, NoReply if none
  rest,    \* its bytes still to be written
  buf,     \* the write buffer up to its write pointer
  parse,   \* the state of the scanner of DebuggerWrite
  asked,   \* what the interpreter understood of the last request
  heard    \* history: the message just ended and what the console was told of it

vars == <<call, read, taken, reply, rest, buf, parse, asked, heard>>

NoCall == [kind |-> "none"]
NoReply == [kind |-> "none"]
Nothing == [sent |-> NoReply, shown |-> NoReply]
AtRest == [nextChunk |-> 0, lastType |-> 0, curTypePos |-> -1, internal |-> 0,
           msgLength |-> 0, stuck |-> FALSE]

TypeOK ==
  /\ call \in Calls \union {NoCall}
  /\ read \in Seq(0..255) /\ taken \in Seq(0..255)
  /\ rest \in Seq(0..255) /\ buf \in Seq(0..255)
  /\ parse \in [nextChunk : Nat, lastType : 0..255, curTypePos : -1..4, internal : Nat,
                msgLength : Nat, stuck : BOOLEAN]

Init ==
  /\ call = NoCall /\ read = <<>> /\ taken = <<>> /\ asked = <<>>
  /\ reply = NoReply /\ rest = <<>> /\ buf = <<>> /\ parse = AtRest
  /\ heard = Nothing

\* Bound: the interpreter reads and writes a byte, two, or all there is.
Pieces(bytes) == {n \in {1, 2, Len(bytes)} : n <= Len(bytes) /\ n > 0}

-----------------------------------------------------------------------------
(* Requests                                                                *)

\* A call for the debugger reaches the target, which puts a request for the
\* interpreter into the read buffer or refuses.
DebugMsgUnmarshal ==
  /\ call = NoCall
  /\ \E c \in Calls :
       /\ Command(c) # <<>>
       /\ call' = c /\ read' = Command(c)
  /\ taken' = <<>> /\ asked' = <<>>
  /\ UNCHANGED <<reply, rest, buf, parse, heard>>

\* DebuggerRead: the interpreter gets as much as it asks for or as there is.
DebuggerRead ==
  /\ read # <<>>
  /\ \E n \in Pieces(read) :
       /\ taken' = taken \o SubSeq(read, 1, n)
       /\ read' = SubSeq(read, n + 1, Len(read))
       /\ asked' = IF n = Len(read) THEN DukRequest(taken') ELSE asked
  /\ UNCHANGED <<call, reply, rest, buf, parse, heard>>

-----------------------------------------------------------------------------
(* What the interpreter writes (external)                                  *)

Listing(Entry) == UNION {[1..n -> Entry] : n \in 0..MaxList}

\* The replies there are to a call.
Answers(c) ==
  CASE c.kind \in {"getVar", "eval"} ->
         [kind : {c.kind}, good : BOOLEAN, val : Values]
    [] c.kind = "listBreak" -> [kind : {c.kind}, list : Listing([file : Names, line : Numbers])]
    [] c.kind = "callStack" -> [kind : {c.kind}, list : Listing(Frames)]
    [] c.kind = "locals"    -> [kind : {c.kind}, list : Listing([name : Names, val : Values])]
    [] c.kind = "info"      -> [kind : {c.kind}, version : Numbers, name : Names]
    [] OTHER                -> [kind : {"simple"}]

DukString(s) == <<96 + Len(s)>> \o s
DukFrame(f) == DukString(f.file) \o DukString(f.func) \o IntEncode(f.line) \o IntEncode(f.pc)

\* An entry of a list, and the entries one after the other.
DukEntry(kind, e) ==
  CASE kind = "listBreak" -> DukString(e.file) \o IntEncode(e.line)
    [] kind = "callStack" -> DukFrame(e)
    [] kind = "locals"    -> DukString(e.name) \o DukValue(e.val)

DukList(kind, list) ==
  LET upTo[n \in 0..Len(list)] ==
        IF n = 0 THEN <<>> ELSE upTo[n - 1] \o DukEntry(kind, list[n])
  IN  upTo[Len(list)]

\* Valid is 1 for a variable that was found, 0 for an evaluation that succeeded.
Valid(m) == IF m.good = (m.kind = "getVar") THEN 1 ELSE 0

DukMessage(m) ==
  CASE m.kind \in {"getVar", "eval"} -> <<REP, 128 + Valid(m)>> \o DukValue(m.val)
    [] m.kind \in {"listBreak", "callStack", "locals"} -> <<REP>> \o DukList(m.kind, m.list)
    [] m.kind = "info" ->
         <<REP>> \o IntEncode(m.version) \o DukString(m.name) \o DukString(m.name) \o <<129>>
    [] m.kind = "error" -> <<ERR, 129>> \o DukString(m.name)
    [] m.kind = "idle" -> <<NFY, 129, 128 + m.state, UNDEFINED, UNDEFINED, 128, 128>>
    [] m.kind = "status" -> <<NFY, 129, 128 + m.state>> \o DukFrame(m.at)
    [] OTHER -> <<REP>>

Notifications ==
  [kind : {"idle"}, state : {0, 1}] \union [kind : {"status"}, state : {0, 1}, at : Frames]
Errors == [kind : {"error"}, name : Names]

\* It answers a request that it has read, or reports a change of its state.
DukSends ==
  /\ rest = <<>> /\ reply = NoReply
  /\ \/ \E m \in Notifications : reply' = m
     \/ call # NoCall /\ read = <<>> /\ \E m \in Answers(call) \union Errors : reply' = m
  /\ rest' = DukMessage(reply')
  /\ heard' = Nothing
  /\ UNCHANGED <<call, read, taken, buf, parse, asked>>

-----------------------------------------------------------------------------
(* DebuggerWrite                                                           *)

Swap16(n) == (n \div 256) + 256 * (n % 256)

\* The first byte names the type, the next two are the length.  The second
\* overwrites what the first one left: a length is taken modulo 256.
Handle2ByteType(p, b) ==
  IF p.lastType \notin {BUFFER2, STRING2} THEN [p EXCEPT !.lastType = b, !.curTypePos = 0]
  ELSE IF p.curTypePos = 0 THEN [p EXCEPT !.internal = b, !.curTypePos = 1]
  ELSE [p EXCEPT !.curTypePos = -1, !.nextChunk = Swap16(b * 256), !.internal = 0,
                 !.lastType = 0]

\* An object: its type, class number and length of its pointer.
HandleObjectType(p, b) ==
  IF p.lastType # OBJECT THEN [p EXCEPT !.lastType = OBJECT, !.curTypePos = 0]
  ELSE IF p.curTypePos = 0 THEN [p EXCEPT !.curTypePos = 1]
  ELSE [p EXCEPT !.nextChunk = b, !.curTypePos = 0]

HandlePointerType(p, b) ==
  IF p.lastType \in {POINTER, HEAPPTR} THEN [p EXCEPT !.lastType = 0, !.nextChunk = b]
  ELSE [p EXCEPT !.lastType = b]

\* One byte that is not the end of a message, in the order of the tests.
ScanByte(p, b) ==
  CASE p.nextChunk > 0                            -> [p EXCEPT !.nextChunk = @ - 1]
    [] p.nextChunk = 0 /\ b \in {REP, NFY, ERR} /\ p.lastType = 0 -> p
    [] OTHER ->
       IF b \in {BUFFER2, STRING2} \/ p.lastType \in {BUFFER2, STRING2}
         THEN Handle2ByteType(p, b)
       ELSE IF b \in SmallInt THEN p
       ELSE IF b \in ShortString THEN [p EXCEPT !.nextChunk = b - 96, !.lastType = 0]
       ELSE IF b = NUMBER THEN [p EXCEPT !.nextChunk = 8]
       ELSE IF b \in Simple THEN p
       ELSE IF b \in LargeInt \/ p.lastType = 192
         THEN [p EXCEPT !.lastType = IF @ = 192 THEN 0 ELSE 192]
       ELSE IF b = OBJECT \/ p.lastType = OBJECT THEN HandleObjectType(p, b)
       ELSE IF b \in {POINTER, HEAPPTR} \/ p.lastType \in {POINTER, HEAPPTR}
         THEN HandlePointerType(p, b)
       ELSE [p EXCEPT !.stuck = TRUE]

\* The byte ends the message: reached as an element, outside a chunk and a length.
Ends(p, b) ==
  b = EOM /\ p.nextChunk = 0 /\ p.lastType \notin {BUFFER2, STRING2}

\* The scanner goes over n bytes from its position and stops at the end of a
\* message or at a byte that it does not know.
Scanned(s, b) ==
  IF s.over \/ s.p.stuck THEN s
  ELSE IF Ends(s.p, b)
  THEN [p |-> [s.p EXCEPT !.nextChunk = 0, !.lastType = 0], over |-> TRUE, n |-> s.n]
  ELSE LET q == ScanByte(s.p, b) IN
       [p |-> q, over |-> FALSE, n |-> IF q.stuck THEN s.n ELSE s.n + 1]

Scan(p, bytes) ==
  LET after[k \in 0..Len(bytes)] ==
        IF k = 0 THEN [p |-> p, over |-> FALSE, n |-> 0] ELSE Scanned(after[k - 1], bytes[k])
  IN  after[Len(bytes)]

-----------------------------------------------------------------------------
(* AJS_DebuggerHandleMessage and what the console makes of it              *)

ShownFrame(v) == [file |-> v[1], func |-> v[2], line |-> v[3] % 65536, pc |-> v[4] % 256]

\* An entry of a list, and the position behind it.  The value of a local variable
\* is marshalled by type.
BreakEntry(b, i) ==
  LET u == UnmarshalBuffer(b, i, <<"s", "i">>) IN
  [pos |-> u.pos, val |-> [file |-> u.vals[1], line |-> u.vals[2] % 65536]]

FrameEntry(b, i) ==
  LET u == UnmarshalBuffer(b, i, <<"s", "s", "i", "i">>) IN
  [pos |-> u.pos, val |-> ShownFrame(u.vals)]

LocalEntry(b, i) ==
  LET u == UnmarshalBuffer(b, i, <<"s", "y">>)
      m == MarshalTvalMsg(b, u.pos, u.vals[2])
  IN  [pos |-> u.pos + m.size,
       val |-> [name |-> u.vals[1], val |-> ParseDvalData(u.vals[2], m.arg)]]

Entry(kind, b, i) ==
  CASE kind = "listBreak" -> BreakEntry(b, i)
    [] kind = "callStack" -> FrameEntry(b, i)
    [] kind = "locals"    -> LocalEntry(b, i)

\* The end of the variables is known by the length alone, of all the bytes that the
\* scanner counted.
More(kind, b, i, length) == IF kind = "locals" THEN i <= length ELSE b[i] # EOM

\* The entries of a list, one after the other up to its end.
TakeEntry(kind, b, length, acc) ==
  IF ~More(kind, b, acc.pos, length) THEN acc
  ELSE LET e == Entry(kind, b, acc.pos) IN [pos |-> e.pos, list |-> Append(acc.list, e.val)]

ReplyList(b, kind, length) ==
  LET after[k \in 0..MaxList + 1] ==
        IF k = 0 THEN [pos |-> 2, list |-> <<>>] ELSE TakeEntry(kind, b, length, after[k - 1])
  IN  [kind |-> kind, list |-> after[MaxList + 1].list]

\* The value of a variable or of an expression; valid is 1 for the one that was
\* found, 0 for the other that was evaluated.
ReplyValue(b, kind) ==
  LET valid == b[2] - 128 IN
  IF IF kind = "getVar" THEN valid = 1 ELSE valid = 0
  THEN [kind |-> kind, good |-> TRUE,
        val |-> ParseDvalData(b[3], MarshalTvalMsg(b, 4, b[3]).arg)]
  ELSE [kind |-> kind, good |-> FALSE]

ReplyBasicInfo(b) ==
  LET v == UnmarshalBuffer(b, 2, <<"i", "s", "s", "i">>).vals IN
  [kind |-> "info", version |-> v[1] % 256, name |-> v[2]]

HandleReply(b, kind, length) ==
  CASE kind \in {"getVar", "eval"} -> ReplyValue(b, kind)
    [] kind = "info"      -> ReplyBasicInfo(b)
    [] kind \in {"listBreak", "callStack", "locals"} -> ReplyList(b, kind, length)
    [] OTHER              -> [kind |-> "simple"]

HandleNotification(b) ==
  LET st == UnmarshalBuffer(b, 2, <<"i", "i">>) IN
  IF b[st.pos] = UNDEFINED THEN [kind |-> "idle", state |-> st.vals[2]]
  ELSE [kind |-> "status", state |-> st.vals[2],
        at |-> ShownFrame(UnmarshalBuffer(b, st.pos, <<"s", "s", "i", "i">>).vals)]

\* The message in the buffer, as it is delivered; kind is that of the last request.
HandleMessage(b, kind, length) ==
  CASE b[1] = NFY -> HandleNotification(b)
    [] b[1] = ERR -> [kind |-> "error"]
    [] b[1] = REP -> HandleReply(b, kind, length)
    [] OTHER      -> NoReply

\* Mutant: the position is not put back to the start of the buffer.
KeepLength(s, length) == length + s.n

\* What the scanner has gone over of the message, 0 once it is handled.
MsgLength(s, length) == (IF s.over THEN 0 ELSE length) + s.n

Write(chunk) ==
  LET all == buf \o chunk
      s == Scan(parse, SubSeq(all, parse.msgLength + 1, parse.msgLength + Len(chunk)))
      shown == HandleMessage(all, call.kind, parse.msgLength)
  IN
  /\ parse' = [s.p EXCEPT !.msgLength = MsgLength(s, @)]
  /\ IF s.over
     THEN /\ heard' = [sent |-> reply, shown |-> shown] /\ buf' = <<>>
          /\ IF shown.kind \in {"idle", "status"} THEN UNCHANGED <<call, taken, asked>>
             ELSE call' = NoCall /\ taken' = <<>> /\ asked' = <<>>
     ELSE UNCHANGED <<heard, call, taken, asked>> /\ buf' = all
  /\ UNCHANGED read

\* A piece of a message.
DebuggerWrite ==
  \E n \in Pieces(rest) :
    /\ rest' = SubSeq(rest, n + 1, Len(rest))
    /\ Write(SubSeq(rest, 1, n))
    /\ UNCHANGED reply

\* Its end, on its own.
WriteEnd ==
  /\ reply # NoReply /\ rest = <<>>
  /\ Write(<<EOM>>)
  /\ reply' = NoReply
  /\ UNCHANGED rest

Next == DebugMsgUnmarshal \/ DebuggerRead \/ DukSends \/ DebuggerWrite \/ WriteEnd

Spec == Init /\ [][Next]_vars

-----------------------------------------------------------------------------
(* Properties                                                              *)

\* What the console should be told of a message of the interpreter.
ToldFrame(f) == [file |-> f.file, func |-> f.func, line |-> f.line % 65536, pc |-> f.pc % 256]
Told(m) ==
  CASE m.kind \in {"getVar", "eval"} ->
         IF m.good THEN [kind |-> m.kind, good |-> TRUE, val |-> Shown(m.val)]
         ELSE [kind |-> m.kind, good |-> FALSE]
    [] m.kind = "listBreak" -> m
    [] m.kind = "callStack" ->
         [kind |-> m.kind, list |-> [i \in DOMAIN m.list |-> ToldFrame(m.list[i])]]
    [] m.kind = "locals" ->
         [kind |-> m.kind,
          list |-> [i \in DOMAIN m.list |->
                      [name |-> m.list[i].name, val |-> Shown(m.list[i].val)]]]
    [] m.kind = "info"   -> [kind |-> m.kind, version |-> m.version % 256, name |-> m.name]
    [] m.kind = "status" -> [kind |-> m.kind, state |-> m.state, at |-> ToldFrame(m.at)]
    [] m.kind = "error"  -> [kind |-> "error"]
    [] OTHER -> m

\* Wherever the interpreter cuts its messages, the scanner of DebuggerWrite finds
\* their end, and what AJS_DebuggerHandleMessage marshals and the console parses
\* is what was sent: every value with its type and bytes, every entry of a list;
\* a program counter and a version only modulo 256, as they are marshalled.
RepliesArrive == heard.sent # NoReply => heard.shown = Told(heard.sent)

\* In whatever pieces the interpreter reads a request (DebuggerRead), it
\* understands the file, line, variable and value that the console gave.
RequestsArrive == (call # NoCall /\ read = <<>>) => asked = Asked(call)

\* The scanner never stops at a byte it does not know, and it is at rest with an
\* empty buffer whenever no message is under way: one message leaves nothing
\* behind in the state of DebuggerWrite that the next would trip over.
StreamInStep ==
  /\ ~parse.stuck
  /\ (reply = NoReply) =>
       /\ buf = <<>>
       /\ parse.nextChunk = 0 /\ parse.lastType = 0 /\ parse.msgLength = 0

\* "If the byte we are on is EOM (0x00) then an entire message has been found"
\* (src/src/ajs_debugger.c): a message that has ended is not left in the buffer.
MessagesEnd == (reply = NoReply) => buf = <<>>
=============================================================================
