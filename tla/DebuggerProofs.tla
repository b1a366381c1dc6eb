--------------------------- MODULE DebuggerProofs ---------------------------
(***************************************************************************)
(* Proofs about Debugger for all wishes of the user and all lengths of the *)
(* target's inbox.                                                         *)
(*                                                                         *)
(* That the status is truthful rests on who may be in DebuggerRead.  That  *)
(* answers belong to their calls rests on ids: a call and its answer are   *)
(* in one place at a time.  That the target refuses nothing that the       *)
(* console asked for in time rests on the whole of a connection: before a  *)
(* join is answered the inbox has nothing behind it, and while a session   *)
(* lasts and no call was given up it has nothing but the call under way.   *)
(***************************************************************************)
EXTENDS Debugger, SequenceTheorems, TLAPS

Indices == 1..Len(inbox)
Pending == {"asking", "calling"}
Reading == {"cooperate", "stopped"}

\* Only the debugger reads commands for the interpreter, one after the other.
Served ==
  /\ target \in Reading => dbg # "none"
  /\ fed # None => target \in Reading /\ lastMsg = fed
  /\ lastMsg # None => lastMsg.kind \in Commands

\* A call of the console has an id of its own and is in one place.
Apart ==
  /\ cur # 0 <=> client \in Pending
  /\ \A i, j \in Indices : inbox[i].id = inbox[j].id /\ inbox[i].id # 0 => i = j
  /\ \A i \in Indices : lastMsg # None => inbox[i].id # lastMsg.id

AnsweredOnce ==
  /\ \A a, b \in answers : a = b
  /\ \A a \in answers : a.id = cur /\ (fed # None => fed.id # cur)
  /\ \A a \in answers : \A i \in Indices : inbox[i].id # cur

\* The ways of a connection.
Connection ==
  /\ client \in {"ready"} \union Pending => sid = "joined"
  /\ client \in Pending => want \in Wants
  /\ sid = "joined" => client # "off" /\ joined = "none" /\ up
  /\ sid = "joining" => client = "connecting"
  /\ joined # "none" => sid = "joining"
  /\ joined = "ok" => up
  /\ up => sid = "joined" \/ joined = "ok"

\* A join is the last message, and a session that lasts was not lost.
JoinsLast ==
  \A i \in Indices :
    /\ inbox[i].kind = "accept" => i = Len(inbox) /\ sid = "joining" /\ joined = "none"
    /\ up => inbox[i].kind # "lost"

\* While no call of the session was given up the target has only the one under way, and
\* is paused for those that need it.
InTime ==
  up /\ ~late =>
    /\ \A i \in Indices : inbox[i].id = cur /\ (inbox[i].kind = "resume" => dbg = "paused")
    /\ fed # None => fed.id = cur
    /\ \A a \in answers : a.data = "paused" => dbg = "paused"

IInv ==
  /\ TypeOK /\ StatusTruthful /\ Served /\ Apart /\ AnsweredOnce
  /\ Connection /\ JoinsLast /\ InTime /\ RefusedOnlyLate
-----------------------------------------------------------------------------
(* Messages                                                                *)

\* What the kind of a message says of its id.
LEMMA MessageKinds ==
  ASSUME NEW m \in Messages
  PROVE  /\ m.kind \in Kinds \union {"accept", "lost"} /\ m # None
         /\ m.id \in Ids \union {0} /\ (m.kind \in Kinds => m.id \in Ids)
         /\ (m.kind \in {"accept", "lost"} => m.id = 0) /\ m = Ask(m.kind, m.id)
<1>1. CASE \E k \in Kinds, i \in Ids : m = Ask(k, i)
  <2>1. PICK k \in Kinds, i \in Ids : m = Ask(k, i)
    BY <1>1
  <2>2. m.kind = k /\ m.id = i
    BY <2>1 DEF Ask
  <2>3. k \notin {"accept", "lost", "none"}
    BY DEF Kinds, Commands, PausedOnly
  <2> QED  BY <2>1, <2>2, <2>3 DEF None
<1>2. CASE m = Ask("accept", 0) \/ m = Ask("lost", 0)
  <2>1. m.kind \in {"accept", "lost"} /\ m.id = 0 /\ m = Ask(m.kind, m.id)
    BY <1>2 DEF Ask
  <2>2. "accept" \notin Kinds /\ "lost" \notin Kinds
    BY DEF Kinds, Commands, PausedOnly
  <2>3. m # None
    BY <2>1 DEF None
  <2> QED  BY <2>1, <2>2, <2>3
<1> QED  BY <1>1, <1>2 DEF Messages

LEMMA IInvTypes == IInv => TypeOK
  BY DEF IInv

LEMMA IdsAreNumbers == Ids \subseteq Nat \ {0} /\ 0 \notin Ids
  BY DebuggerAssumption DEF Ids

LEMMA Asked ==
  ASSUME NEW k \in Kinds \union {"accept", "lost"},
         NEW i \in Ids \union {0}, (i = 0) <=> k \in {"accept", "lost"}
  PROVE  Ask(k, i) \in Messages /\ Ask(k, i).kind = k /\ Ask(k, i).id = i
<1>1. CASE i = 0
  BY <1>1 DEF Ask, Messages
<1>2. CASE i \in Ids /\ k \in Kinds
  BY <1>2 DEF Ask, Messages, Kinds
<1>3. i \in Ids => i # 0
  BY IdsAreNumbers
<1> QED  BY <1>1, <1>2, <1>3

\* The target takes the first message.
LEMMA Taken ==
  ASSUME inbox \in Seq(Messages), inbox # <<>>, inbox' = Tail(inbox)
  PROVE  /\ 1 \in Indices /\ Head(inbox) = inbox[1] /\ inbox[1] \in Messages
         /\ inbox' \in Seq(Messages) /\ Len(inbox') = Len(inbox) - 1 /\ Len(inbox) \in Nat
         /\ \A i \in 1..Len(inbox') : i + 1 \in Indices /\ i + 1 # 1 /\ inbox'[i] = inbox[i + 1]
<1>1. Len(inbox) \in Nat \ {0}
  BY EmptySeq
<1>2. Len(inbox') = Len(inbox) - 1 /\ inbox' \in Seq(Messages)
      /\ \A i \in 1..Len(inbox') : inbox'[i] = inbox[i + 1]
  BY HeadTailProperties
<1>3. Head(inbox) = inbox[1] /\ inbox[1] \in Messages
  BY <1>1
<1> QED  BY <1>1, <1>2, <1>3 DEF Indices

\* A message goes behind the others.
LEMMA Sent ==
  ASSUME inbox \in Seq(Messages), NEW m \in Messages, inbox' = Append(inbox, m)
  PROVE  /\ inbox' \in Seq(Messages) /\ Len(inbox') = Len(inbox) + 1 /\ Len(inbox) \in Nat
         /\ inbox'[Len(inbox')] = m /\ \A i \in Indices : inbox'[i] = inbox[i]
         /\ \A i \in 1..Len(inbox') : i \in Indices \/ i = Len(inbox')
<1>1. Len(inbox) \in Nat
  OBVIOUS
<1>2. inbox' \in Seq(Messages) /\ Len(inbox') = Len(inbox) + 1
      /\ inbox'[Len(inbox) + 1] = m /\ \A i \in 1..Len(inbox) : inbox'[i] = inbox[i]
  BY AppendProperties
<1> QED  BY <1>1, <1>2 DEF Indices

LEMMA ListedIsMessage ==
  ASSUME TypeOK, NEW i \in Indices
  PROVE  inbox[i] \in Messages /\ inbox[i].id \in Ids \union {0}
         /\ (inbox[i].id = 0 <=> inbox[i].kind \in {"accept", "lost"})
<1>1. inbox[i] \in Messages
  BY DEF TypeOK, Indices
<1>2. inbox[i].id \in Ids => inbox[i].id # 0
  BY IdsAreNumbers
<1> QED  BY <1>1, <1>2, MessageKinds

\* A call gets an id that no message, no command and no reply has.
LEMMA CallDoes ==
  ASSUME TypeOK, NEW kind \in Kinds, Call(kind)
  PROVE  /\ cur' \in Ids /\ Ask(kind, cur') \in Messages /\ inbox' = Append(inbox, Ask(kind, cur'))
         /\ \A i \in Indices : inbox[i].id # cur'
         /\ fed.id # cur' /\ lastMsg.id # cur' /\ cur # cur'
         /\ Ask(kind, cur').kind = kind /\ Ask(kind, cur').id = cur' /\ cur' # 0
<1>1. PICK id \in Ids \ Used : cur' = id /\ inbox' = Append(inbox, Ask(kind, id))
  BY DEF Call
<1>2. id # 0 /\ kind \notin {"accept", "lost"}
  BY IdsAreNumbers DEF Kinds, Commands, PausedOnly
<1>3. Ask(kind, id) \in Messages /\ Ask(kind, id).kind = kind /\ Ask(kind, id).id = id
  BY <1>2, Asked
<1>4. DOMAIN inbox = Indices
  BY DEF TypeOK, Indices
<1> QED  BY <1>1, <1>2, <1>3, <1>4 DEF Used

\* Without a call there is no answer, and before an answer is taken there is nothing else.
LEMMA NoCall ==
  ASSUME TypeOK, Apart, AnsweredOnce, client \notin Pending
  PROVE  cur = 0 /\ answers = {}
<1>1. cur = 0
  BY DEF Apart
<1>2. \A a \in answers : a.id \in Ids
  BY DEF TypeOK
<1> QED  BY <1>1, <1>2, IdsAreNumbers DEF AnsweredOnce

LEMMA FedIsCommand ==
  ASSUME TypeOK, Served, fed # None
  PROVE  /\ fed \in Messages /\ lastMsg = fed /\ fed.kind \in Commands /\ fed.id \in Ids
         /\ fed.id # 0 /\ target \in Reading /\ dbg # "none"
<1>1. fed \in Messages /\ lastMsg = fed /\ fed.kind \in Commands
  BY DEF TypeOK, Served
<1>2. fed.id \in Ids
  BY <1>1, MessageKinds DEF Kinds
<1> QED  BY <1>1, <1>2, IdsAreNumbers DEF Served

LEMMA Alone ==
  ASSUME TypeOK, Served, Apart, AnsweredOnce, Connection, JoinsLast, InTime, up, ~late,
         cur = 0 \/ answers # {}
  PROVE  inbox = <<>> /\ Indices = {} /\ fed = None
<1>1. ASSUME NEW i \in Indices PROVE FALSE
  <2>1. inbox[i].id = cur
    BY <1>1 DEF InTime
  <2>2. cur # 0
    <3>1. inbox[i].kind \notin {"accept", "lost"}
      BY <1>1 DEF JoinsLast, Connection
    <3> QED  BY <1>1, <2>1, <3>1, ListedIsMessage
  <2> QED  BY <1>1, <2>1, <2>2 DEF AnsweredOnce
<1>2. fed = None
  BY FedIsCommand DEF InTime, AnsweredOnce
<1>3. inbox = <<>>
  <2>1. Len(inbox) \in Nat /\ inbox \in Seq(Messages)
    BY DEF TypeOK
  <2> QED  BY <1>1, <2>1, EmptySeq DEF Indices
<1> QED  BY <1>1, <1>2, <1>3

-----------------------------------------------------------------------------
(* What a message makes the target do                                      *)

\* The call is answered, if somebody waits for it still.
Answers(m, data) == m.id \in Ids /\ Reply(m, data)

\* An answer says paused of a stopped script, and refuses a resume of one that runs.
AnswersWell(m) ==
  \/ UNCHANGED answers
  \/ \E data \in ReplyData :
       /\ Answers(m, data)
       /\ data = "paused" => dbg' = "paused"
       /\ data = "busy" => m.kind = "begin" \/ (m.kind = "resume" /\ dbg # "paused")

Reads(m) ==
  \/ UNCHANGED readVars
  \/ lastMsg' = m /\ m.kind \in Commands /\ fed' = None /\ UNCHANGED answers
  \/ lastMsg' = m /\ m.kind \in Commands /\ fed' = m /\ UNCHANGED answers /\ target' \in Reading

Controls(m) ==
  /\ console' \in BOOLEAN /\ pausing' \in BOOLEAN /\ watch' \in BOOLEAN
  /\ dbg' \in {"none", "running", "paused"}
  /\ target' \in {"loop", "cooperate", "stopped", "script"}
  /\ dbg' = "paused" <=> target' = "stopped"
  /\ target' \in Reading => dbg' # "none"
  /\ dbg = "paused" /\ dbg' # "paused" => m.kind \in {"end", "lost"}

Joins(m) ==
  \/ UNCHANGED <<up, joined>>
  \/ m.kind = "accept" /\ up' = up /\ joined' \in {"rejected", "failed"}
  \/ m.kind = "accept" /\ up' /\ joined' = "ok" /\ UNCHANGED <<answers, readVars, dbg>>

Does(m) == AnswersWell(m) /\ Reads(m) /\ Controls(m) /\ Joins(m)

\* The debugger is given a message while it reads for a stopped script or a loop.
LEMMA UnmarshalDoes ==
  ASSUME NEW m \in Messages, DebugMsgUnmarshal(m), fed = None,
         m.kind \notin {"lost", "end", "getStatus"},
         target' \in Reading, UNCHANGED <<up, dbg>>
  PROVE  AnswersWell(m) /\ Reads(m) /\ Joins(m)
<1>1. m.kind \in Kinds \union {"accept", "lost"} /\ (m.kind \in Kinds => m.id \in Ids)
  BY MessageKinds
<1>2. Commands \subseteq Kinds /\ "begin" \in Kinds /\ "accept" \notin Commands
      /\ "begin" \notin Commands
  BY DEF Kinds, Commands, PausedOnly
<1>3. CASE ~DebugCommandAllowed(m.kind)
  <2>1. m.kind \in {"accept", "begin", "resume"} /\ dbg # "paused"
    BY <1>1, <1>3 DEF DebugCommandAllowed, Kinds
  <2>2. UNCHANGED readVars
    BY <1>3 DEF DebugMsgUnmarshal, readVars
  <2>3. CASE m.kind = "accept"
    BY <1>3, <2>2, <2>3 DEF DebugMsgUnmarshal, AnswersWell, Reads, Joins
  <2>4. CASE m.kind # "accept"
    <3>1. Reply(m, "busy") /\ UNCHANGED joined
      BY <1>3, <2>4 DEF DebugMsgUnmarshal, Refuse
    <3>2. m.id \in Ids
      BY <1>1, <2>4, <2>1 DEF Kinds, Commands, PausedOnly
    <3> QED  BY <2>1, <2>2, <2>4, <3>1, <3>2 DEF AnswersWell, ReplyData, Answers, Reads, Joins
  <2> QED  BY <2>3, <2>4
<1>4. CASE DebugCommandAllowed(m.kind) /\ m.kind = "lineTooLarge"
  <2>1. Reply(m, "error") /\ UNCHANGED <<joined, fed, lastMsg>>
    BY <1>4 DEF DebugMsgUnmarshal, Fail, Commands
  <2>2. m.id \in Ids
    BY <1>1, <1>4 DEF Kinds, Commands
  <2> QED  BY <2>1, <2>2 DEF AnswersWell, ReplyData, Answers, Reads, Joins, readVars
<1>5. CASE DebugCommandAllowed(m.kind) /\ m.kind = "putEmpty"
  <2>1. lastMsg' = m /\ UNCHANGED <<joined, answers, fed>> /\ m.kind \in Commands
    BY <1>5 DEF DebugMsgUnmarshal, SaveLast, Commands
  <2> QED  BY <2>1 DEF AnswersWell, Reads, Joins
<1>6. CASE DebugCommandAllowed(m.kind) /\ m.kind \in Commands \ {"lineTooLarge", "putEmpty"}
  <2>1. fed' = m /\ lastMsg' = m /\ UNCHANGED <<joined, answers>> /\ m.kind \in Commands
    BY <1>6 DEF DebugMsgUnmarshal, SaveLast
  <2> QED  BY <2>1 DEF AnswersWell, Reads, Joins
<1>7. CASE DebugCommandAllowed(m.kind) /\ m.kind \notin Commands
  <2>1. m.kind \notin {"lineTooLarge", "putEmpty"}
    BY <1>7 DEF Commands
  <2>2. /\ joined' = IF m.kind = "accept" THEN "failed" ELSE joined
        /\ UNCHANGED <<answers, fed, lastMsg>>
    BY <1>7, <2>1 DEF DebugMsgUnmarshal
  <2> QED  BY <2>2 DEF AnswersWell, Reads, Joins, readVars
<1> QED  BY <1>3, <1>4, <1>5, <1>6, <1>7

LEMMA LoopDoes ==
  ASSUME TypeOK, StatusTruthful, Served, NEW m \in Messages,
         target = "loop", LoopTakes(m), m.kind = "lost" => ~up
  PROVE  Does(m)
<1>1. m.kind \in Kinds \union {"accept", "lost"} /\ (m.kind \in Kinds => m.id \in Ids)
  BY MessageKinds
<1>2. fed = None /\ dbg # "paused" /\ dbg \in {"none", "running"}
  BY DEF Served, Reading, StatusTruthful, TypeOK
<1>3. console \in BOOLEAN /\ pausing \in BOOLEAN /\ watch \in BOOLEAN /\ up \in BOOLEAN
  BY DEF TypeOK
<1>4. CASE m.kind = "accept"
  <2>1. UNCHANGED <<answers, dbg, target, fed, lastMsg, pausing, watch>>
    BY <1>4 DEF LoopTakes, Commands, PausedOnly
  <2>2. (joined' = "rejected" /\ UNCHANGED <<console, up>>)
        \/ (joined' = "ok" /\ console' = TRUE /\ up' = TRUE)
    BY <1>4 DEF LoopTakes, Commands, PausedOnly
  <2> QED  BY <1>2, <1>3, <1>4, <2>1, <2>2
           DEF Does, AnswersWell, Reads, Controls, Joins, readVars, Reading
<1>5. CASE m.kind # "accept" /\ ~console
  <2>1. UNCHANGED <<joined, up, answers>> /\ UNCHANGED targetVars
    BY <1>5 DEF LoopTakes, Commands, PausedOnly
  <2> QED  BY <1>2, <1>3, <2>1
           DEF Does, AnswersWell, Reads, Controls, Joins, readVars, Reading, targetVars
<1>6. CASE m.kind = "lost" /\ console
  <2>1. /\ console' = FALSE /\ dbg' = "none" /\ pausing' = FALSE /\ watch' \in BOOLEAN
        /\ UNCHANGED <<joined, up, answers, target, fed, lastMsg>>
    BY <1>3, <1>6 DEF LoopTakes, StopDebugger, Commands, PausedOnly
  <2> QED  BY <1>2, <2>1 DEF Does, AnswersWell, Reads, Controls, Joins, readVars, Reading
<1>7. CASE m.kind = "begin" /\ console
  <2>1. UNCHANGED <<joined, up, console, target, fed, lastMsg, pausing>> /\ m.id \in Ids
    BY <1>1, <1>7 DEF LoopTakes, Kinds, Commands, PausedOnly
  <2>2. (dbg' = "running" /\ watch' = FALSE /\ Reply(m, "ok")) \/ UNCHANGED <<dbg, watch, answers>>
    BY <1>7 DEF LoopTakes, Commands, PausedOnly
  <2>3. AnswersWell(m)
    BY <2>1, <2>2 DEF AnswersWell, Answers, ReplyData
  <2>4. Controls(m)
    BY <1>2, <1>3, <2>1, <2>2 DEF Controls, Reading
  <2> QED  BY <2>1, <2>3, <2>4 DEF Does, Reads, Joins, readVars
<1>8. CASE m.kind = "end" /\ console
  <2>1. /\ Reply(m, "ok") /\ dbg' = "none" /\ pausing' = FALSE /\ watch' \in BOOLEAN
        /\ UNCHANGED <<joined, up, console, target, fed, lastMsg>> /\ m.id \in Ids
    BY <1>1, <1>3, <1>8 DEF LoopTakes, StopDebugger, Kinds, Commands, PausedOnly
  <2>2. AnswersWell(m)
    BY <2>1 DEF AnswersWell, Answers, ReplyData
  <2>3. Controls(m)
    BY <1>2, <1>3, <1>8, <2>1 DEF Controls, Reading
  <2> QED  BY <2>1, <2>2, <2>3 DEF Does, Reads, Joins, readVars
<1>9. CASE m.kind = "getStatus" /\ console
  <2>1. Reply(m, dbg) /\ UNCHANGED <<joined, up>> /\ UNCHANGED targetVars /\ m.id \in Ids
    BY <1>1, <1>9 DEF LoopTakes, Kinds, Commands, PausedOnly
  <2> QED  BY <1>2, <1>3, <2>1
           DEF Does, AnswersWell, ReplyData, Answers, Reads, Controls, Joins, readVars, Reading,
               targetVars
<1>10. CASE m.kind \in Commands /\ console
  <2>1. m.kind \notin {"accept", "lost", "begin", "end", "getStatus"} /\ m.id \in Ids
    BY <1>1, <1>10 DEF Commands, PausedOnly, Kinds
  <2>2. /\ UNCHANGED <<up, console, dbg, pausing, watch>>
        /\ IF dbg = "none" THEN Reply(m, "error") /\ UNCHANGED <<joined, target, fed, lastMsg>>
           ELSE target' = "cooperate" /\ DebugMsgUnmarshal(m)
    BY <1>10, <2>1 DEF LoopTakes, Commands, PausedOnly
  <2>3. CASE dbg = "none"
    BY <1>2, <1>3, <2>1, <2>2, <2>3
       DEF Does, AnswersWell, ReplyData, Answers, Reads, Controls, Joins, readVars, Reading
  <2>4. CASE dbg # "none"
    <3>1. AnswersWell(m) /\ Reads(m) /\ Joins(m)
      BY <1>2, <2>1, <2>2, <2>4, UnmarshalDoes DEF Reading
    <3>2. Controls(m)
      BY <1>2, <1>3, <2>2, <2>4 DEF Controls, Reading
    <3> QED  BY <3>1, <3>2 DEF Does
  <2> QED  BY <2>3, <2>4
<1> QED  BY <1>1, <1>4, <1>5, <1>6, <1>7, <1>8, <1>9, <1>10 DEF Kinds

LEMMA LeavesDoes ==
  ASSUME target \in Reading, Leaves, dbg' = "none"
  PROVE  target' \in {"loop", "script"}
BY DEF Reading, Leaves

LEMMA ReadDoes ==
  ASSUME TypeOK, StatusTruthful, Served, NEW m \in Messages,
         target \in Reading, fed = None, ReadTakes(m), up' = up
  PROVE  Does(m)
<1>1. m.kind \in Kinds \union {"accept", "lost"} /\ (m.kind \in Kinds => m.id \in Ids)
  BY MessageKinds
<1>2. dbg # "none" /\ dbg \in {"running", "paused"} /\ (dbg = "paused" <=> target = "stopped")
      /\ dbg \in ReplyData
  BY DEF Served, StatusTruthful, TypeOK, ReplyData
<1>3. console \in BOOLEAN /\ pausing \in BOOLEAN /\ watch \in BOOLEAN
  BY DEF TypeOK
<1>4. CASE m.kind = "lost"
  <2>1. /\ console' = FALSE /\ dbg' = "none" /\ pausing' = FALSE /\ watch' \in BOOLEAN /\ Leaves
        /\ UNCHANGED <<joined, answers, fed, lastMsg>>
    BY <1>3, <1>4 DEF ReadTakes, StopDebugger
  <2>2. target' \in {"loop", "script"}
    BY <2>1, LeavesDoes
  <2> QED  BY <1>4, <2>1, <2>2 DEF Does, AnswersWell, Reads, Controls, Joins, readVars, Reading
<1>5. CASE m.kind = "end"
  <2>1. /\ Reply(m, "ok") /\ dbg' = "none" /\ pausing' = FALSE /\ watch' \in BOOLEAN /\ Leaves
        /\ UNCHANGED <<joined, console, fed, lastMsg>>
    BY <1>3, <1>5 DEF ReadTakes, StopDebugger
  <2>2. target' \in {"loop", "script"} /\ m.id \in Ids
    BY <1>1, <1>5, <2>1, LeavesDoes DEF Kinds
  <2>3. AnswersWell(m)
    BY <2>1, <2>2 DEF AnswersWell, Answers, ReplyData
  <2> QED  BY <1>3, <1>5, <2>1, <2>2, <2>3 DEF Does, Reads, Controls, Joins, readVars, Reading
<1>6. CASE m.kind = "getStatus"
  <2>1. Reply(m, dbg) /\ UNCHANGED joined /\ UNCHANGED targetVars /\ m.id \in Ids
    BY <1>1, <1>6 DEF ReadTakes, Kinds
  <2>2. AnswersWell(m)
    BY <1>2, <2>1 DEF AnswersWell, Answers, targetVars
  <2> QED  BY <1>2, <1>3, <2>1, <2>2
           DEF Does, Reads, Controls, Joins, readVars, Reading, targetVars
<1>7. CASE m.kind \notin {"lost", "end", "getStatus"}
  <2>1. DebugMsgUnmarshal(m) /\ UNCHANGED <<console, dbg, target, pausing, watch>>
    BY <1>7 DEF ReadTakes
  <2>2. AnswersWell(m) /\ Reads(m) /\ Joins(m)
    BY <1>7, <2>1, UnmarshalDoes
  <2> QED  BY <1>2, <1>3, <2>1, <2>2 DEF Does, Controls, Reading
<1> QED  BY <1>4, <1>5, <1>6, <1>7

LEMMA TakeDoes ==
  ASSUME IInv, Take
  PROVE  /\ 1 \in Indices /\ inbox[1] \in Messages /\ Does(inbox[1]) /\ fed = None
         /\ inbox' \in Seq(Messages) /\ Len(inbox') = Len(inbox) - 1 /\ Len(inbox) \in Nat
         /\ \A i \in 1..Len(inbox') : i + 1 \in Indices /\ i + 1 # 1 /\ inbox'[i] = inbox[i + 1]
         /\ UNCHANGED clientVars
<1>1. inbox \in Seq(Messages) /\ inbox # <<>> /\ inbox' = Tail(inbox) /\ UNCHANGED clientVars
  BY DEF IInv, TypeOK, Take
<1>2. /\ 1 \in Indices /\ Head(inbox) = inbox[1] /\ inbox[1] \in Messages
      /\ inbox' \in Seq(Messages) /\ Len(inbox') = Len(inbox) - 1 /\ Len(inbox) \in Nat
      /\ \A i \in 1..Len(inbox') : i + 1 \in Indices /\ i + 1 # 1 /\ inbox'[i] = inbox[i + 1]
  BY <1>1, Taken
<1>3. inbox[1].kind = "lost" => ~up
  BY <1>2 DEF IInv, JoinsLast
<1>4. CASE target = "loop" /\ LoopTakes(inbox[1])
  <2>1. fed = None
    BY <1>4 DEF IInv, Served, Reading
  <2>2. Does(inbox[1])
    BY <1>2, <1>3, <1>4, LoopDoes DEF IInv
  <2> QED  BY <1>1, <1>2, <2>1, <2>2
<1>5. CASE target \in Reading /\ fed = None /\ ReadTakes(inbox[1]) /\ UNCHANGED up
  <2>1. Does(inbox[1])
    BY <1>2, <1>5, ReadDoes DEF IInv
  <2> QED  BY <1>1, <1>2, <1>5, <2>1
<1> QED  BY <1>2, <1>4, <1>5 DEF Take, Reading

\* What a reply changes: the one answer, to the call under way.
LEMMA ReplyDoes ==
  ASSUME IInv, NEW m \in Messages, NEW data \in ReplyData, Answers(m, data),
         (\E i \in Indices : inbox[i].id = m.id) \/ (fed # None /\ fed.id = m.id)
  PROVE  /\ m.id # cur => answers' = answers
         /\ m.id = cur => /\ answers = {} /\ cur # 0
                          /\ answers' = {[id |-> m.id, kind |-> m.kind, data |-> data]}
<1>1. m.id \in Ids /\ m.id # 0
  BY IdsAreNumbers DEF Answers
<1>2. CASE m.id = cur
  <2>1. answers = {}
    BY <1>2 DEF IInv, AnsweredOnce
  <2> QED  BY <1>1, <1>2, <2>1 DEF Answers, Reply
<1>3. CASE m.id # cur
  BY <1>3 DEF Answers, Reply
<1> QED  BY <1>2, <1>3

-----------------------------------------------------------------------------
(* Steps of the console                                                    *)

\* The target is not disturbed.
LEMMA TargetSame ==
  ASSUME IInv, UNCHANGED targetVars
  PROVE  (StatusTruthful /\ Served)'
BY DEF IInv, StatusTruthful, Served, targetVars, Reading

\* What a session needs of the inbox, when messages, answers and call are as they were.
LEMMA MessagesSame ==
  ASSUME IInv, UNCHANGED <<inbox, answers, cur>>, UNCHANGED targetVars,
         (client \in Pending) <=> (client' \in Pending)
  PROVE  /\ (Apart /\ AnsweredOnce)'
         /\ (up' => up) /\ (late => late') => InTime'
         /\ (late => late') => RefusedOnlyLate'
<1>1. Apart'
  BY DEF IInv, Apart, targetVars, Indices, Pending
<1>2. AnsweredOnce'
  BY DEF IInv, AnsweredOnce, targetVars, Indices
<1>3. (up' => up) /\ (late => late') => InTime'
  BY DEF IInv, InTime, targetVars, Indices
<1>4. (late => late') => RefusedOnlyLate'
  BY DEF IInv, RefusedOnlyLate
<1> QED  BY <1>1, <1>2, <1>3, <1>4

\* When the session is not being joined no join is on its way.
LEMMA NoAccept ==
  ASSUME IInv, sid # "joining" \/ joined # "none", NEW i \in Indices
  PROVE  inbox[i].kind # "accept"
BY DEF IInv, JoinsLast

LEMMA NextConnect == ASSUME IInv, Connect PROVE IInv'
<1>1. /\ client = "off" /\ client' = "connecting" /\ sid' = "none" /\ waiting' = FALSE
      /\ late' = FALSE /\ UNCHANGED <<want, cur, up, joined, inbox, answers>>
      /\ UNCHANGED targetVars
  BY DEF Connect
<1>2. sid # "joining" /\ sid # "joined" /\ joined = "none" /\ up = FALSE
  BY <1>1 DEF IInv, Connection, TypeOK
<1>3. TypeOK'
  <2>1. TypeOK
    BY DEF IInv
  <2>2. answers' \subseteq [id : Ids, kind : Kinds, data : ReplyData] /\ inbox' \in Seq(Messages)
        /\ {fed', lastMsg'} \subseteq Messages \union {None}
    BY <1>1, <2>1 DEF TypeOK, targetVars
  <2>3. /\ client' \in {"off", "connecting", "ready", "asking", "calling"}
        /\ sid' \in {"none", "joining", "joined"} /\ waiting' \in BOOLEAN /\ late' \in BOOLEAN
    BY <1>1
  <2>4. /\ want' \in Wants \union {"none"} /\ cur' \in Ids \union {0}
        /\ up' \in BOOLEAN /\ joined' \in {"none", "ok", "rejected", "failed"}
    BY <1>1, <2>1 DEF TypeOK
  <2>5. /\ console' \in BOOLEAN /\ pausing' \in BOOLEAN /\ watch' \in BOOLEAN
        /\ dbg' \in {"none", "running", "paused"}
        /\ target' \in {"loop", "script", "cooperate", "stopped"}
    BY <1>1, <2>1 DEF TypeOK, targetVars
  <2> QED  BY <2>2, <2>3, <2>4, <2>5 DEF TypeOK
<1>4. (Apart /\ AnsweredOnce)'
  BY <1>1, MessagesSame DEF Pending
<1>5. Connection'
  BY <1>1, <1>2 DEF Connection, Pending
<1>6. JoinsLast'
  BY <1>1, <1>2, NoAccept DEF IInv, JoinsLast, Indices
<1>7. InTime'
  BY <1>1, <1>2 DEF InTime
<1>8. RefusedOnlyLate'
  BY <1>1, NoCall DEF IInv, RefusedOnlyLate, Pending
<1> QED  BY <1>1, <1>3, <1>4, <1>5, <1>6, <1>7, <1>8, TargetSame DEF IInv

LEMMA NextWait == ASSUME IInv, Wait PROVE IInv'
<1>1. /\ client = "connecting" /\ waiting' = ~waiting
      /\ UNCHANGED <<client, sid, want, cur, late, up, joined, inbox, answers>>
      /\ UNCHANGED targetVars
  BY DEF Wait
<1>2. TypeOK'
  BY <1>1, IInvTypes DEF TypeOK, targetVars
<1>3. (Apart /\ AnsweredOnce /\ InTime /\ RefusedOnlyLate)'
  BY <1>1, MessagesSame DEF Pending
<1>4. Connection'
  BY <1>1 DEF IInv, Connection, Pending
<1>5. JoinsLast'
  BY <1>1 DEF IInv, JoinsLast, Indices
<1> QED  BY <1>1, <1>2, <1>3, <1>4, <1>5, TargetSame DEF IInv

\* A message that is not a call goes to the target, as its last one.
LEMMA SendsNoCall ==
  ASSUME IInv, NEW k \in {"accept", "lost"}, inbox' = Append(inbox, Ask(k, 0)),
         UNCHANGED targetVars, ~up', cur' # 0 <=> client' \in Pending,
         sid # "joining" \/ joined # "none",
         k = "accept" => sid' = "joining" /\ joined' = "none"
  PROVE  (StatusTruthful /\ Served /\ JoinsLast /\ InTime /\ Apart)' /\ inbox' \in Seq(Messages)
<1>1. Ask(k, 0) \in Messages /\ Ask(k, 0).kind = k /\ Ask(k, 0).id = 0
  BY Asked
<1>2. /\ inbox' \in Seq(Messages) /\ Len(inbox') = Len(inbox) + 1 /\ Len(inbox) \in Nat
      /\ inbox'[Len(inbox')] = Ask(k, 0) /\ \A i \in Indices : inbox'[i] = inbox[i]
      /\ \A i \in 1..Len(inbox') : i \in Indices \/ i = Len(inbox')
  BY <1>1, Sent DEF IInv, TypeOK
<1>3. JoinsLast'
  BY <1>1, <1>2, NoAccept DEF JoinsLast, Indices
<1>4. InTime'
  BY DEF InTime
<1>5. ASSUME lastMsg # None PROVE lastMsg.id # 0
  <2>1. lastMsg \in Messages /\ lastMsg.kind \in Commands
    BY <1>5 DEF IInv, TypeOK, Served
  <2>2. lastMsg.id \in Ids
    BY <2>1, MessageKinds DEF Kinds
  <2> QED  BY <2>2, IdsAreNumbers
<1>6. Apart'
  <2>1. \A i, j \in 1..Len(inbox') : inbox'[i].id = inbox'[j].id /\ inbox'[i].id # 0 => i = j
    BY <1>1, <1>2 DEF IInv, Apart
  <2>2. \A i \in 1..Len(inbox') : lastMsg # None => inbox'[i].id # lastMsg.id
    BY <1>1, <1>2, <1>5 DEF IInv, Apart
  <2> QED  BY <2>1, <2>2 DEF Apart, Indices, targetVars, Pending
<1> QED  BY <1>1, <1>2, <1>3, <1>4, <1>6, TargetSame

LEMMA NextAnnounced == ASSUME IInv, Announced PROVE IInv'
<1>1. /\ client = "connecting" /\ sid = "none" /\ joined = "none"
      /\ UNCHANGED <<want, cur, late, up, joined, answers>> /\ UNCHANGED targetVars
  BY DEF Announced
<1>2. up = FALSE /\ cur = 0 /\ answers = {}
  BY <1>1, NoCall DEF IInv, Connection, TypeOK, Pending
<1>3. CASE sid' = "joining" /\ inbox' = Append(inbox, Ask("accept", 0))
           /\ UNCHANGED <<waiting, client>>
  <2>1. (StatusTruthful /\ Served /\ JoinsLast /\ InTime /\ Apart)' /\ inbox' \in Seq(Messages)
    <3>1. sid # "joining" /\ ~up' /\ sid' = "joining" /\ joined' = "none"
      BY <1>1, <1>2, <1>3
    <3>2. cur' # 0 <=> client' \in Pending
      BY <1>1, <1>2, <1>3 DEF Pending
    <3> QED  BY <1>1, <1>3, <3>1, <3>2, SendsNoCall
  <2>2. TypeOK'
    BY <1>1, <1>3, <2>1, IInvTypes DEF TypeOK, targetVars
  <2>3. (AnsweredOnce /\ RefusedOnlyLate)'
    BY <1>1, <1>2 DEF AnsweredOnce, RefusedOnlyLate
  <2>4. Connection'
    BY <1>1, <1>2, <1>3 DEF Connection, Pending
  <2> QED  BY <2>1, <2>2, <2>3, <2>4 DEF IInv
<1>4. CASE sid' = Released /\ Set(FALSE) /\ UNCHANGED inbox
  <2>1. sid' = "none" /\ client' \in {"connecting", "off"} /\ waiting' \in BOOLEAN
    BY <1>1, <1>4 DEF IInv, TypeOK, Released, Set
  <2>2. TypeOK'
    BY <1>1, <1>4, <2>1, IInvTypes DEF TypeOK, targetVars
  <2>3. (Apart /\ AnsweredOnce /\ InTime /\ RefusedOnlyLate)'
    BY <1>1, <1>4, <2>1, MessagesSame DEF Pending
  <2>4. Connection'
    BY <1>1, <1>2, <2>1 DEF Connection, Pending
  <2>5. JoinsLast'
    BY <1>1, <1>2, <1>4, NoAccept DEF JoinsLast, Indices
  <2> QED  BY <1>1, <2>2, <2>3, <2>4, <2>5, TargetSame DEF IInv
<1> QED  BY <1>3, <1>4 DEF Announced

LEMMA NextJoinSessionCB == ASSUME IInv, JoinSessionCB PROVE IInv'
<1>1. /\ joined # "none" /\ client = "connecting" /\ joined' = "none"
      /\ UNCHANGED <<want, cur, late, up, inbox, answers>> /\ UNCHANGED targetVars
  BY DEF JoinSessionCB
<1>2. \/ joined = "ok" /\ sid' = "joined" /\ up /\ client' \in {"connecting", "ready"}
      \/ joined # "ok" /\ sid' = "none" /\ ~up /\ client' \in {"connecting", "off"}
  <2>1. joined = "ok" <=> up
    BY <1>1 DEF IInv, Connection
  <2>2. joined = "ok" => sid' = "joined" /\ Set(TRUE)
    BY DEF JoinSessionCB
  <2>3. joined # "ok" => sid' = "none" /\ (Set(FALSE) \/ UNCHANGED client)
    BY DEF JoinSessionCB
  <2>4. Set(TRUE) => client' \in {"connecting", "ready"}
    BY <1>1 DEF Set
  <2>5. Set(FALSE) => client' \in {"connecting", "off"}
    BY <1>1 DEF Set
  <2>6. CASE joined = "ok"
    <3>1. up /\ sid' = "joined" /\ Set(TRUE)
      BY <2>1, <2>2, <2>6
    <3>2. client' \in {"connecting", "ready"}
      BY <2>4, <3>1
    <3> QED  BY <2>6, <3>1, <3>2
  <2>7. CASE joined # "ok"
    BY <1>1, <2>1, <2>3, <2>5, <2>7
  <2> QED  BY <2>6, <2>7
<1>3. waiting' \in BOOLEAN
  BY DEF IInv, TypeOK, JoinSessionCB, Set
<1>4. TypeOK'
  BY <1>1, <1>2, <1>3, IInvTypes DEF TypeOK, targetVars
<1>5. (Apart /\ AnsweredOnce /\ InTime /\ RefusedOnlyLate)'
  BY <1>1, <1>2, MessagesSame DEF Pending
<1>6. Connection'
  BY <1>1, <1>2 DEF Connection, Pending
<1>7. JoinsLast'
  BY <1>1, NoAccept DEF IInv, JoinsLast, Indices
<1> QED  BY <1>1, <1>4, <1>5, <1>6, <1>7, TargetSame DEF IInv

\* A call goes to the target when the answer to the one before it is taken.
LEMMA NextCall ==
  ASSUME IInv, NEW kind \in Kinds, Call(kind), sid = "joined", cur = 0 \/ answers # {},
         client' \in Pending, answers' = {}, want' \in Wants,
         UNCHANGED <<sid, waiting, late, up, joined>>, UNCHANGED targetVars,
         kind = "resume" /\ ~late => dbg = "paused"
  PROVE  IInv'
<1>1. /\ cur' \in Ids /\ Ask(kind, cur') \in Messages /\ inbox' = Append(inbox, Ask(kind, cur'))
      /\ \A i \in Indices : inbox[i].id # cur'
      /\ fed.id # cur' /\ lastMsg.id # cur' /\ cur # cur'
      /\ Ask(kind, cur').kind = kind /\ Ask(kind, cur').id = cur' /\ cur' # 0
  BY CallDoes DEF IInv
<1>2. /\ inbox' \in Seq(Messages) /\ Len(inbox') = Len(inbox) + 1 /\ Len(inbox) \in Nat
      /\ inbox'[Len(inbox')] = Ask(kind, cur') /\ \A i \in Indices : inbox'[i] = inbox[i]
      /\ \A i \in 1..Len(inbox') : i \in Indices \/ i = Len(inbox')
  BY <1>1, Sent DEF IInv, TypeOK
<1>3. TypeOK'
  <2>1. client' \in {"off", "connecting", "ready", "asking", "calling"}
    BY DEF Pending
  <2> QED  BY <1>1, <1>2, <2>1, IInvTypes DEF TypeOK, targetVars
<1>4. Apart'
  <2>1. \A i, j \in 1..Len(inbox') : inbox'[i].id = inbox'[j].id /\ inbox'[i].id # 0 => i = j
    BY <1>1, <1>2 DEF IInv, Apart
  <2>2. \A i \in 1..Len(inbox') : lastMsg # None => inbox'[i].id # lastMsg.id
    BY <1>1, <1>2 DEF IInv, Apart
  <2> QED  BY <1>1, <2>1, <2>2 DEF Apart, Indices, targetVars, Pending
<1>5. (AnsweredOnce /\ RefusedOnlyLate)'
  BY DEF AnsweredOnce, RefusedOnlyLate
<1>6. Connection'
  BY DEF IInv, Connection, Pending
<1>7. JoinsLast'
  <2>1. \A i \in Indices : inbox[i].kind # "accept"
    BY NoAccept
  <2>2. kind # "accept" /\ kind # "lost"
    BY DEF Kinds, Commands, PausedOnly
  <2> QED  BY <1>1, <1>2, <2>1, <2>2 DEF IInv, JoinsLast, Indices
<1>8. InTime'
  <2>1. CASE up /\ ~late
    <3>1. Indices = {} /\ fed = None
      BY <2>1, Alone DEF IInv
    <3> QED  BY <1>1, <1>2, <2>1, <3>1 DEF InTime, Indices, targetVars
  <2>2. CASE ~(up /\ ~late)
    BY <2>2 DEF InTime
  <2> QED  BY <2>1, <2>2
<1> QED  BY <1>3, <1>4, <1>5, <1>6, <1>7, <1>8, TargetSame DEF IInv

\* The call is over, with or without its answer.
LEMMA CallEnds ==
  ASSUME IInv, client \in Pending, client' = "ready", want' = "none", cur' = 0, answers' = {},
         UNCHANGED <<sid, waiting, up, joined, inbox>>, UNCHANGED targetVars,
         late' \in BOOLEAN, late' = FALSE => late = FALSE /\ answers # {}
  PROVE  IInv'
<1>1. TypeOK'
  BY IInvTypes DEF TypeOK, targetVars
<1>2. Apart'
  BY DEF IInv, Apart, Indices, targetVars, Pending
<1>3. (AnsweredOnce /\ RefusedOnlyLate)'
  BY DEF AnsweredOnce, RefusedOnlyLate
<1>4. Connection'
  BY DEF IInv, Connection, Pending
<1>5. JoinsLast'
  BY DEF IInv, JoinsLast, Indices
<1>6. InTime'
  <2>1. CASE up /\ late' = FALSE
    <3>1. Indices = {} /\ fed = None
      BY <2>1, Alone DEF IInv
    <3> QED  BY <3>1 DEF InTime, Indices, targetVars
  <2>2. CASE ~(up /\ late' = FALSE)
    BY <2>2 DEF InTime
  <2> QED  BY <2>1, <2>2
<1> QED  BY <1>1, <1>2, <1>3, <1>4, <1>5, <1>6, TargetSame DEF IInv

LEMMA NextCommand == ASSUME IInv, Command PROVE IInv'
<1>1. /\ client = "ready" /\ UNCHANGED <<sid, waiting, late, up, joined, answers>>
      /\ UNCHANGED targetVars
  BY DEF Command
<1>2. PICK w \in Wants :
        /\ want' = w
        /\ IF AsksStatus(w) THEN client' = "asking" /\ Call("getStatus")
           ELSE client' = "calling" /\ Call(w)
  BY DEF Command
<1>3. sid = "joined" /\ cur = 0 /\ answers = {}
  BY <1>1, NoCall DEF IInv, Connection, Pending
<1>4. CASE AsksStatus(w)
  <2>1. "getStatus" \in Kinds /\ client' \in Pending /\ Call("getStatus")
    BY <1>2, <1>4 DEF Kinds, Pending
  <2> QED  BY <1>1, <1>2, <1>3, <2>1, NextCall
<1>5. CASE ~AsksStatus(w)
  <2>1. w # "resume"
    BY <1>5 DEF AsksStatus, PausedOnly
  <2>2. w \in Kinds /\ client' \in Pending /\ Call(w)
    BY <1>2, <1>5, DebuggerAssumption DEF Kinds, Pending
  <2> QED  BY <1>1, <1>2, <1>3, <2>1, <2>2, NextCall
<1> QED  BY <1>4, <1>5

LEMMA NextTakeReply == ASSUME IInv, TakeReply PROVE IInv'
<1>1. /\ client \in Pending /\ UNCHANGED <<sid, waiting, late, up, joined>>
      /\ UNCHANGED targetVars
  BY DEF TakeReply, Pending
<1>2. PICK a \in answers :
        /\ answers' = answers \ {a}
        /\ IF client = "asking" /\ Worth(a.data)
           THEN client' = "calling" /\ Call(want) /\ UNCHANGED want
           ELSE client' = "ready" /\ want' = "none" /\ cur' = 0 /\ UNCHANGED inbox
  BY DEF TakeReply
<1>3. answers # {} /\ answers' = {}
  BY <1>2 DEF IInv, AnsweredOnce
<1>4. sid = "joined" /\ want \in Wants /\ up /\ late \in BOOLEAN
  BY <1>1 DEF IInv, Connection, TypeOK
<1>5. CASE client = "asking" /\ Worth(a.data)
  <2>1. client' \in Pending /\ Call(want) /\ want' \in Wants
    BY <1>2, <1>4, <1>5 DEF Pending
  <2>2. want \in Kinds
    BY <1>4, DebuggerAssumption DEF Kinds
  <2>3. want = "resume" /\ ~late => dbg = "paused"
    BY <1>2, <1>4, <1>5 DEF IInv, InTime, Worth
  <2> QED  BY <1>1, <1>3, <1>4, <2>1, <2>2, <2>3, NextCall
<1>6. CASE ~(client = "asking" /\ Worth(a.data))
  <2>1. client' = "ready" /\ want' = "none" /\ cur' = 0 /\ UNCHANGED inbox
    BY <1>2, <1>6
  <2> QED  BY <1>1, <1>3, <1>4, <2>1, CallEnds
<1> QED  BY <1>5, <1>6

LEMMA NextCallTimesOut == ASSUME IInv, CallTimesOut PROVE IInv'
<1>1. /\ client \in Pending /\ client' = "ready" /\ late' = TRUE /\ want' = "none" /\ cur' = 0
      /\ UNCHANGED <<sid, waiting, up, joined, inbox, answers>> /\ UNCHANGED targetVars
      /\ \A a \in answers : a.id # cur
  BY DEF CallTimesOut, Pending
<1>2. answers' = {}
  BY <1>1 DEF IInv, AnsweredOnce
<1> QED  BY <1>1, <1>2, CallEnds

LEMMA NextSessionLost == ASSUME IInv, SessionLost PROVE IInv'
<1>1. /\ up /\ up' = FALSE /\ joined' = "none" /\ client' = "off" /\ sid' = "none"
      /\ waiting' = FALSE /\ want' = "none" /\ cur' = 0 /\ late' = FALSE
      /\ inbox' = Append(inbox, Ask("lost", 0)) /\ answers' = {} /\ UNCHANGED targetVars
  BY DEF SessionLost
<1>2. sid # "joining" \/ joined # "none"
  BY <1>1 DEF IInv, Connection
<1>3. ~up' /\ (cur' # 0 <=> client' \in Pending)
  BY <1>1 DEF Pending
<1>4. (StatusTruthful /\ Served /\ JoinsLast /\ InTime /\ Apart)' /\ inbox' \in Seq(Messages)
  BY <1>1, <1>2, <1>3, SendsNoCall
<1>5. TypeOK'
  BY <1>1, <1>4, IInvTypes DEF TypeOK, targetVars
<1>6. (AnsweredOnce /\ RefusedOnlyLate)'
  BY <1>1 DEF AnsweredOnce, RefusedOnlyLate
<1>7. Connection'
  BY <1>1 DEF Connection, Pending
<1> QED  BY <1>4, <1>5, <1>6, <1>7 DEF IInv

-----------------------------------------------------------------------------
(* Steps of the target                                                     *)

LEMMA NextTake == ASSUME IInv, Take PROVE IInv'
<1>. DEFINE m == inbox[1]
<1>1. /\ 1 \in Indices /\ m \in Messages /\ Does(m) /\ fed = None
      /\ inbox' \in Seq(Messages) /\ Len(inbox') = Len(inbox) - 1 /\ Len(inbox) \in Nat
      /\ \A i \in 1..Len(inbox') : i + 1 \in Indices /\ i + 1 # 1 /\ inbox'[i] = inbox[i + 1]
      /\ client' = client /\ sid' = sid /\ waiting' = waiting /\ want' = want
      /\ cur' = cur /\ late' = late
  BY TakeDoes DEF clientVars
<1>2. AnswersWell(m) /\ Reads(m) /\ Controls(m) /\ Joins(m)
  BY <1>1 DEF Does
<1>3. m.kind \in Kinds \union {"accept", "lost"} /\ (m.kind \in Kinds => m.id \in Ids)
      /\ Commands \subseteq Kinds /\ m # None
  BY <1>1, MessageKinds DEF Kinds
<1>4. /\ \A i \in 1..Len(inbox') : inbox'[i].id # m.id \/ m.id = 0
      /\ Ids \subseteq Nat \ {0} /\ 0 \notin Ids
  <2>1. \A k, l \in Indices : inbox[k].id = inbox[l].id /\ inbox[k].id # 0 => k = l
    BY DEF IInv, Apart
  <2>2. ASSUME NEW i \in 1..Len(inbox') PROVE inbox'[i].id # m.id \/ m.id = 0
    BY <1>1, <2>1
  <2> QED  BY <2>2, IdsAreNumbers
<1>. HIDE DEF m
\* The answers.
<1>5. \/ answers' = answers
      \/ \E data \in ReplyData :
           /\ m.id = cur /\ m.id \in Ids /\ answers = {}
           /\ answers' = {[id |-> m.id, kind |-> m.kind, data |-> data]}
           /\ data = "paused" => dbg' = "paused"
           /\ data = "busy" => m.kind = "begin" \/ (m.kind = "resume" /\ dbg # "paused")
  <2>1. CASE UNCHANGED answers
    BY <2>1
  <2>2. ASSUME NEW data \in ReplyData, Answers(m, data)
        PROVE  answers' = answers
               \/ (/\ m.id = cur /\ m.id \in Ids /\ answers = {}
                   /\ answers' = {[id |-> m.id, kind |-> m.kind, data |-> data]})
    <3>1. \E i \in Indices : inbox[i].id = m.id
      BY <1>1 DEF m
    <3>2. m.id \in Ids
      BY <2>2 DEF Answers
    <3> QED  BY <1>1, <2>2, <3>1, <3>2, ReplyDoes
  <2> QED  BY <1>2, <2>1, <2>2 DEF AnswersWell
<1>6. ASSUME NEW a \in answers', a \notin answers
      PROVE  /\ a.id = cur /\ m.id = cur /\ a.id \in Ids /\ a.kind = m.kind /\ answers = {}
             /\ a.data \in ReplyData /\ answers' = {a}
             /\ a = [id |-> a.id, kind |-> a.kind, data |-> a.data]
             /\ a.data = "paused" => dbg' = "paused"
             /\ a.data = "busy" => m.kind = "begin" \/ (m.kind = "resume" /\ dbg # "paused")
  BY <1>5, <1>6
<1>7. TypeOK'
  <2>1. \A a \in answers' : a \in [id : Ids, kind : Kinds, data : ReplyData]
    <3>1. ASSUME NEW a \in answers', a \notin answers
          PROVE  a \in [id : Ids, kind : Kinds, data : ReplyData]
      <4>1. a.id \in Ids /\ a.kind \in Kinds /\ a.data \in ReplyData
            /\ a = [id |-> a.id, kind |-> a.kind, data |-> a.data]
        <5>1. m.id \in Ids /\ m.id # 0
          BY <1>4, <1>6, <3>1
        <5>2. m.kind \in Kinds
          BY <1>1, <5>1, MessageKinds
        <5> QED  BY <1>6, <3>1, <5>2
      <4> QED  BY <4>1
    <3> QED  BY <3>1 DEF IInv, TypeOK
  <2>2. {fed', lastMsg'} \subseteq Messages \union {None}
    BY <1>1, <1>2 DEF Reads, readVars, IInv, TypeOK
  <2>3. up' \in BOOLEAN /\ joined' \in {"none", "ok", "rejected", "failed"}
    BY <1>2 DEF Joins, IInv, TypeOK
  <2>4. console' \in BOOLEAN /\ pausing' \in BOOLEAN /\ watch' \in BOOLEAN
        /\ dbg' \in {"none", "running", "paused"}
        /\ target' \in {"loop", "script", "cooperate", "stopped"}
    BY <1>2 DEF Controls
  <2>5. TypeOK
    BY DEF IInv
  <2>6. /\ client' \in {"off", "connecting", "ready", "asking", "calling"}
        /\ sid' \in {"none", "joining", "joined"} /\ waiting' \in BOOLEAN /\ late' \in BOOLEAN
        /\ want' \in Wants \union {"none"} /\ cur' \in Ids \union {0}
    BY <1>1, <2>5 DEF TypeOK
  <2> QED  BY <1>1, <2>1, <2>2, <2>3, <2>4, <2>6 DEF TypeOK
<1>8. StatusTruthful' /\ Served'
  <2>1. fed' # None => target' \in Reading /\ lastMsg' = fed'
    BY <1>1, <1>2 DEF Reads, readVars
  <2>2. lastMsg' # None => lastMsg'.kind \in Commands
    BY <1>2 DEF Reads, readVars, IInv, Served
  <2> QED  BY <1>2, <2>1, <2>2 DEF Controls, StatusTruthful, Served, Reading
<1>9. Apart'
  <2>1. cur' # 0 <=> client' \in Pending
    BY <1>1 DEF IInv, Apart
  <2>2. \A i, j \in 1..Len(inbox') : inbox'[i].id = inbox'[j].id /\ inbox'[i].id # 0 => i = j
    <3>1. ASSUME NEW i \in 1..Len(inbox'), NEW j \in 1..Len(inbox'),
                 inbox'[i].id = inbox'[j].id, inbox'[i].id # 0
          PROVE  i = j
      <4>1. i + 1 = j + 1
        <5>1. \A k, l \in Indices : inbox[k].id = inbox[l].id /\ inbox[k].id # 0 => k = l
          BY DEF IInv, Apart
        <5> QED  BY <1>1, <3>1, <5>1
      <4> QED  BY <4>1
    <3> QED  BY <3>1
  <2>3. ASSUME NEW i \in 1..Len(inbox'), lastMsg' # None PROVE inbox'[i].id # lastMsg'.id
    <3>1. CASE lastMsg' = lastMsg
      BY <1>1, <2>3, <3>1 DEF IInv, Apart
    <3>2. CASE lastMsg' = m /\ m.kind \in Commands
      BY <1>3, <1>4, <3>2
    <3> QED  BY <1>2, <3>1, <3>2 DEF Reads, readVars
  <2> QED  BY <2>1, <2>2, <2>3 DEF Apart, Indices, Pending
<1>10. AnsweredOnce'
  <2>1. \A a, b \in answers' : a = b
    BY <1>6 DEF IInv, AnsweredOnce
  <2>2. ASSUME NEW a \in answers'
        PROVE  /\ a.id = cur' /\ (fed' # None => fed'.id # cur')
               /\ \A i \in 1..Len(inbox') : inbox'[i].id # cur'
    <3>1. CASE a \in answers
      <4>1. a.id = cur /\ \A i \in Indices : inbox[i].id # cur
        BY <3>1 DEF IInv, AnsweredOnce
      <4>2. fed' # None => fed' = m
        BY <1>1, <1>2 DEF Reads, readVars
      <4> QED  BY <1>1, <4>1, <4>2 DEF m
    <3>2. CASE a \notin answers
      <4>1. a.id = cur /\ m.id = cur /\ m.id # 0
        BY <1>4, <1>6, <3>2
      <4>2. fed' = None
        BY <1>1, <1>2, <3>2 DEF Reads, readVars
      <4> QED  BY <1>1, <1>4, <4>1, <4>2
    <3> QED  BY <3>1, <3>2
  <2> QED  BY <2>1, <2>2 DEF AnsweredOnce, Indices
\* A join is the last message before there is a session.
<1>11. m.kind = "accept" => sid = "joining" /\ joined = "none" /\ Len(inbox') = 0 /\ ~up
  BY <1>1 DEF m, IInv, JoinsLast, Connection
<1>12. Connection'
  <2>1. CASE UNCHANGED <<up, joined>>
    BY <1>1, <2>1 DEF IInv, Connection, Pending
  <2>2. CASE m.kind = "accept" /\ up' = up /\ joined' \in {"rejected", "failed"}
    BY <1>1, <1>11, <2>2 DEF IInv, Connection, Pending
  <2>3. CASE m.kind = "accept" /\ up' /\ joined' = "ok"
    BY <1>1, <1>11, <2>3 DEF IInv, Connection, Pending
  <2> QED  BY <1>2, <2>1, <2>2, <2>3 DEF Joins
<1>13. JoinsLast'
  <2>1. CASE UNCHANGED <<up, joined>>
    <3>1. ASSUME NEW i \in 1..Len(inbox')
          PROVE  /\ inbox'[i].kind = "accept" =>
                      i = Len(inbox') /\ sid' = "joining" /\ joined' = "none"
                 /\ up' => inbox'[i].kind # "lost"
      <4>1. i + 1 \in Indices /\ inbox'[i] = inbox[i + 1]
        BY <1>1
      <4>2. /\ inbox[i + 1].kind = "accept" =>
                 i + 1 = Len(inbox) /\ sid = "joining" /\ joined = "none"
            /\ up => inbox[i + 1].kind # "lost"
        BY <4>1 DEF IInv, JoinsLast
      <4> QED  BY <1>1, <2>1, <4>1, <4>2
    <3> QED  BY <3>1 DEF JoinsLast, Indices
  <2>2. CASE m.kind = "accept"
    BY <1>11, <2>2 DEF JoinsLast, Indices
  <2> QED  BY <1>2, <2>1, <2>2 DEF Joins
<1>14. InTime'
  <2>1. CASE UNCHANGED <<up, joined>> /\ up /\ ~late
    <3>1. \A i \in Indices : inbox[i].id = cur /\ (inbox[i].kind = "resume" => dbg = "paused")
      BY <2>1 DEF IInv, InTime
    <3>2. m.id = cur /\ m.id # 0 /\ m.kind # "lost"
      <4>1. m.kind \notin {"accept", "lost"}
        BY <1>1, <1>11, <2>1 DEF m, IInv, JoinsLast
      <4> QED  BY <1>1, <1>3, <1>4, <3>1, <4>1 DEF m
    <3>3. Len(inbox') = 0
      <4>1. ASSUME NEW i \in 1..Len(inbox') PROVE FALSE
        BY <1>1, <1>4, <3>1, <3>2, <4>1
      <4> QED  BY <1>1, <4>1
    <3>4. fed' # None => fed'.id = cur
      BY <1>1, <1>2, <3>2 DEF Reads, readVars
    <3>5. answers = {}
      BY <1>1, <3>2 DEF m, IInv, AnsweredOnce
    <3>6. \A a \in answers' : a.data = "paused" => dbg' = "paused"
      BY <1>6, <3>5
    <3>7. cur' = cur
      BY <1>1
    <3>8. 1..Len(inbox') = {}
      BY <3>3
    <3> QED  BY <3>4, <3>6, <3>7, <3>8 DEF InTime, Indices
  <2>2. CASE m.kind = "accept" /\ up' /\ joined' = "ok"
             /\ UNCHANGED <<answers, readVars, dbg>>
    <3>1. client \notin Pending
      BY <1>11, <2>2 DEF IInv, Connection
    <3>2. answers' = {} /\ fed' = None
      BY <1>1, <2>2, <3>1, NoCall DEF IInv, readVars
    <3> QED  BY <1>11, <2>2, <3>2 DEF InTime, Indices
  <2>3. CASE ~up' \/ late
    BY <1>1, <2>3 DEF InTime
  <2>4. m.kind = "accept" /\ up' = up => ~up'
    BY <1>11
  <2> QED  BY <1>2, <2>1, <2>2, <2>3, <2>4 DEF Joins
<1>15. RefusedOnlyLate'
  <2>1. ASSUME NEW a \in answers', a.data = "busy", a.kind # "begin" PROVE late'
    <3>1. CASE a \in answers
      BY <1>1, <2>1, <3>1 DEF IInv, RefusedOnlyLate
    <3>2. CASE a \notin answers
      <4>1. m.id = cur /\ a.kind = m.kind /\ m.kind = "resume" /\ dbg # "paused" /\ m.id # 0
        BY <1>4, <1>6, <2>1, <3>2
      <4>2. up
        BY <4>1 DEF IInv, Apart, Connection
      <4>3. late
        BY <1>1, <4>1, <4>2 DEF m, IInv, InTime
      <4> QED  BY <1>1, <4>3
    <3> QED  BY <3>1, <3>2
  <2> QED  BY <2>1 DEF RefusedOnlyLate
<1> QED  BY <1>7, <1>8, <1>9, <1>10, <1>12, <1>13, <1>14, <1>15 DEF IInv

\* The interpreter executes the command of the read buffer and replies to its call.
LEMMA NextDukExecutes == ASSUME IInv, DukExecutes PROVE IInv'
<1>1. /\ fed # None /\ fed' = None /\ Reply(lastMsg, fed.kind) /\ lastMsg' = None
      /\ UNCHANGED <<client, sid, waiting, want, cur, late, up, joined, inbox, console, watch>>
  BY DEF DukExecutes, clientVars, routerVars
<1>2. /\ fed \in Messages /\ lastMsg = fed /\ fed.kind \in Commands /\ fed.id \in Ids
      /\ fed.id # 0 /\ target \in Reading /\ dbg # "none"
  BY <1>1, FedIsCommand DEF IInv
<1>3. fed.kind \in ReplyData /\ fed.kind \in Kinds /\ fed.kind \notin {"paused", "busy"}
  BY <1>2 DEF ReplyData, Kinds, Commands, PausedOnly
<1>4. /\ fed.id # cur => answers' = answers
      /\ fed.id = cur => /\ answers = {}
                         /\ answers' = {[id |-> fed.id, kind |-> fed.kind, data |-> fed.kind]}
  BY <1>1, <1>2, <1>3, ReplyDoes DEF Answers
<1>5. ASSUME NEW a \in answers', a \notin answers
      PROVE  a = [id |-> fed.id, kind |-> fed.kind, data |-> fed.kind] /\ fed.id = cur
             /\ answers' = {a}
  BY <1>4, <1>5
<1>6. \A i \in Indices : inbox[i].id # fed.id
  BY <1>1, <1>2 DEF IInv, Apart
\* The state of the interpreter.
<1>7. /\ dbg' \in {"none", "running", "paused"} /\ pausing' \in BOOLEAN
      /\ target' \in {"loop", "script", "stopped"} /\ (dbg' = "paused" <=> target' = "stopped")
  <2>1. dbg \in {"running", "paused"} /\ (dbg = "paused" <=> target = "stopped")
        /\ pausing \in BOOLEAN
    BY <1>2 DEF IInv, TypeOK, StatusTruthful
  <2>2. \/ dbg' = "none" /\ Leaves
        \/ target = "stopped" /\ dbg' = "paused" /\ Leaves
        \/ target # "stopped" /\ dbg' = "running" /\ Leaves
        \/ dbg' = "running" /\ target' = "script"
        \/ dbg' = dbg /\ Leaves
    BY DEF DukExecutes, StatusOf
  <2>3. pausing' \in BOOLEAN
    BY <2>1, Zenon DEF DukExecutes
  <2> QED  BY <1>2, <2>1, <2>2, <2>3 DEF Leaves, Reading
<1>8. TypeOK'
  <2>1. answers' \subseteq [id : Ids, kind : Kinds, data : ReplyData]
    BY <1>2, <1>3, <1>5 DEF IInv, TypeOK
  <2>2. TypeOK
    BY DEF IInv
  <2> QED  BY <1>1, <1>7, <2>1, <2>2 DEF TypeOK
<1>9. (StatusTruthful /\ Served)'
  BY <1>1, <1>7 DEF StatusTruthful, Served, Reading
<1>10. Apart'
  BY <1>1 DEF IInv, Apart, Indices, Pending
<1>11. AnsweredOnce'
  <2>1. \A a, b \in answers' : a = b
    BY <1>5 DEF IInv, AnsweredOnce
  <2>2. ASSUME NEW a \in answers'
        PROVE  a.id = cur /\ \A i \in Indices : inbox[i].id # cur
    BY <1>5, <1>6 DEF IInv, AnsweredOnce
  <2> QED  BY <1>1, <2>1, <2>2 DEF AnsweredOnce, Indices
<1>12. (Connection /\ JoinsLast)'
  BY <1>1 DEF IInv, Connection, JoinsLast, Indices, Pending
<1>13. InTime'
  <2>1. CASE up /\ ~late
    <3>1. fed.id = cur /\ \A i \in Indices : inbox[i].id = cur
      BY <1>1, <2>1 DEF IInv, InTime
    <3>2. Indices = {}
      BY <1>6, <3>1
    <3>3. \A a \in answers' : a.data # "paused"
      BY <1>3, <1>4, <3>1
    <3> QED  BY <1>1, <3>2, <3>3 DEF InTime, Indices
  <2>2. CASE ~(up /\ ~late)
    BY <1>1, <2>2 DEF InTime
  <2> QED  BY <2>1, <2>2
<1>14. RefusedOnlyLate'
  BY <1>1, <1>3, <1>5 DEF IInv, RefusedOnlyLate
<1> QED  BY <1>8, <1>9, <1>10, <1>11, <1>12, <1>13, <1>14 DEF IInv

\* A step that moves the thread, and nothing that the console sees of it but the status.
LEMMA ThreadMoves ==
  ASSUME IInv, target \notin Reading, target' \in {"loop", "script", "stopped"},
         dbg' \in {"none", "running", "paused"}, dbg' = "paused" <=> target' = "stopped",
         pausing' \in BOOLEAN,
         UNCHANGED <<client, sid, waiting, want, cur, late, up, joined, inbox, answers, console,
                     fed, lastMsg, watch>>
  PROVE  IInv'
<1>1. fed = None /\ dbg # "paused"
  BY DEF IInv, Served, StatusTruthful, Reading
<1>2. TypeOK'
  <2>1. TypeOK
    BY DEF IInv
  <2> QED  BY <2>1 DEF TypeOK
<1>3. (StatusTruthful /\ Served)'
  BY <1>1 DEF IInv, StatusTruthful, Served, Reading
<1>4. (Apart /\ AnsweredOnce)'
  BY DEF IInv, Apart, AnsweredOnce, Indices, Pending
<1>5. (Connection /\ JoinsLast)'
  BY DEF IInv, Connection, JoinsLast, Indices, Pending
<1>6. (InTime /\ RefusedOnlyLate)'
  BY <1>1 DEF IInv, InTime, RefusedOnlyLate, Indices
<1> QED  BY <1>2, <1>3, <1>4, <1>5, <1>6 DEF IInv

LEMMA NextThread == ASSUME IInv, Stop \/ ScriptEnds \/ RunScript PROVE IInv'
<1>1. dbg \in {"none", "running", "paused"} /\ pausing \in BOOLEAN
      /\ (dbg = "paused" <=> target = "stopped")
  BY DEF IInv, TypeOK, StatusTruthful
<1>2. CASE Stop
  <2>1. /\ target = "script" /\ target' = "stopped" /\ dbg' = "paused" /\ pausing' = FALSE
        /\ UNCHANGED <<client, sid, waiting, want, cur, late, up, joined, inbox, answers, console,
                       fed, lastMsg, watch>>
    BY <1>2 DEF Stop, StatusOf, clientVars, routerVars
  <2> QED  BY <2>1, ThreadMoves DEF Reading
<1>3. CASE ScriptEnds \/ RunScript
  <2>1. /\ target \in {"script", "loop"} /\ target' \in {"loop", "script"}
        /\ UNCHANGED <<client, sid, waiting, want, cur, late, up, joined, inbox, answers, console,
                       fed, lastMsg, watch, dbg, pausing>>
    BY <1>3 DEF ScriptEnds, RunScript, clientVars, routerVars
  <2>2. target \notin Reading /\ target' \in {"loop", "script", "stopped"}
    BY <2>1 DEF Reading
  <2>3. dbg' \in {"none", "running", "paused"} /\ (dbg' = "paused" <=> target' = "stopped")
        /\ pausing' \in BOOLEAN
    BY <1>1, <2>1
  <2> QED  BY <2>1, <2>2, <2>3, ThreadMoves
<1> QED  BY <1>2, <1>3

-----------------------------------------------------------------------------
(* The theorems                                                            *)

LEMMA InitIInv == Init => IInv
<1> SUFFICES ASSUME Init PROVE IInv
  OBVIOUS
<1>1. inbox \in Seq(Messages) /\ Indices = {}
  BY EmptySeq DEF Init, Indices
<1>2. TypeOK
  BY <1>1 DEF Init, TypeOK
<1>3. StatusTruthful /\ Served /\ RefusedOnlyLate
  BY DEF Init, StatusTruthful, Served, RefusedOnlyLate, Reading
<1>4. Apart /\ AnsweredOnce /\ Connection
  BY <1>1 DEF Init, Apart, AnsweredOnce, Connection, Pending
<1>5. JoinsLast /\ InTime
  BY <1>1 DEF Init, JoinsLast, InTime
<1> QED  BY <1>2, <1>3, <1>4, <1>5 DEF IInv

LEMMA NextIInv == IInv /\ [Next]_vars => IInv'
<1> SUFFICES ASSUME IInv, [Next]_vars PROVE IInv'
  OBVIOUS
<1>1. CASE Connect \/ Wait \/ Announced \/ JoinSessionCB
  BY <1>1, NextConnect, NextWait, NextAnnounced, NextJoinSessionCB
<1>2. CASE Command \/ TakeReply \/ CallTimesOut \/ SessionLost
  BY <1>2, NextCommand, NextTakeReply, NextCallTimesOut, NextSessionLost
<1>3. CASE Take
  BY <1>3, NextTake
<1>4. CASE Duk \/ RunScript
  BY <1>4, NextDukExecutes, NextThread DEF Duk
<1>5. CASE UNCHANGED vars
  <2>1. TypeOK'
    BY <1>5 DEF IInv, TypeOK, vars
  <2>2. (StatusTruthful /\ Served)'
    BY <1>5, TargetSame DEF vars, targetVars
  <2>3. (Apart /\ AnsweredOnce /\ InTime /\ RefusedOnlyLate)'
    BY <1>5, MessagesSame DEF vars, targetVars
  <2>4. (Connection /\ JoinsLast)'
    BY <1>5 DEF IInv, Connection, JoinsLast, Indices, Pending, vars
  <2> QED  BY <2>1, <2>2, <2>3, <2>4 DEF IInv
<1> QED  BY <1>1, <1>2, <1>3, <1>4, <1>5 DEF Next

\* Console, router and target keep to what they owe each other, in every order of calls,
\* answers, timeouts and lost sessions.
THEOREM Invariance == Spec => []IInv
BY InitIInv, NextIInv, PTL DEF Spec

\* The variables of console, router and target keep their types.
THEOREM TypeCorrect == Spec => []TypeOK
<1>1. IInv => TypeOK
  BY DEF IInv
<1> QED  BY <1>1, Invariance, PTL

\* The status of the debugger is paused exactly while the interpreter has stopped a script
\* (DebuggerWrite, AJS_StopDebugger).
THEOREM StatusIsTruthful == Spec => []StatusTruthful
<1>1. IInv => StatusTruthful
  BY DEF IInv
<1> QED  BY <1>1, Invariance, PTL

\* A call has one answer, which is to its own command (lastMsg in DebugMsgUnmarshal).
THEOREM AnswersBelong == Spec => []AnswersOwn
<1>1. IInv => AnswersOwn
  <2>1. TypeOK => DOMAIN inbox = Indices
    BY DEF TypeOK, Indices
  <2> QED  BY <2>1 DEF IInv, Served, AnsweredOnce, AnswersOwn
<1> QED  BY <1>1, Invariance, PTL

\* What the console asks for after it has seen that the script is paused is not refused,
\* unless one of its calls was given up (DebugCommandAllowed).
THEOREM NothingRefusedInTime == Spec => []RefusedOnlyLate
<1>1. IInv => RefusedOnlyLate
  BY DEF IInv
<1> QED  BY <1>1, Invariance, PTL
=============================================================================
