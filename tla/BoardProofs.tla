---------------------------- MODULE BoardProofs ----------------------------
(***************************************************************************)
(* Proofs about the board's program.  The message loop, whatever calls     *)
(* other peers have: every call is answered at most once, every reply      *)
(* reaches the handler of its own call, what a handler deferred is done    *)
(* before the next message, and only a locked console leaves a session     *)
(* request unanswered.  The bounds on serials and notifications matter     *)
(* only for the types.                                                     *)
(*                                                                         *)
(* The small parts around it: I/O objects (IOObjects), input pins and      *)
(* their triggers (GPIO), the buffer of a UART (SimUart), properties that  *)
(* a script keeps (ScriptStore) and those of the device (PropertyStore),   *)
(* strings outside the heap (ExternalStrings) and control panels           *)
(* (ControlPanel).  Each is proved about on its own, in a section of its   *)
(* own; the last section carries the results over to the parts as the      *)
(* module Board puts them together.                                        *)
(***************************************************************************)
EXTENDS Board, Loops, Integers, Sequences, FiniteSets, FiniteSetTheorems, SequenceTheorems, TLAPS

-----------------------------------------------------------------------------
(* The message loop                                                        *)

Places == {"attach", "onboarding", "start", "pass", "wait", "handler", "after", "ended"}

\* The message objects of the calls, with one reply at most.
Object == [at : {"away", "held", "spent", "gone"}, replies : 0..1]
Objects == calls \in [Calls -> Object] /\ lost \subseteq Calls

\* A call that is on its way or with the script has had no reply.
NoneYet == \A c \in Calls : calls[c].at \in {"away", "held"} => calls[c].replies = 0

\* One that can have no reply any more, and had none, is known to be lost.
Known == \A c \in Calls : calls[c].at \in {"spent", "gone"} /\ calls[c].replies = 0 => c \in lost

CallsInv == Objects /\ NoneYet /\ Known

\* A handler waits under the serial of its own call, one that has been sent.
Waiting == \A h \in stash : h[1] = h[2] /\ h[2] \in Nat /\ h[2] < serial

\* One that runs has the reply to its own call, and does not wait any more.
Served == \A r \in ran : r[1] = r[2] /\ r[2] \in Nat /\ r[2] < serial /\ r \notin stash

RepliesInv == serial \in Nat /\ Waiting /\ Served

\* From onboarding to the end of a message there is a connection.
Connected == pc \in {"onboarding", "start", "pass", "wait", "handler", "after"} => bus

\* What a message deferred is forgotten, or done, before the next one.
Settled == pc \in {"pass", "wait"} => op.in # "message"

PassInv == pc \in Places /\ Connected /\ Settled

IInv == CallsInv /\ RepliesInv /\ PassInv /\ JoinsAnswered

-----------------------------------------------------------------------------
(* Calls of other peers                                                    *)

\* An object goes to another place with the replies it has.
LEMMA Moved ==
  ASSUME calls \in [Calls -> Object], NEW c \in Calls, NEW a
  PROVE  [calls EXCEPT ![c].at = a]
         = [calls EXCEPT ![c] = [at |-> a, replies |-> calls[c].replies]]
<1>1. PICK at, n : calls[c] = [at |-> at, replies |-> n]
  BY DEF Object
<1>2. [calls[c] EXCEPT !.at = a] = [at |-> a, replies |-> calls[c].replies]
  BY <1>1
<1>3. [calls EXCEPT ![c].at = a] = [calls EXCEPT ![c] = [calls[c] EXCEPT !.at = a]]
  OBVIOUS
<1> QED BY <1>2, <1>3

\* A reply, or an attempt at one, uses up a call that was held.
LEMMA ReplySpends ==
  ASSUME CallsInv, NEW c \in Calls, calls[c].at = "held",
         NEW marshalled \in BOOLEAN, HandleReply(c, marshalled)
  PROVE  CallsInv'
<1> USE DEF Object
<1>1. /\ calls[c].replies = 0
      /\ calls \in [Calls -> Object]
  BY DEF CallsInv, Objects, NoneYet
<1>2. CASE marshalled
  <2>1. calls' = [calls EXCEPT ![c] = [at |-> "spent", replies |-> 1]] /\ lost' = lost
    BY <1>1, <1>2 DEF HandleReply
  <2> QED BY <1>1, <2>1 DEF CallsInv, Objects, NoneYet, Known
<1>3. CASE ~marshalled
  <2>1. /\ calls' = [calls EXCEPT ![c].at = "spent", ![c].replies = 0]
        /\ lost' = lost \union {c}
    BY <1>1, <1>3 DEF HandleReply
  <2>2. calls' = [calls EXCEPT ![c] = [at |-> "spent", replies |-> 0]]
    <3>1. calls' = [[calls EXCEPT ![c].at = "spent"] EXCEPT ![c].replies = 0]
      BY <1>1, <2>1
    <3>2. [calls EXCEPT ![c].at = "spent"]
          = [calls EXCEPT ![c] = [at |-> "spent", replies |-> 0]]
      BY <1>1, Moved
    <3>3. [[calls EXCEPT ![c] = [at |-> "spent", replies |-> 0]] EXCEPT ![c].replies = 0]
          = [calls EXCEPT ![c] = [at |-> "spent", replies |-> 0]]
      <4>1. [[at |-> "spent", replies |-> 0] EXCEPT !.replies = 0] = [at |-> "spent", replies |-> 0]
        OBVIOUS
      <4>2. \A r : [[calls EXCEPT ![c] = r] EXCEPT ![c].replies = 0]
                   = [calls EXCEPT ![c] = [r EXCEPT !.replies = 0]]
        BY <1>1
      <4> QED BY <4>1, <4>2
    <3> QED BY <3>1, <3>2, <3>3
  <2>3. lost' = lost \union {c}
    BY <2>1
  <2> QED BY <1>1, <2>2, <2>3 DEF CallsInv, Objects, NoneYet, Known
<1> QED BY <1>2, <1>3

\* A call that the script has, or that did not get to it, is given up.
LEMMA GivenUp ==
  ASSUME CallsInv, NEW c \in Calls, calls[c].at \in {"away", "held"},
         calls' = [calls EXCEPT ![c].at = "gone"], lost' = lost \union {c}
  PROVE  CallsInv'
<1> USE DEF Object
<1>1. calls \in [Calls -> Object]
  BY DEF CallsInv, Objects
<1>2. calls' = [calls EXCEPT ![c] = [at |-> "gone", replies |-> 0]]
  <2>1. calls[c].replies = 0
    BY DEF CallsInv, NoneYet
  <2> HIDE DEF Object
  <2> QED BY <1>1, <2>1, Moved
<1> QED BY <1>1, <1>2 DEF CallsInv, Objects, NoneYet, Known

\* A call arrives: dropped, rejected or with the script.
LEMMA CallArrives ==
  ASSUME CallsInv, NEW c \in Calls, HandleCall(c)
  PROVE  CallsInv'
<1> USE DEF Object
<1>1. /\ calls[c].at = "away" /\ calls[c].replies = 0
      /\ calls \in [Calls -> Object]
  BY DEF CallsInv, Objects, NoneYet, HandleCall
<1>2. CASE lost' = lost \union {c} /\ calls' = [calls EXCEPT ![c].at = "gone"]
  BY <1>1, <1>2, GivenUp
<1>3. CASE calls' = Reject(c) /\ UNCHANGED lost
  BY <1>1, <1>3 DEF Reject, CallsInv, Objects, NoneYet, Known
<1>4. CASE calls' = [calls EXCEPT ![c].at = "held"] /\ UNCHANGED lost
  <2>1. calls' = [calls EXCEPT ![c] = [at |-> "held", replies |-> 0]]
    BY <1>1, <1>4, Moved
  <2> QED BY <1>1, <1>4, <2>1 DEF CallsInv, Objects, NoneYet, Known
<1> QED BY <1>2, <1>3, <1>4 DEF HandleCall

\* A new script has none of the message objects of the one before it.
LEMMA NewScript ==
  ASSUME CallsInv, Restart
  PROVE  CallsInv'
<1> USE DEF Object
<1> DEFINE Fresh(c) == IF calls[c].at = "held" THEN [at |-> "gone", replies |-> 0] ELSE calls[c]
<1>1. calls \in [Calls -> Object]
  BY DEF CallsInv, Objects
<1>2. /\ lost' = lost \union {c \in Calls : calls[c].at = "held"}
      /\ calls' = [c \in Calls |-> IF calls[c].at = "held" THEN [calls[c] EXCEPT !.at = "gone"]
                                   ELSE calls[c]]
  BY DEF Restart
<1>3. \A c \in Calls : calls'[c] = Fresh(c)
  BY <1>1, <1>2 DEF CallsInv, NoneYet
<1>4. calls' \in [Calls -> Object]
  <2>1. \A c \in Calls : Fresh(c) \in Object
    BY <1>1
  <2>2. calls' = [c \in Calls |-> calls'[c]]
    BY <1>2
  <2> HIDE DEF Fresh
  <2> QED BY <1>3, <2>1, <2>2
<1>5. lost' \subseteq Calls
  BY <1>2 DEF CallsInv, Objects
<1>6. NoneYet'
  BY <1>1, <1>3 DEF CallsInv, NoneYet
<1>7. Known'
  BY <1>1, <1>2, <1>3 DEF CallsInv, Known
<1> QED BY <1>4, <1>5, <1>6, <1>7 DEF CallsInv, Objects

\* Whatever happens, no call has a second reply or is lost without being known.
LEMMA CallsKept ==
  ASSUME CallsInv, [Next]_vars
  PROVE  CallsInv'
<1> USE DEF Object
<1>1. CASE UNCHANGED callVars
  BY <1>1 DEF CallsInv, Objects, NoneYet, Known, callVars
<1>2. CASE MethodCallReply
  BY <1>2, ReplySpends DEF MethodCallReply, Unanswered
<1>3. CASE HandleMessage
  BY <1>1, <1>3, CallArrives
  DEF HandleMessage, HandleSignal, HandleReplyMessage, Collapse, callVars
<1>4. CASE HandlerReturns
  BY <1>1, <1>4, GivenUp DEF HandlerReturns
<1>5. CASE HandlerThrows
  BY <1>1, <1>5, ReplySpends, GivenUp DEF HandlerThrows, Unanswered
<1>6. CASE Restart
  BY <1>6, NewScript
<1>7. CASE UNCHANGED vars
  BY <1>1, <1>7 DEF vars
<1> QED
  BY <1>1, <1>2, <1>3, <1>4, <1>5, <1>6, <1>7
  DEF Next, AttachAllJoyn, Onboard, MessageLoop, Script, SendCall, DeferredOperation, ServePass,
      NoMessage, PolicyCollapse, BusMessage, SessionDispatcher, DoDeferredOperation,
      QueueNotifPolicyChanged, Collapse

-----------------------------------------------------------------------------
(* Replies to the calls of the script                                      *)

\* A call takes the next serial; a handler may be put under it.
LEMMA CallMade ==
  ASSUME RepliesInv, SendCall
  PROVE  RepliesInv'
<1>1. /\ serial \in Nat /\ serial' = serial + 1 /\ ran' = ran
      /\ stash' = stash \/ stash' = stash \union {<<serial, serial>>}
  BY DEF RepliesInv, SendCall, SetOnReply, Made, MarshalMethodCall, MatchRule, FindService,
         FindServiceByName, AdvertiseName
<1>2. \A h \in stash' : h \in stash \/ h = <<serial, serial>>
  BY <1>1
<1>3. ASSUME NEW h \in stash'
      PROVE  h[1] = h[2] /\ h[2] \in Nat /\ h[2] < serial'
  <2>1. CASE h \in stash
    BY <1>1, <2>1 DEF RepliesInv, Waiting
  <2>2. CASE h = <<serial, serial>>
    BY <1>1, <2>2
  <2> QED BY <1>2, <2>1, <2>2
<1>4. ASSUME NEW r \in ran
      PROVE  r[1] = r[2] /\ r[2] \in Nat /\ r[2] < serial' /\ r \notin stash'
  <2>1. r[1] = r[2] /\ r[2] \in Nat /\ r[2] < serial /\ r \notin stash
    BY DEF RepliesInv, Served
  <2>2. r # <<serial, serial>>
    BY <1>1, <2>1
  <2> QED BY <1>1, <1>2, <2>1, <2>2
<1> QED BY <1>1, <1>3, <1>4 DEF RepliesInv, Served, Waiting

\* A reply runs the handler that waits under its serial, and no other waits there.
LEMMA ReplyArrives ==
  ASSUME RepliesInv, NEW s, NEW kind, HandleReplyMessage(s, kind)
  PROVE  RepliesInv'
<1>1. CASE UNCHANGED <<serial, stash, ran>>
  BY <1>1 DEF RepliesInv, Waiting, Served
<1>2. CASE /\ stash' = TakenOut(s) /\ serial' = serial
           /\ ran' = {<<s, h[2]>> : h \in {g \in stash : g[1] = s}}
  <2>1. Waiting'
    BY <1>2 DEF RepliesInv, Waiting, TakenOut
  <2>2. ASSUME NEW r \in ran'
        PROVE  r[1] = r[2] /\ r[2] \in Nat /\ r[2] < serial /\ r \notin stash'
    <3>1. PICK h \in stash : h[1] = s /\ r = <<s, h[2]>>
      BY <1>2
    <3>2. h[1] = h[2] /\ h[2] \in Nat /\ h[2] < serial
      BY DEF RepliesInv, Waiting
    <3> QED BY <1>2, <3>1, <3>2 DEF TakenOut
  <2> QED BY <1>2, <2>1, <2>2 DEF RepliesInv, Served
<1> QED BY <1>1, <1>2 DEF HandleReplyMessage

\* Whatever happens, a reply runs the handler of its own call, and that once.
LEMMA RepliesKept ==
  ASSUME RepliesInv, [Next]_vars
  PROVE  RepliesInv'
<1>1. CASE UNCHANGED <<serial, stash, ran>>
  BY <1>1 DEF RepliesInv, Waiting, Served
<1>2. CASE SendCall
  BY <1>2, CallMade
<1>3. CASE HandleMessage
  BY <1>1, <1>3, ReplyArrives DEF HandleMessage, HandleCall, HandleSignal, Collapse, replyVars
<1>4. CASE UNCHANGED <<serial, stash>> /\ ran' = {}
  BY <1>4 DEF RepliesInv, Waiting, Served
<1>5. CASE Restart
  <2>1. serial' \in Nat /\ stash' = {} /\ ran' = {}
    BY <1>5 DEF RepliesInv, Restart
  <2> QED BY <2>1 DEF RepliesInv, Waiting, Served
<1>6. CASE UNCHANGED vars
  BY <1>1, <1>6 DEF vars, replyVars
<1> QED
  BY <1>1, <1>2, <1>3, <1>4, <1>5, <1>6
  DEF Next, AttachAllJoyn, Onboard, MessageLoop, Script, MethodCallReply, DeferredOperation,
      ServePass, NoMessage, PolicyCollapse, BusMessage, SessionDispatcher, DoDeferredOperation,
      QueueNotifPolicyChanged, HandlerReturns, HandlerThrows, Collapse, replyVars

-----------------------------------------------------------------------------
(* The connection and deferred operations                                  *)

\* The loop passes only while there is a connection, and forgets no operation
\* that a message deferred.
LEMMA PassKept ==
  ASSUME PassInv, [Next]_vars
  PROVE  PassInv'
<1> USE DEF PassInv, Places, Connected, Settled
<1>1. CASE UNCHANGED <<pc, bus, op>>
  BY <1>1
<1>2. CASE AttachAllJoyn
  BY <1>2 DEF AttachAllJoyn, AttachFails, opVars
<1>3. CASE Onboard
  BY <1>3 DEF Onboard, opVars
<1>4. CASE MessageLoop
  BY <1>4 DEF MessageLoop, NoOp
<1>5. CASE DeferredOperation
  BY <1>5 DEF DeferredOperation, Running
<1>6. CASE ServePass
  BY <1>6 DEF ServePass, opVars
<1>7. CASE NoMessage
  BY <1>7 DEF NoMessage, opVars
<1>8. CASE pc = "wait" /\ pc' \in {"after", "handler", "ended"} /\ UNCHANGED <<bus, op>>
  BY <1>8
<1>9. CASE HandleMessage
  BY <1>8, <1>9
  DEF HandleMessage, HandleCall, HandleSignal, HandleReplyMessage, Skip, Enter, Collapse
<1>10. CASE pc = "handler" /\ pc' = "after" /\ UNCHANGED <<bus, op>>
  BY <1>10
<1>11. CASE DoDeferredOperation
  <2>1. pc = "after" /\ pc' \in {"pass", "ended"} /\ op' \in {op, NoOp}
    BY <1>11 DEF DoDeferredOperation
  <2>2. pc' = "pass" => op = NoOp /\ op' = op /\ bus' = bus
    BY <1>11 DEF DoDeferredOperation
  <2>3. Connected'
    BY <2>1, <2>2
  <2>4. Settled'
    <3>1. CASE pc' = "pass"
      <4>1. op'.in = "none"
        BY <2>2, <3>1 DEF NoOp
      <4> QED BY <4>1
    <3>2. CASE pc' = "ended"
      BY <3>2
    <3> QED BY <2>1, <3>1, <3>2
  <2> QED BY <2>1, <2>3, <2>4
<1>12. CASE Restart
  BY <1>12 DEF Restart
<1>13. CASE UNCHANGED vars
  BY <1>1, <1>13 DEF vars, opVars
<1> QED
  BY <1>1, <1>2, <1>3, <1>4, <1>5, <1>6, <1>7, <1>8, <1>9, <1>10, <1>11, <1>12, <1>13
  DEF Next, Script, MethodCallReply, SendCall, PolicyCollapse, BusMessage, SessionDispatcher,
      QueueNotifPolicyChanged, HandlerReturns, HandlerThrows, Collapse, opVars

-----------------------------------------------------------------------------
(* The message loop: the theorems                                          *)

\* A session request is left without an answer only by SessionDispatcher, on
\* the ports of the console, while it is locked.
LEMMA JoinsKept ==
  ASSUME JoinsAnswered, [Next]_vars
  PROVE  JoinsAnswered'
<1>1. CASE UNCHANGED <<join, locked>>
  BY <1>1 DEF JoinsAnswered
<1>2. CASE join' \in {NoJoin, <<"app", "answered">>}
  BY <1>2 DEF JoinsAnswered, NoJoin
<1>3. CASE SessionDispatcher
  <2>1. locked' = locked
    BY <1>3 DEF SessionDispatcher, fixed
  <2>2. PICK port \in Ports : join' = <<port, IF Answered(port) THEN "answered" ELSE "silent">>
    BY <1>3 DEF SessionDispatcher
  <2>3. CASE Answered(port)
    BY <2>2, <2>3 DEF JoinsAnswered
  <2>4. CASE ~Answered(port)
    BY <2>1, <2>2, <2>4 DEF JoinsAnswered, Answered, Ports
  <2> QED BY <2>3, <2>4
<1>4. CASE UNCHANGED vars
  BY <1>1, <1>4 DEF vars, fixed
<1> QED
  BY <1>1, <1>2, <1>3, <1>4
  DEF Next, AttachAllJoyn, Onboard, MessageLoop, Script, MethodCallReply, SendCall,
      DeferredOperation, ServePass, NoMessage, PolicyCollapse, BusMessage, HandleMessage,
      HandlerReturns, HandlerThrows, DoDeferredOperation, Restart, QueueNotifPolicyChanged, fixed

\* At the start there are no calls, no handlers, no connection and no requests.
LEMMA Start ==
  ASSUME Init
  PROVE  IInv
<1>1. CallsInv
  BY DEF Init, CallsInv, Objects, Object, NoneYet, Known
<1>2. RepliesInv
  BY DEF Init, RepliesInv, Waiting, Served
<1>3. PassInv
  BY DEF Init, PassInv, Places, Connected, Settled
<1>4. JoinsAnswered
  BY DEF Init, JoinsAnswered, NoJoin
<1> QED BY <1>1, <1>2, <1>3, <1>4 DEF IInv

\* The inductive invariant holds in every state that a behaviour reaches.
THEOREM Invariance == Spec => []IInv
<1>1. IInv /\ [Next]_vars => IInv'
  BY CallsKept, RepliesKept, PassKept, JoinsKept DEF IInv
<1> QED BY Start, <1>1, PTL DEF Spec

\* What IInv says of calls, replies, deferred operations and session requests.
LEMMA Settles ==
  ASSUME IInv
  PROVE  CallsSettled
<1>1. RepliedOnce
  <2>1. \A c \in Calls : calls[c].replies \in 0..1
    BY DEF IInv, CallsInv, Objects, Object
  <2> QED BY <2>1 DEF IInv, CallsInv, Known, RepliedOnce
<1>2. OwnReply
  BY DEF IInv, RepliesInv, Waiting, Served, OwnReply
<1>3. DeferredDone
  BY DEF IInv, PassInv, Connected, Settled, DeferredDone
<1> QED BY <1>1, <1>2, <1>3 DEF IInv, CallsSettled

\* Whatever calls there are and however long the loop runs, no call has two
\* replies or is lost without being known, a handler has the reply to its own
\* call, and once, no deferred operation waits for a second message, and only a
\* locked console is silent (CallsSettled).
THEOREM AllIsSettled == Spec => []CallsSettled
BY Invariance, Settles, PTL

\* What TypeOK has besides the places and the calls, in three parts.
StatusTypes ==
  /\ status \in {"ok", "read", "restart", "restartApp", "failed", "fatal"}
  /\ cur \in Calls \union {"other"} /\ bus \in BOOLEAN
  /\ printed \in BOOLEAN /\ locked \in BOOLEAN

SerialTypes ==
  /\ serial \in 1..MaxSerial + 1 /\ sent \subseteq Serials \X Kinds
  /\ stash \subseteq Serials \X Serials /\ ran \subseteq Serials \X Serials

OpTypes ==
  /\ join \in {NoJoin} \union Ports \X {"answered", "silent"}
  /\ op \in [what : {"none", "offboard", "reset"}, in : {"none", "message", "pass", "before"}]
  /\ policy \in 0..MaxPolicy /\ short \in 0..2

Types == StatusTypes /\ SerialTypes /\ OpTypes

LEMMA StatusTyped ==
  ASSUME StatusTypes, [Next]_vars
  PROVE  StatusTypes'
<1> USE DEF StatusTypes
<1>1. CASE UNCHANGED <<status, cur, bus, fixed>>
  BY <1>1 DEF fixed
<1>2. CASE AttachAllJoyn \/ Onboard \/ ServePass \/ NoMessage \/ PolicyCollapse \/ BusMessage
           \/ SessionDispatcher
  BY <1>2
  DEF AttachAllJoyn, AttachFails, Onboard, ServePass, NoMessage, PolicyCollapse, BusMessage,
      SessionDispatcher, Collapse, fixed
<1>3. CASE HandleMessage
  BY <1>3
  DEF HandleMessage, HandleCall, HandleSignal, HandleReplyMessage, Skip, Enter, Collapse, fixed
<1>4. CASE HandlerReturns \/ HandlerThrows
  BY <1>4 DEF HandlerReturns, HandlerThrows, fixed
<1>5. CASE DoDeferredOperation
  <2>1. status' \in {status, "restart"} /\ UNCHANGED <<cur, fixed>> /\ bus' \in BOOLEAN
    <3>1. bus' = bus \/ bus' = (bus /\ op.what # "offboard")
      BY <1>5 DEF DoDeferredOperation
    <3>2. bus' \in BOOLEAN
      BY <3>1
    <3> QED BY <1>5, <3>2 DEF DoDeferredOperation
  <2> QED BY <2>1 DEF fixed
<1>6. CASE Restart
  <2>1. status' = "ok" /\ cur' = "other" /\ bus' = (status = "restartApp") /\ UNCHANGED fixed
    BY <1>6 DEF Restart
  <2>2. bus' \in BOOLEAN
    BY Zenon, <2>1
  <2> QED BY <2>1, <2>2 DEF fixed
<1>7. CASE UNCHANGED vars
  BY <1>1, <1>7 DEF vars
<1> QED
  BY <1>1, <1>2, <1>3, <1>4, <1>5, <1>6, <1>7
  DEF Next, MessageLoop, Script, MethodCallReply, SendCall, DeferredOperation,
      QueueNotifPolicyChanged

LEMMA SerialTyped ==
  ASSUME SerialTypes, [Next]_vars
  PROVE  SerialTypes'
<1> USE MessageLoopAssumption DEF SerialTypes, Serials
<1>1. CASE UNCHANGED replyVars
  BY <1>1 DEF replyVars
<1>2. CASE SendCall
  <2>1. PICK kind \in Kinds : Made(kind)
    BY <1>2 DEF SendCall, MarshalMethodCall, MatchRule, FindService, FindServiceByName,
                AdvertiseName, Kinds
  <2>2. /\ serial \in Serials /\ serial' = serial + 1
        /\ sent' = sent \union {<<serial, kind>>}
    BY <2>1 DEF Made
  <2>3. ran' = ran /\ stash' \subseteq stash \union {<<serial, serial>>}
    BY <1>2, <2>2 DEF SendCall, SetOnReply
  <2> QED BY <2>2, <2>3
<1>3. CASE HandleMessage
  <2>1. CASE UNCHANGED replyVars
    BY <1>1, <2>1
  <2>2. ASSUME NEW r \in sent, HandleReplyMessage(r[1], r[2])
        PROVE  SerialTypes'
    <3>1. r[1] \in Serials /\ serial' = serial /\ sent' \subseteq sent
      BY <2>2 DEF HandleReplyMessage
    <3>2. CASE UNCHANGED <<stash, ran>>
      BY <3>1, <3>2
    <3>3. CASE /\ stash' = TakenOut(r[1])
               /\ ran' = {<<r[1], h[2]>> : h \in {g \in stash : g[1] = r[1]}}
      BY <3>1, <3>3 DEF TakenOut
    <3> QED BY <2>2, <3>2, <3>3 DEF HandleReplyMessage
  <2> QED
    BY <1>3, <2>1, <2>2 DEF HandleMessage, HandleCall, HandleSignal, Collapse
<1>4. CASE UNCHANGED <<serial, sent, stash>> /\ ran' = {}
  BY <1>4
<1>5. CASE Restart
  <2>1. serial' \in {1, serial} /\ sent' \subseteq sent /\ stash' = {} /\ ran' = {}
    BY <1>5 DEF Restart
  <2> QED BY <2>1
<1>6. CASE UNCHANGED vars
  BY <1>1, <1>6 DEF vars
<1> QED
  BY <1>1, <1>2, <1>3, <1>4, <1>5, <1>6
  DEF Next, AttachAllJoyn, Onboard, MessageLoop, Script, MethodCallReply, DeferredOperation,
      ServePass, NoMessage, PolicyCollapse, BusMessage, SessionDispatcher, HandlerReturns,
      HandlerThrows, DoDeferredOperation, QueueNotifPolicyChanged, Collapse

LEMMA Notified ==
  ASSUME policy \in 0..MaxPolicy, short \in 0..2, PolicyNotification
  PROVE  policy' \in 0..MaxPolicy /\ short' \in 0..2
BY MessageLoopAssumption DEF PolicyNotification

LEMMA OpTyped ==
  ASSUME OpTypes, [Next]_vars
  PROVE  OpTypes'
<1> USE MessageLoopAssumption DEF OpTypes
<1>1. CASE UNCHANGED <<join, opVars>>
  BY <1>1 DEF opVars
<1>2. CASE UNCHANGED opVars /\ join' \in {join, NoJoin, <<"app", "answered">>}
  BY <1>2 DEF opVars, Ports
<1>3. CASE UNCHANGED <<join, policy, short>> /\ op' = NoOp
  BY <1>3 DEF NoOp
<1>4. CASE DeferredOperation
  BY <1>4 DEF DeferredOperation
<1>5. CASE PolicyCollapse
  BY <1>5 DEF PolicyCollapse
<1>6. CASE UNCHANGED <<join, op>> /\ PolicyNotification
  BY <1>6, Notified
<1>7. CASE SessionDispatcher
  <2>1. PICK port \in Ports : join' = <<port, IF Answered(port) THEN "answered" ELSE "silent">>
    BY <1>7 DEF SessionDispatcher
  <2>2. join' \in Ports \X {"answered", "silent"}
    BY <2>1
  <2> QED BY <1>7, <2>2, Notified DEF SessionDispatcher
<1>8. CASE DoDeferredOperation
  <2>1. join' = NoJoin /\ UNCHANGED <<policy, short>> /\ op' \in {op, NoOp}
    BY <1>8 DEF DoDeferredOperation
  <2> QED BY <2>1 DEF NoOp
<1>9. CASE UNCHANGED <<join, op, policy>> /\ short' = 0
  BY <1>9
<1>10. CASE QueueNotifPolicyChanged
  BY <1>10 DEF QueueNotifPolicyChanged
<1>11. CASE UNCHANGED vars
  BY <1>1, <1>11 DEF vars
<1> QED
  BY <1>1, <1>2, <1>3, <1>4, <1>5, <1>6, <1>7, <1>8, <1>9, <1>10, <1>11
  DEF Next, AttachAllJoyn, Onboard, MessageLoop, Script, MethodCallReply, SendCall, ServePass,
      NoMessage, BusMessage, HandleMessage, HandlerReturns, HandlerThrows, Restart

\* Every variable keeps its type (TypeOK): the places that the loop can be in,
\* a bounded number of notifications that wait, and a stack that is two short at
\* most, since the notification after the first ends the loop.
THEOREM TypeCorrect == Spec => []TypeOK
<1>1. ASSUME Init
      PROVE  Types
  <2>1. StatusTypes
    BY <1>1 DEF Init, StatusTypes
  <2>2. SerialTypes
    BY <1>1, MessageLoopAssumption DEF Init, SerialTypes, Serials
  <2>3. OpTypes
    BY <1>1, MessageLoopAssumption DEF Init, OpTypes, NoOp
  <2> QED BY <2>1, <2>2, <2>3 DEF Types
<1>2. Types /\ [Next]_vars => Types'
  BY StatusTyped, SerialTyped, OpTyped DEF Types
<1>3. ASSUME IInv, Types
      PROVE  TypeOK
  <2>1. calls \in [Calls -> [at : {"away", "held", "spent", "gone"}, replies : 0..2]]
    BY <1>3 DEF IInv, CallsInv, Objects, Object
  <2>2. pc \in Places /\ lost \subseteq Calls
    BY <1>3 DEF IInv, CallsInv, Objects, PassInv
  <2> QED BY <1>3, <2>1, <2>2 DEF Types, StatusTypes, SerialTypes, OpTypes, Places, TypeOK
<1> QED BY <1>1, <1>2, <1>3, Invariance, PTL DEF Spec

-----------------------------------------------------------------------------
(* I/O objects                                                             *)

DevicesInv == Devices!TypeOK /\ Devices!ContextsOwned

\* A new object has the context that was opened for it; without memory there is
\* only the context.
LEMMA DeviceMade ==
  ASSUME DevicesInv, NEW kind \in Devices!Kinds, Devices!NewIOObject(kind), output' = output
  PROVE  DevicesInv'
<1> USE DEF DevicesInv, Devices!TypeOK, Devices!ContextsOwned
<1>0. "none" \notin Devices!Kinds
  BY DEF Devices!Kinds
<1>1. CASE orphans' = orphans \union {kind} /\ UNCHANGED <<obj, held, open>>
  BY <1>1
<1>2. ASSUME NEW o \in Objs, obj[o] = "none", obj' = [obj EXCEPT ![o] = kind],
             held' = held \union {o}, open' = open \union {<<o, kind>>}, orphans' = orphans
      PROVE  DevicesInv'
  <2>1. obj' \in [Objs -> Devices!Kinds \union {"none"}] /\ held' \subseteq {p \in Objs : obj'[p] # "none"}
    BY <1>0, <1>2
  <2>2. open' \subseteq Objs \X Devices!Kinds
    BY <1>2
  <2>3. \A p \in Objs : obj'[p] # "none" => <<p, obj'[p]>> \in open'
    BY <1>2
  <2>4. ASSUME NEW c \in open'
        PROVE  c[2] = obj'[c[1]] \/ c[2] = "analogOut"
    <3>1. CASE c = <<o, kind>>
      BY <1>2, <3>1
    <3>2. CASE c \in open
      <4>1. c[1] \in Objs /\ c[2] \in Devices!Kinds /\ (c[2] = obj[c[1]] \/ c[2] = "analogOut")
        BY <3>2
      <4> QED BY <1>0, <1>2, <4>1
    <3> QED BY <1>2, <3>1, <3>2
  <2> QED BY <1>2, <2>1, <2>2, <2>3, <2>4
<1> QED BY <1>1, <1>2 DEF Devices!NewIOObject

\* A finalizer closes the context of its object, or, of an analog output, none.
LEMMA DeviceFinalized ==
  ASSUME DevicesInv, NEW gone \in SUBSET Objs, Devices!Finalize(gone), orphans' = orphans,
         held' \subseteq held \ gone
  PROVE  DevicesInv'
<1> USE DEF DevicesInv, Devices!TypeOK, Devices!ContextsOwned
<1>0. /\ obj' = [o \in Objs |-> IF o \in gone THEN "none" ELSE obj[o]]
      /\ open' = open \ {<<o, Devices!Closer(obj[o])>> : o \in gone}
      /\ output' = [o \in Objs |-> IF o \in gone THEN "level" ELSE output[o]]
  BY DEF Devices!Finalize
<1>1. obj' \in [Objs -> Devices!Kinds \union {"none"}] /\ held' \subseteq {p \in Objs : obj'[p] # "none"}
  BY <1>0
<1>2. output' \in [Objs -> {"level", "pwm", "half"}]
  BY <1>0
<1>3. ASSUME NEW p \in Objs, obj'[p] # "none"
      PROVE  <<p, obj'[p]>> \in open'
  BY <1>0, <1>3
<1>4. ASSUME NEW c \in open'
      PROVE  c[2] = obj'[c[1]] \/ c[2] = "analogOut"
  <2>1. c \in open /\ c[1] \in Objs /\ c = <<c[1], c[2]>>
    BY <1>0
  <2>2. CASE c[1] \notin gone
    BY <1>0, <2>1, <2>2
  <2>3. CASE c[1] \in gone
    <3>1. c[2] # Devices!Closer(obj[c[1]])
      BY <1>0, <2>1, <2>3
    <3> QED BY <2>1, <3>1 DEF Devices!Closer
  <2> QED BY <2>2, <2>3
<1> QED BY <1>0, <1>1, <1>2, <1>3, <1>4

LEMMA DevicesKept ==
  ASSUME DevicesInv, [Devices!Next]_Devices!vars
  PROVE  DevicesInv'
<1>1. CASE \E kind \in Devices!Kinds : Devices!NewIOObject(kind) /\ output' = output
  BY <1>1, DeviceMade
<1>2. CASE Devices!UseOutput
  <2>1. PICK o \in held, to \in {"level", "pwm", "half"} : output' = [output EXCEPT ![o] = to]
    BY <1>2 DEF DevicesInv, Devices!TypeOK, Devices!UseOutput, Devices!PinSet, Devices!PinPWM,
                Devices!NativePWM
  <2>2. UNCHANGED <<obj, held, open, orphans>>
    BY <1>2 DEF Devices!UseOutput
  <2> QED BY <2>1, <2>2 DEF DevicesInv, Devices!TypeOK, Devices!ContextsOwned
<1>3. CASE Devices!Drop \/ UNCHANGED Devices!vars
  BY <1>3 DEF DevicesInv, Devices!TypeOK, Devices!ContextsOwned, Devices!Drop, Devices!vars
<1>4. CASE Devices!Finalizer
  BY <1>4, DeviceFinalized DEF Devices!Finalizer
<1>5. CASE Devices!Restart
  <2>1. /\ Devices!Finalize({o \in Objs : obj[o] # "none"})
        /\ orphans' = orphans /\ held' \subseteq held \ {o \in Objs : obj[o] # "none"}
    BY <1>5 DEF Devices!Restart
  <2> QED BY <2>1, DeviceFinalized
<1> QED
  BY <1>1, <1>2, <1>3, <1>4, <1>5
  DEF Devices!Next, Devices!Kinds, Devices!NativeIoDigitalOut, Devices!NativeIoAnalogIn,
      Devices!NativeIoAnalogOut, Devices!NativeIoSpi, Devices!NativeIoI2cMaster,
      Devices!NativeIoI2cSlave

\* Whatever objects are made, dropped and finalized, and however the engine starts
\* anew: no object of the script has a context that is closed, and no context but
\* those of analog outputs is open without its object (Finalizer, Restart).
THEOREM ContextsHaveOwners == Devices!Spec => [](Devices!TypeOK /\ Devices!ContextsOwned)
<1>1. Devices!Init => DevicesInv
  BY DEF Devices!Init, DevicesInv, Devices!TypeOK, Devices!ContextsOwned
<1>2. DevicesInv /\ [Devices!Next]_Devices!vars => DevicesInv'
  BY DevicesKept
<1> QED BY <1>1, <1>2, PTL DEF Devices!Spec, DevicesInv

-----------------------------------------------------------------------------
(* Properties that a script keeps                                          *)

\* No two properties have the same identifier, and what nobody has is empty as long
\* as the list was not lost.
StoreInv ==
  /\ Store!TypeOK
  /\ \A p, q \in Props : list[p] = list[q] /\ list[p] # 0 => p = q
  /\ ~forgot => \A i \in Ids \ Store!Used : data[i] = <<"none", "none">>
  /\ Store!LoadsOwn

\* An identifier that is given away is one that no property has.
LEMMA SlotIsFree ==
  ASSUME Identified, Store!FreeSlot # 0
  PROVE  Store!FreeSlot \in Ids /\ \A p \in Props : list[p] # Store!FreeSlot
<1>1. Ids \ Store!Used # {} /\ Ids \ Store!Used \subseteq Nat
  BY DEF Identified, Store!FreeSlot
<1>2. PICK m \in Ids \ Store!Used : \A i \in Ids \ Store!Used : ~(<<i, m>> \in OpToRel(<, Nat))
  BY <1>1, NatLessThanWellFounded, WFMin, Zenon
<1>3. \A i \in Ids \ Store!Used : <<i, m>> \in Nat \X Nat /\ <<i, m>>[1] = i /\ <<i, m>>[2] = m
  BY <1>1
<1>4. \A i \in Ids \ Store!Used : ~(i < m)
  BY <1>2, <1>3, Zenon DEF OpToRel
<1>5. \A i \in Ids \ Store!Used : m <= i
  BY <1>1, <1>4
<1>6. Store!FreeSlot \in Ids \ Store!Used
  BY <1>1, <1>5, Zenon DEF Store!FreeSlot
<1> QED BY <1>6 DEF Identified, Store!Used

\* A value is written under an identifier that is the property's own or nobody's.
LEMMA PropertyWritten ==
  ASSUME Identified, StoreInv, NEW p \in Props, NEW v \in Vals, NEW id \in Ids,
         Store!Write(p, id, v),
         list[p] = id \/ (list[p] = 0 /\ \A q \in Props : list[q] # id)
  PROVE  StoreInv'
<1>1. /\ list \in [Props -> Ids \union {0}] /\ data \in [Ids -> Store!Entries]
      /\ kept \in [Props -> Vals \union {"none"}] /\ forgot \in BOOLEAN
      /\ id # 0 /\ \A q \in Props \ {p} : list[q] # id
      /\ <<"none", "none">> \in Store!Entries /\ <<p, v>> \in Store!Entries
  BY DEF Identified, StoreInv, Store!TypeOK, Store!None, Store!Entries
<1>2. PICK e \in {<<p, v>>, <<"none", "none">>} :
        /\ list' = [list EXCEPT ![p] = id] /\ forgot' = forgot
        /\ kept' = [kept EXCEPT ![p] = e[2]]
        /\ data' = [data EXCEPT ![id] = e] \/ (list[p] = 0 /\ e = <<"none", "none">> /\ data' = data)
  BY DEF Store!Write, Store!None
<1>3. ~forgot => data' = [data EXCEPT ![id] = e]
  <2>1. ASSUME ~forgot, list[p] = 0
        PROVE  data[id] = <<"none", "none">>
    BY <1>1, <2>1 DEF StoreInv, Store!Used
  <2>2. data[id] = e => data = [data EXCEPT ![id] = e]
    BY <1>1
  <2> QED BY <1>2, <2>1, <2>2
<1>4. Store!TypeOK'
  BY <1>1, <1>2 DEF Store!TypeOK, Store!None
<1>5. \A q, r \in Props : list'[q] = list'[r] /\ list'[q] # 0 => q = r
  BY <1>1, <1>2 DEF StoreInv
<1>6. ASSUME ~forgot', NEW i \in Ids, i \notin Store!Used'
      PROVE  data'[i] = <<"none", "none">>
  <2>1. i # id /\ \A q \in Props : list'[q] # i
    BY <1>1, <1>2, <1>6 DEF Store!Used, Identified
  <2>2. i \notin Store!Used \/ list[p] = i
    BY <1>1, <1>2, <2>1 DEF Store!Used
  <2>3. list[p] # i
    BY <1>1, <1>2, <2>1 DEF Identified
  <2> QED BY <1>1, <1>2, <1>3, <1>6, <2>1, <2>2, <2>3 DEF StoreInv
<1>7. ASSUME ~forgot', NEW q \in Props
      PROVE  /\ Store!LoadPropFromNVRAM(q)' = kept'[q]
             /\ list'[q] # 0 => data'[list'[q]][1] \in {q, "none"}
  <2>1. CASE q = p
    BY <1>1, <1>2, <1>3, <1>7, <2>1 DEF Store!LoadPropFromNVRAM
  <2>2. CASE q # p
    <3>1. /\ list'[q] = list[q] /\ kept'[q] = kept[q] /\ list[q] # id
          /\ list[q] # 0 => data'[list[q]] = data[list[q]]
      BY <1>1, <1>2, <1>3, <1>7, <2>2
    <3>2. /\ Store!LoadPropFromNVRAM(q) = kept[q]
          /\ list[q] # 0 => data[list[q]][1] \in {q, "none"}
      BY <1>2, <1>7 DEF StoreInv, Store!LoadsOwn, Store!None
    <3> QED BY <3>1, <3>2 DEF Store!LoadPropFromNVRAM
  <2> QED BY <2>1, <2>2
<1> QED BY <1>4, <1>5, <1>6, <1>7 DEF StoreInv, Store!LoadsOwn, Store!None

LEMMA StoreKept ==
  ASSUME Identified, StoreInv, [Store!Next]_Store!vars
  PROVE  StoreInv'
<1>1. CASE UNCHANGED Store!vars
  BY <1>1 DEF StoreInv, Store!TypeOK, Store!LoadsOwn, Store!LoadPropFromNVRAM, Store!Used,
              Store!vars
<1>2. CASE Store!LoseList
  BY <1>2 DEF Store!LoseList, StoreInv, Store!TypeOK, Store!LoadsOwn
<1>3. CASE Store!Next /\ ~Store!LoseList
  <2>1. PICK p \in Props, v \in Vals : Store!StorePropInNVRAM(p, v)
    BY <1>3 DEF Store!Next
  <2>2. list[p] \in Ids \union {0}
    BY DEF StoreInv, Store!TypeOK
  <2>3. CASE list[p] # 0
    BY <2>1, <2>2, <2>3, PropertyWritten DEF Store!StorePropInNVRAM
  <2>4. CASE list[p] = 0
    BY <1>3, <2>1, <2>4, SlotIsFree, PropertyWritten DEF Store!StorePropInNVRAM
  <2> QED BY <2>3, <2>4
<1> QED BY <1>1, <1>2, <1>3

\* As long as the list was not lost, a property reads as it was stored last, or as
\* nothing when that failed: AJ.store never writes over the value of another, and
\* an identifier whose value was not written leads to no value of another.
THEOREM PropertiesAreKept == Identified => (Store!Spec => [](Store!TypeOK /\ Store!LoadsOwn))
<1> SUFFICES ASSUME Identified
             PROVE  Store!Spec => [](Store!TypeOK /\ Store!LoadsOwn)
  OBVIOUS
<1>1. ASSUME Store!Init
      PROVE  StoreInv
  <2>1. Store!TypeOK /\ Store!LoadsOwn
    BY <1>1 DEF Store!Init, Store!TypeOK, Store!Entries, Store!LoadsOwn, Store!LoadPropFromNVRAM
  <2> QED BY <1>1, <2>1 DEF Store!Init, Store!None, StoreInv
<1>2. StoreInv /\ [Store!Next]_Store!vars => StoreInv'
  BY StoreKept
<1>3. StoreInv => Store!TypeOK /\ Store!LoadsOwn
  BY DEF StoreInv
<1> QED BY <1>1, <1>2, <1>3, PTL DEF Store!Spec

-----------------------------------------------------------------------------
(* The buffer of a UART                                                    *)

\* What was not read is in the buffer, in its order; while the thread receives,
\* there is room behind it for what comes.
UartInv ==
  /\ Uart!TypeOK /\ Uart!BufferIsQueue
  /\ upset => queue = <<>>
  /\ thread \in {"recv", "count"} => room \in 1..sz
  /\ thread \in {"recv", "count"} /\ ~upset => uartLen + room <= Size

\* A counter that has not come to the size of the buffer is what it counts.
LEMMA NotWrapped ==
  ASSUME Buffered, NEW n \in 0..Size - 1
  PROVE  n % Size = n
BY DEF Buffered

LEMMA WrappedOnce ==
  ASSUME Buffered, NEW n \in 0..Size - 1
  PROVE  (n + Size) % Size = n
BY DEF Buffered

LEMMA Counters ==
  ASSUME Buffered, NEW n \in Nat
  PROVE  n % Size \in 0..Size - 1 /\ n % (Size + 1) \in Uart!Bytes
BY DEF Buffered, Uart!Bytes

\* What was not read goes to the front, with the room behind it measured.
LEMMA Shuffled ==
  ASSUME Buffered, UartInv, Uart!Shuffle
  PROVE  UartInv'
<1>1. /\ uartBuf \in [0..Size - 1 -> Uart!Bytes] /\ uartPos \in 0..Size - 1 /\ uartLen \in 0..Size - 1
      /\ sz \in 0..MaxChunk /\ next \in Uart!Bytes /\ queue \in Seq(Uart!Bytes) /\ Len(queue) \in Nat
      /\ Size \in Nat /\ 1 <= Size /\ MaxChunk \in Nat
  BY DEF UartInv, Uart!TypeOK, Buffered
<1> HIDE DEF Buffered
<1>2. /\ uartLen' = (uartLen + Size - uartPos) % Size /\ uartPos' = 0
      /\ uartBuf' = [i \in 0..Size - 1 |->
                      IF i < uartLen' THEN uartBuf[(i + uartPos) % Size] ELSE uartBuf[i]]
      /\ UNCHANGED <<uart, ready, queue, upset>>
  BY DEF Uart!Shuffle, Uart!At
<1>3. uartLen' \in 0..Size - 1
  <2>1. uartLen + Size - uartPos \in Nat
    BY <1>1
  <2> QED BY <1>2, <2>1, Counters
<1>4. uartBuf' \in [0..Size - 1 -> Uart!Bytes]
  <2>1. ASSUME NEW i \in 0..Size - 1
        PROVE  (i + uartPos) % Size \in 0..Size - 1
    <3>1. i + uartPos \in Nat
      BY <1>1
    <3> QED BY <3>1, Counters
  <2> QED BY <1>1, <1>2, <2>1
<1>5. ASSUME ~upset
      PROVE  /\ uartLen' = Len(queue)
             /\ \A i \in 1..Len(queue) : uartBuf'[i - 1] = queue[i]
  <2>1. /\ uartPos + Len(queue) = uartLen
        /\ \A i \in 1..Len(queue) : uartBuf[uartPos + i - 1] = queue[i]
    BY <1>5 DEF UartInv, Uart!BufferIsQueue
  <2>2. uartLen' = Len(queue)
    <3>1. uartLen + Size - uartPos = Len(queue) + Size /\ Len(queue) \in 0..Size - 1
      <4>1. PICK length \in Nat : length = Len(queue)
        BY <1>1
      <4>2. PICK p \in Nat, l \in Nat : p = uartPos /\ l = uartLen /\ l <= Size - 1
        BY <1>1
      <4>3. p + length = l
        BY <2>1, <4>1, <4>2
      <4>4. l + Size - p = length + Size /\ length <= Size - 1
        BY <1>1, <4>2, <4>3
      <4> QED BY <1>1, <4>1, <4>2, <4>4
    <3>2. (Len(queue) + Size) % Size = Len(queue)
      BY <3>1, WrappedOnce
    <3> QED BY <1>2, <3>1, <3>2
  <2>3. ASSUME NEW i \in 1..Len(queue)
        PROVE  uartBuf'[i - 1] = queue[i]
    <3>1. /\ i - 1 \in 0..Size - 1 /\ i - 1 < uartLen'
          /\ (i - 1) + uartPos \in 0..Size - 1 /\ (i - 1) + uartPos = uartPos + i - 1
      BY <1>1, <2>1, <2>2
    <3>2. ((i - 1) + uartPos) % Size = uartPos + i - 1
      BY <3>1, NotWrapped
    <3> QED BY <1>2, <2>1, <3>1, <3>2
  <2> QED BY <2>2, <2>3
<1>6. Uart!BufferIsQueue'
  <2>1. ~upset => \A i \in 1..Len(queue) : uartBuf'[0 + i - 1] = queue[i]
    BY <1>5
  <2> QED BY <1>1, <1>2, <1>5, <2>1 DEF Uart!BufferIsQueue
<1>7. CASE thread' = "trigger" /\ next' = (next + sz) % (Size + 1) /\ sz' = 0 /\ room' = room
  <2>1. next + sz \in Nat /\ 0 \in 0..MaxChunk
    BY <1>1 DEF Uart!Bytes
  <2>2. next' \in Uart!Bytes
    BY <1>7, <2>1, Counters
  <2> QED BY <1>1, <1>2, <1>3, <1>4, <1>6, <1>7, <2>1, <2>2 DEF UartInv, Uart!TypeOK
<1>8. CASE /\ thread' = "recv" /\ room' = Uart!Smaller(Size - uartLen', sz) /\ room' # 0
           /\ UNCHANGED <<sz, next>>
  <2>1. room' \in 1..sz /\ room' <= Size - uartLen'
    <3>1. PICK s \in Nat : s = Size - uartLen'
      BY <1>1, <1>3
    <3>2. room' = IF s < sz THEN s ELSE sz
      BY <1>8, <3>1 DEF Uart!Smaller
    <3>3. sz \in Nat /\ room' # 0
      BY <1>1, <1>8
    <3>4. room' \in 1..sz /\ room' <= s
      BY <3>2, <3>3
    <3> QED BY <3>1, <3>4
  <2>2. room' \in 0..MaxChunk /\ uartLen' + room' <= Size
    BY <1>1, <1>3, <2>1
  <2> QED BY <1>1, <1>2, <1>3, <1>4, <1>6, <1>8, <2>1, <2>2 DEF UartInv, Uart!TypeOK
<1> QED BY <1>7, <1>8 DEF Uart!Shuffle

\* Bytes are received behind those that were not read.
LEMMA Received ==
  ASSUME Buffered, UartInv, Uart!Recv
  PROVE  UartInv'
<1>1. /\ uartBuf \in [0..Size - 1 -> Uart!Bytes] /\ uartPos \in 0..Size - 1 /\ uartLen \in 0..Size - 1
      /\ next \in Uart!Bytes /\ Len(queue) \in Nat /\ room \in 1..sz /\ room \in 0..MaxChunk
      /\ Size \in Nat /\ 1 <= Size /\ MaxChunk \in Nat
  BY DEF UartInv, Uart!TypeOK, Uart!Recv, Buffered
<1>2. /\ uartBuf' = [i \in 0..Size - 1 |-> IF i \in uartLen..uartLen + room - 1
                     THEN (next + i - uartLen) % (Size + 1) ELSE uartBuf[i]]
      /\ next' = (next + room) % (Size + 1) /\ thread' = "count"
      /\ UNCHANGED <<uart, uartPos, uartLen, sz, room, ready, queue, upset>>
  BY DEF Uart!Recv, Uart!scriptVars
<1> HIDE DEF Buffered
<1>3. next' \in Uart!Bytes
  <2>1. next + room \in Nat
    BY <1>1 DEF Uart!Bytes
  <2> QED BY <1>2, <2>1, Counters
<1>4. uartBuf' \in [0..Size - 1 -> Uart!Bytes]
  <2>1. ASSUME NEW i \in uartLen..uartLen + room - 1
        PROVE  (next + i - uartLen) % (Size + 1) \in Uart!Bytes
    <3>1. next + i - uartLen \in Nat
      BY <1>1 DEF Uart!Bytes
    <3> QED BY <3>1, Counters
  <2> QED BY <1>1, <1>2, <2>1
<1>5. Uart!BufferIsQueue'
  <2>1. ASSUME ~upset, NEW i \in 1..Len(queue)
        PROVE  uartBuf'[uartPos + i - 1] = queue[i]
    <3>1. uartPos + Len(queue) = uartLen /\ uartBuf[uartPos + i - 1] = queue[i]
      BY <2>1 DEF UartInv, Uart!BufferIsQueue
    <3>2. uartPos + i - 1 \in 0..Size - 1 /\ uartPos + i - 1 < uartLen
      BY <1>1, <3>1
    <3> QED BY <1>1, <1>2, <3>1, <3>2
  <2> QED BY <1>2, <2>1 DEF UartInv, Uart!BufferIsQueue
<1>6. Uart!TypeOK'
  BY <1>1, <1>2, <1>3, <1>4 DEF UartInv, Uart!TypeOK
<1> QED BY <1>1, <1>2, <1>5, <1>6 DEF UartInv, Uart!Recv

\* What was received counts from now on, if the counter did not wrap.
LEMMA Counted ==
  ASSUME Buffered, UartInv, Uart!Count
  PROVE  UartInv'
<1>1. /\ uartBuf \in [0..Size - 1 -> Uart!Bytes] /\ uartPos \in 0..Size - 1 /\ uartLen \in 0..Size - 1
      /\ queue \in Seq(Uart!Bytes) /\ Len(queue) \in Nat /\ room \in 1..sz /\ sz \in 0..MaxChunk
      /\ Size \in Nat /\ 1 <= Size /\ MaxChunk \in Nat /\ room \in Nat /\ upset \in BOOLEAN
      /\ room \in 0..MaxChunk
  BY DEF UartInv, Uart!TypeOK, Uart!Count, Buffered
<1>2. /\ uartLen' = (uartLen + room) % Size /\ sz' = sz - room /\ room' = 0
      /\ thread' = (IF sz' > 0 THEN "shuffle" ELSE "trigger")
      /\ upset' = (upset \/ uartLen + room >= Size)
      /\ queue' = IF upset' THEN <<>> ELSE queue \o [i \in 1..room |-> uartBuf[uartLen + i - 1]]
      /\ UNCHANGED <<uart, uartPos, uartBuf, ready, next>>
  BY DEF Uart!Count, Uart!scriptVars
<1> HIDE DEF Buffered
<1>3. uartLen' \in 0..Size - 1 /\ sz' \in 0..MaxChunk /\ 0 \in 0..MaxChunk
  <2>1. uartLen + room \in Nat
    BY <1>1
  <2>2. uartLen' \in 0..Size - 1
    BY <1>2, <2>1, Counters
  <2>3. sz - room \in 0..MaxChunk
    BY <1>1
  <2> QED BY <1>1, <1>2, <2>2, <2>3
<1>4. upset' \in BOOLEAN
  BY <1>2, Zenon
<1>5. CASE upset'
  <2>1. queue' = <<>> /\ Len(queue') = 0 /\ queue' \in Seq(Uart!Bytes)
    BY <1>2, <1>5
  <2>2. Uart!BufferIsQueue'
    BY <1>5 DEF Uart!BufferIsQueue
  <2> QED BY <1>1, <1>2, <1>3, <1>4, <2>1, <2>2 DEF UartInv, Uart!TypeOK
<1>6. CASE ~upset'
  <2> DEFINE more == [i \in 1..room |-> uartBuf[uartLen + i - 1]]
  <2>1. ~upset /\ uartLen + room < Size /\ queue' = queue \o more
    <3>1. ~upset /\ ~(uartLen + room >= Size)
      BY <1>2, <1>6, Zenon
    <3> QED BY <1>1, <1>2, <1>6, <3>1
  <2>2. /\ uartPos + Len(queue) = uartLen
        /\ \A i \in 1..Len(queue) : uartBuf[uartPos + i - 1] = queue[i]
    BY <2>1 DEF UartInv, Uart!BufferIsQueue
  <2>3. \A i \in 1..room : uartLen + i - 1 \in 0..Size - 1
    BY <1>1, <2>1
  <2>4. more \in Seq(Uart!Bytes) /\ Len(more) = room
    <3>1. more \in [1..room -> Uart!Bytes]
      BY <1>1, <2>3
    <3> HIDE DEF more
    <3>2. room \in Nat
      BY <1>1
    <3> QED BY <3>1, <3>2
  <2>5. \A i \in 1..room : more[i] = uartBuf[uartLen + i - 1]
    OBVIOUS
  <2> HIDE DEF more
  <2>6. /\ queue' \in Seq(Uart!Bytes) /\ Len(queue') = Len(queue) + room
        /\ \A i \in 1..Len(queue) + room :
             queue'[i] = IF i <= Len(queue) THEN queue[i] ELSE more[i - Len(queue)]
    <3>1. /\ queue \in Seq(Uart!Bytes) /\ more \in Seq(Uart!Bytes) /\ Len(more) = room
          /\ queue' = queue \o more
      BY <1>1, <2>1, <2>4
    <3> QED BY <3>1, ConcatProperties
  <2>7. uartLen' = uartLen + room
    <3>1. uartLen + room \in 0..Size - 1
      BY <1>1, <2>1
    <3> QED BY <1>2, <3>1, NotWrapped
  <2>8. ASSUME NEW i \in 1..Len(queue')
        PROVE  uartBuf'[uartPos' + i - 1] = queue'[i]
    <3>1. CASE i <= Len(queue)
      BY <1>1, <1>2, <2>2, <2>6, <3>1
    <3>2. CASE i > Len(queue)
      <4>1. PICK k \in 1..room : k = i - Len(queue)
        BY <1>1, <2>6, <3>2
      <4>2. queue'[i] = uartBuf[uartLen + k - 1]
        <5>1. queue'[i] = more[k]
          BY <1>1, <2>6, <3>2, <4>1
        <5> QED BY <2>5, <5>1
      <4>3. uartLen + k - 1 = uartPos + i - 1
        <5>1. PICK length \in Nat, p \in Nat : length = Len(queue) /\ p = uartPos
          BY <1>1
        <5>2. uartLen = p + length /\ k = i - length /\ i \in Int
          BY <2>2, <4>1, <5>1
        <5> QED BY <5>1, <5>2
      <4> QED BY <1>2, <4>2, <4>3
    <3> QED BY <1>1, <2>6, <3>1, <3>2
  <2>9. uartPos' + Len(queue') = uartLen' /\ Len(queue') <= Size
    <3>1. uartPos' = uartPos /\ Len(queue') = Len(queue) + room /\ uartLen' = uartLen + room
      BY <1>2, <2>6, <2>7
    <3>2. PICK l, q, p, r \in Nat :
             l = uartLen /\ q = Len(queue) /\ p = uartPos /\ r = room
      BY <1>1
    <3>3. p + q = l /\ l + r < Size /\ Len(queue') = q + r /\ uartPos' = p /\ uartLen' = l + r
      BY <2>1, <2>2, <3>1, <3>2
    <3>4. p + (q + r) = l + r /\ q + r <= Size
      BY <1>1, <3>2, <3>3
    <3> QED BY <3>3, <3>4
  <2>10. Uart!BufferIsQueue'
    BY <2>8, <2>9 DEF Uart!BufferIsQueue
  <2> QED BY <1>1, <1>2, <1>3, <1>4, <1>6, <2>6, <2>9, <2>10 DEF UartInv, Uart!TypeOK
<1> QED BY <1>5, <1>6

\* The script reads from the front of what was not read.
LEMMA UartRead ==
  ASSUME Buffered, UartInv, Uart!NativeUartRead
  PROVE  UartInv'
<1>1. /\ uartPos \in 0..Size - 1 /\ uartLen \in 0..Size - 1
      /\ queue \in Seq(Uart!Bytes) /\ Len(queue) \in Nat /\ upset \in BOOLEAN
      /\ Size \in Nat /\ 1 <= Size
  BY DEF UartInv, Uart!TypeOK, Buffered
<1>0. PICK length \in 1..MaxRead :
        \E n :
        /\ n = IF uartLen >= uartPos THEN Uart!Smaller(length, uartLen - uartPos) ELSE length
        /\ uartPos' = (uartPos + n) % Size
        /\ ready' = (ready \/ uartLen > uartPos')
        /\ queue' = IF upset THEN <<>> ELSE Uart!Drained(n)
        /\ UNCHANGED <<uart, uartBuf, uartLen, thread, sz, room, next, upset>>
  BY Zenon DEF Uart!NativeUartRead, Uart!threadVars
<1>2. PICK n :
        /\ n = IF uartLen >= uartPos THEN Uart!Smaller(length, uartLen - uartPos) ELSE length
        /\ uartPos' = (uartPos + n) % Size
        /\ ready' = (ready \/ uartLen > uartPos')
        /\ queue' = IF upset THEN <<>> ELSE Uart!Drained(n)
        /\ UNCHANGED <<uart, uartBuf, uartLen, thread, sz, room, next, upset>>
  BY <1>0, Zenon
<1>3. length \in Nat
  BY <1>0 DEF Buffered
<1> HIDE DEF Buffered
<1>4. n \in Nat /\ (uartLen >= uartPos => n <= uartLen - uartPos)
  BY <1>1, <1>2, <1>3 DEF Uart!Smaller
<1>5. ready' \in BOOLEAN
  BY <1>2, Zenon
<1>6. uartPos' \in 0..Size - 1
  <2>1. uartPos + n \in Nat
    BY <1>1, <1>4
  <2> QED BY <1>2, <2>1, Counters
<1>7. CASE upset
  <2>1. queue' = <<>> /\ Len(queue') = 0 /\ queue' \in Seq(Uart!Bytes) /\ upset'
    BY <1>2, <1>7
  <2>2. Uart!TypeOK'
    BY <1>1, <1>2, <1>5, <1>6, <2>1 DEF UartInv, Uart!TypeOK
  <2> QED BY <1>2, <2>1, <2>2 DEF UartInv, Uart!BufferIsQueue
<1>8. CASE ~upset
  <2>1. /\ uartPos + Len(queue) = uartLen
        /\ \A i \in 1..Len(queue) : uartBuf[uartPos + i - 1] = queue[i]
    BY <1>8 DEF UartInv, Uart!BufferIsQueue
  <2>2. n <= Len(queue) /\ uartPos + n \in 0..Size - 1
    BY <1>1, <1>4, <2>1
  <2>3. uartPos' = uartPos + n
    BY <1>2, <2>2, NotWrapped
  <2>4. queue' = SubSeq(queue, n + 1, Len(queue))
    BY <1>2, <1>8 DEF Uart!Drained
  <2>5. /\ queue' \in Seq(Uart!Bytes) /\ Len(queue') = Len(queue) - n
        /\ \A i \in 1..Len(queue) - n : queue'[i] = queue[i + n]
    BY <1>1, <1>4, <2>2, <2>4, SubSeqProperties
  <2>6. ASSUME NEW i \in 1..Len(queue')
        PROVE  uartBuf'[uartPos' + i - 1] = queue'[i]
    <3>1. i + n \in 1..Len(queue) /\ i \in 1..Len(queue) - n
      BY <1>1, <1>4, <2>2, <2>5
    <3>2. uartPos + (i + n) - 1 = (uartPos + n) + i - 1
      BY <1>1, <1>4
    <3>3. queue'[i] = queue[i + n] /\ uartBuf[uartPos + (i + n) - 1] = queue[i + n]
      BY <2>1, <2>5, <3>1
    <3>4. uartBuf' = uartBuf /\ uartPos' = uartPos + n
      BY <1>2, <2>3
    <3> QED BY <3>2, <3>3, <3>4
  <2>7. Len(queue') <= Size /\ uartPos' + Len(queue') = uartLen
    <3>1. PICK l, q, p \in Nat : l = uartLen /\ q = Len(queue) /\ p = uartPos
      BY <1>1
    <3>2. p + q = l /\ n <= q /\ l < Size
      BY <1>1, <2>1, <2>2, <3>1
    <3>3. q - n <= Size /\ (p + n) + (q - n) = l
      BY <1>1, <1>4, <3>1, <3>2
    <3> QED BY <2>3, <2>5, <3>1, <3>3
  <2>8. Uart!TypeOK'
    BY <1>1, <1>2, <1>5, <1>6, <2>5, <2>7 DEF UartInv, Uart!TypeOK
  <2> QED BY <1>2, <1>8, <2>6, <2>7, <2>8 DEF UartInv, Uart!BufferIsQueue
<1> QED BY <1>7, <1>8

\* What changes neither the buffer nor its counters keeps the queue.
LEMMA UartKept ==
  ASSUME Buffered, UartInv, [Uart!Next]_Uart!vars
  PROVE  UartInv'
<1>1. CASE Uart!Message
  <2>1. \A i \in 1..MaxChunk : i \in 0..MaxChunk
    BY DEF Buffered
  <2> QED BY <1>1, <2>1 DEF UartInv, Uart!TypeOK, Uart!BufferIsQueue, Uart!Message, Uart!scriptVars
<1>2. CASE Uart!Trigger
  BY <1>2 DEF UartInv, Uart!TypeOK, Uart!BufferIsQueue, Uart!Trigger, Uart!scriptVars
<1>3. CASE Uart!NativeIoUart
  <2>1. /\ uart' = TRUE /\ uartPos' = 0 /\ uartLen' = 0 /\ queue' = <<>> /\ Len(queue') = 0
        /\ UNCHANGED <<uartBuf, ready, thread, sz, room, next>> /\ queue' \in Seq(Uart!Bytes)
        /\ upset' = (thread \in {"recv", "count"})
    BY <1>3 DEF Uart!NativeIoUart, Uart!threadVars
  <2>2. upset' \in BOOLEAN
    <3>1. (thread \in {"recv", "count"}) \in BOOLEAN
      OBVIOUS
    <3> QED BY <2>1, <3>1, Zenon
  <2>3. 0 \in 0..Size - 1 /\ 0 <= Size
    BY DEF Buffered
  <2>4. Uart!TypeOK' /\ Uart!BufferIsQueue'
    BY <2>1, <2>2, <2>3 DEF UartInv, Uart!TypeOK, Uart!BufferIsQueue
  <2> QED BY <2>1, <2>4 DEF UartInv
<1>4. CASE /\ UNCHANGED <<uartBuf, uartPos, uartLen, thread, sz, room, next, queue, upset>>
           /\ uart' \in BOOLEAN /\ ready' \in BOOLEAN
  BY <1>4 DEF UartInv, Uart!TypeOK, Uart!BufferIsQueue
<1>5. CASE Uart!NativeUartFinalizer \/ Uart!NativeUartClearTrigger \/ Uart!ServiceIO
           \/ UNCHANGED Uart!vars
  <2>1. uart \in BOOLEAN /\ ready \in BOOLEAN
    BY DEF UartInv, Uart!TypeOK
  <2> QED
    BY <1>4, <1>5, <2>1
    DEF Uart!NativeUartFinalizer, Uart!NativeUartClearTrigger, Uart!ServiceIO, Uart!vars,
        Uart!threadVars, Uart!scriptVars
<1>6. CASE Uart!NativeUartSetTrigger
  <2>1. ready' \in BOOLEAN
    BY <1>6, Zenon DEF Uart!NativeUartSetTrigger
  <2>2. uart \in BOOLEAN
    BY DEF UartInv, Uart!TypeOK
  <2> QED
    BY <1>4, <1>6, <2>1, <2>2 DEF Uart!NativeUartSetTrigger, Uart!threadVars, Uart!scriptVars
<1> QED
  BY <1>1, <1>2, <1>3, <1>5, <1>6, Shuffled, Received, Counted, UartRead DEF Uart!Next

\* However the thread and the script interleave, the script reads the bytes that
\* were received, each once and in order, until a counter wraps or the UART is
\* opened while the thread receives: moving and receiving bytes never touches one
\* that was not read, though the lock is let go in between (Shuffle, Recv).
THEOREM BufferStaysQueue == Buffered => (Uart!Spec => [](Uart!TypeOK /\ Uart!BufferIsQueue))
<1> SUFFICES ASSUME Buffered
             PROVE  Uart!Spec => [](Uart!TypeOK /\ Uart!BufferIsQueue)
  OBVIOUS
<1>1. ASSUME Uart!Init
      PROVE  UartInv
  <2>1. /\ 0 \in 0..Size - 1 /\ 0 <= Size /\ 0 \in 0..MaxChunk /\ 0 \in Uart!Bytes
        /\ <<>> \in Seq(Uart!Bytes) /\ Len(<<>>) = 0
    BY DEF Buffered, Uart!Bytes
  <2>2. Uart!TypeOK
    <3>1. uartBuf \in [0..Size - 1 -> Uart!Bytes]
      BY <1>1, <2>1 DEF Uart!Init
    <3>2. Len(queue) <= Size /\ queue \in Seq(Uart!Bytes)
      BY <1>1, <2>1 DEF Uart!Init
    <3> QED BY <1>1, <2>1, <3>1, <3>2 DEF Uart!Init, Uart!TypeOK
  <2>3. Uart!BufferIsQueue
    <3>1. uartPos = 0 /\ uartLen = 0 /\ Len(queue) = 0
      BY <1>1, <2>1 DEF Uart!Init
    <3> QED BY <3>1 DEF Uart!BufferIsQueue
  <2> QED BY <1>1, <2>2, <2>3 DEF Uart!Init, UartInv
<1>2. UartInv /\ [Uart!Next]_Uart!vars => UartInv'
  BY UartKept
<1>3. UartInv => Uart!TypeOK /\ Uart!BufferIsQueue
  BY DEF UartInv
<1> QED BY <1>1, <1>2, <1>3, PTL DEF Uart!Spec

-----------------------------------------------------------------------------
(* Strings outside the heap                                                *)

\* The word, if it is in the table at all but not its last, is in the part that is
\* still searched.
Within(i) == sortedWords[i] = str => min < i /\ i <= max

StringsInv ==
  /\ sortedWords \in Strings!SortedTables /\ str \in Seq(Nat)
  /\ found \in {<<"none">>, <<"searching">>} \union {<<"found", w>> : w \in Words}
  /\ found = <<"searching">> =>
       /\ min \in Nat /\ max \in Nat
       /\ \A i \in 1..Len(sortedWords) - 1 : Within(i)
  /\ Strings!SearchFinds

Letters(s, a) == \A i \in 1..a : s[i] \in Nat

\* The words, of which s has a letters, differ first at letter n, where s is less.
DifferAt(s, t, a, n) ==
  /\ \A i \in 1..n - 1 : i <= a /\ s[i] = t[i]
  /\ n > a \/ s[n] < t[n]

\* Where two pairs of words first differ tells where the outer two do.
LEMMA FirstDifference ==
  ASSUME NEW s, NEW t, NEW u, NEW a \in Nat, NEW b \in Nat, NEW c \in Nat,
         Letters(s, a), Letters(t, b), Letters(u, c),
         NEW n \in 1..b, DifferAt(s, t, a, n), NEW m \in 1..c, DifferAt(t, u, b, m)
  PROVE  \E k \in 1..c : DifferAt(s, u, a, k)
<1> USE DEF Letters, DifferAt
<1>1. CASE n < m
  <2>1. n \in 1..c /\ t[n] = u[n]
    BY <1>1
  <2>2. \A i \in 1..n - 1 : i <= a /\ s[i] = u[i]
    BY <1>1
  <2>3. n > a \/ s[n] < u[n]
    BY <2>1
  <2> QED BY <2>1, <2>2, <2>3
<1>2. CASE m < n
  <2>1. m \in 1..b /\ s[m] = t[m] /\ t[m] < u[m]
    BY <1>2
  <2>2. \A i \in 1..m - 1 : i <= a /\ s[i] = u[i]
    BY <1>2
  <2> QED BY <2>1, <2>2
<1>3. CASE m = n
  <2>1. \A i \in 1..n - 1 : i <= a /\ s[i] = u[i]
    BY <1>3
  <2>2. t[n] < u[n]
    BY <1>3
  <2>3. ASSUME n <= a
        PROVE  s[n] < u[n]
    <3>1. s[n] \in Nat /\ t[n] \in Nat /\ u[n] \in Nat
      BY <1>3, <2>3
    <3>2. s[n] < t[n]
      BY <2>3
    <3> QED BY <2>2, <3>1, <3>2
  <2> QED BY <1>3, <2>1, <2>3
<1> QED BY <1>1, <1>2, <1>3

\* The order of words is one.
LEMMA LessTransitive ==
  ASSUME NEW s \in Seq(Nat), NEW t \in Seq(Nat), NEW u \in Seq(Nat),
         Strings!Less(s, t), Strings!Less(t, u)
  PROVE  Strings!Less(s, u)
<1>1. PICK n \in 1..Len(t) : DifferAt(s, t, Len(s), n)
  BY DEF Strings!Less, DifferAt
<1>2. PICK m \in 1..Len(u) : DifferAt(t, u, Len(t), m)
  BY DEF Strings!Less, DifferAt
<1>3. Len(s) \in Nat /\ Len(t) \in Nat /\ Len(u) \in Nat
  OBVIOUS
<1>4. /\ Letters(s, Len(s)) /\ Letters(t, Len(t)) /\ Letters(u, Len(u))
  <2>1. \A w \in Seq(Nat) : Letters(w, Len(w))
    BY DEF Letters
  <2> QED BY <2>1
<1>5. PICK k \in 1..Len(u) : DifferAt(s, u, Len(s), k)
  BY <1>1, <1>2, <1>3, <1>4, FirstDifference
<1> QED BY <1>5 DEF Strings!Less, DifferAt

LEMMA LessIrreflexive ==
  ASSUME NEW s \in Seq(Nat)
  PROVE  ~Strings!Less(s, s)
<1>1. Len(s) \in Nat /\ \A i \in 1..Len(s) : s[i] \in Nat
  BY LenProperties, ElementOfSeq
<1> QED BY <1>1 DEF Strings!Less

\* In a table each word is before all that follow it, not only before the next.
LEMMA TableSorted ==
  ASSUME Lettered, NEW t \in Strings!SortedTables
  PROVE  /\ t \in Seq(Seq(Nat)) /\ Len(t) \in Nat /\ 2 <= Len(t)
         /\ \A i, j \in 1..Len(t) : i < j => Strings!Less(t[i], t[j])
<1>1. PICK n \in 2..MaxTable : t \in [1..n -> Words] /\ \A i \in 1..Len(t) - 1 : Strings!Less(t[i], t[i + 1])
  BY DEF Strings!SortedTables
<1>2. n \in Nat /\ 2 <= n /\ t \in [1..n -> Seq(Nat)]
  BY <1>1 DEF Lettered
<1>3. t \in Seq(Seq(Nat)) /\ Len(t) = n
  BY <1>2
<1>4. ASSUME NEW i \in 1..n, NEW j \in 1..n, i < j, ~Strings!Less(t[i], t[j])
      PROVE  FALSE
  <2> DEFINE Bad == {k \in 1..n : i < k /\ ~Strings!Less(t[i], t[k])}
  <2>1. Bad # {} /\ Bad \subseteq Nat
    <3>1. j \in Bad
      BY <1>4
    <3>2. \A k \in 1..n : k \in Nat
      BY <1>2
    <3> QED BY <3>1, <3>2
  <2> HIDE DEF Bad
  <2>2. PICK m \in Bad : \A k \in Bad : ~(<<k, m>> \in OpToRel(<, Nat))
    BY <2>1, NatLessThanWellFounded, WFMin, Zenon
  <2>3. \A k \in Bad : <<k, m>> \in Nat \X Nat /\ <<k, m>>[1] = k /\ <<k, m>>[2] = m
    BY <2>1
  <2>4. \A k \in Bad : ~(k < m)
    BY <2>2, <2>3, Zenon DEF OpToRel
  <2>5. m \in 1..n /\ i < m /\ ~Strings!Less(t[i], t[m])
    BY DEF Bad
  <2>6. PICK l \in Nat : l = m - 1 /\ l \in 1..n - 1 /\ m = l + 1
    BY <1>2, <2>5
  <2>7. Strings!Less(t[l], t[m])
    BY <1>1, <1>3, <2>6
  <2>8. CASE l = i
    BY <2>5, <2>7, <2>8
  <2>9. CASE l # i
    <3>1. i < l /\ l < m /\ l \in 1..n
      BY <1>2, <2>5, <2>6, <2>9
    <3>2. l \notin Bad
      BY <2>4, <3>1
    <3>3. Strings!Less(t[i], t[l])
      BY <3>1, <3>2 DEF Bad
    <3>4. t[i] \in Seq(Nat) /\ t[l] \in Seq(Nat) /\ t[m] \in Seq(Nat)
      BY <1>2, <2>5, <3>1
    <3> QED BY <2>5, <2>7, <3>3, <3>4, LessTransitive
  <2> QED BY <2>8, <2>9
<1> QED BY <1>2, <1>3, <1>4

\* A round leaves the half that the word must be in.
LEMMA SearchNarrows ==
  ASSUME Lettered, StringsInv, Strings!Search
  PROVE  StringsInv'
<1> DEFINE pos == min + (max - min) \div 2
           word == sortedWords[pos + 1]
<1>1. /\ found = <<"searching">> /\ UNCHANGED <<sortedWords, str>>
      /\ \/ str = word /\ found' = <<"found", word>> /\ UNCHANGED <<min, max>>
         \/ /\ str # word
            /\ IF Strings!Less(str, word) THEN max' = pos /\ UNCHANGED min
               ELSE min' = pos + 1 /\ UNCHANGED max
            /\ found' = IF max' = min' THEN <<"none">> ELSE <<"searching">>
  BY DEF Strings!Search
<1>2. /\ sortedWords \in Strings!SortedTables /\ str \in Seq(Nat)
      /\ min \in Nat /\ max \in Nat /\ min < max /\ max < Len(sortedWords)
      /\ \A i \in 1..Len(sortedWords) - 1 : Within(i)
  BY <1>1 DEF StringsInv, Strings!SearchFinds
<1>3. /\ sortedWords \in Seq(Seq(Nat)) /\ Len(sortedWords) \in Nat
      /\ \A i, j \in 1..Len(sortedWords) : i < j => Strings!Less(sortedWords[i], sortedWords[j])
  BY <1>2, TableSorted
<1>4. pos \in Nat /\ min <= pos /\ pos < max /\ pos + 1 \in 1..Len(sortedWords) - 1
  BY <1>2, <1>3
<1>5. word \in Words
  <2>1. PICK n \in 2..MaxTable : sortedWords \in [1..n -> Words]
    BY <1>2 DEF Strings!SortedTables
  <2>2. n = Len(sortedWords)
    BY <1>3, <2>1 DEF Lettered
  <2> QED BY <1>3, <1>4, <2>1, <2>2
<1> HIDE DEF pos
<1>6. CASE str = word
  BY <1>1, <1>2, <1>5, <1>6 DEF StringsInv, Strings!SearchFinds
<1>7. CASE str # word
  <2>1. /\ min' \in Nat /\ max' \in Nat /\ min' <= max' /\ max' < Len(sortedWords)
    BY <1>1, <1>2, <1>4, <1>7
  <2>2. ASSUME NEW i \in 1..Len(sortedWords) - 1, sortedWords[i] = str
        PROVE  min' < i /\ i <= max'
    <3>1. min < i /\ i <= max /\ i \in Nat /\ i # pos + 1 /\ i \in 1..Len(sortedWords)
          /\ pos + 1 \in 1..Len(sortedWords)
      <4>1. Within(i) /\ i \in Nat
        BY <1>2, <2>2
      <4>2. min < i /\ i <= max
        BY <2>2, <4>1 DEF Within
      <4>3. i # pos + 1
        BY <1>7, <2>2
      <4> QED BY <1>3, <1>4, <4>1, <4>2, <4>3
    <3>2. CASE Strings!Less(str, word)
      <4>1. ~(pos + 1 < i)
        <5>1. ASSUME pos + 1 < i
              PROVE  FALSE
          <6>1. Strings!Less(word, str) /\ word \in Seq(Nat)
            BY <1>3, <2>2, <3>1, <5>1
          <6> QED BY <1>2, <3>2, <6>1, LessTransitive, LessIrreflexive
        <5> QED BY <5>1
      <4> QED BY <1>1, <1>2, <1>4, <1>7, <3>1, <3>2, <4>1
    <3>3. CASE ~Strings!Less(str, word)
      <4>1. ~(i < pos + 1)
        BY <1>3, <2>2, <3>1, <3>3
      <4> QED BY <1>1, <1>2, <1>4, <1>7, <3>1, <3>3, <4>1
    <3> QED BY <3>2, <3>3
  <2>3. CASE max' = min'
    <3>1. found' = <<"none">>
      BY <1>1, <1>7, <2>3
    <3>2. \A i \in 1..Len(sortedWords) - 1 : sortedWords[i] # str
      BY <1>3, <2>1, <2>2, <2>3
    <3> QED BY <1>1, <1>2, <3>1, <3>2 DEF StringsInv, Strings!SearchFinds
  <2>4. CASE max' # min'
    <3>1. found' = <<"searching">> /\ min' < max'
      BY <1>1, <1>7, <2>1, <2>4
    <3> QED BY <1>1, <1>2, <2>1, <2>2, <3>1 DEF StringsInv, Strings!SearchFinds, Within
  <2> QED BY <2>3, <2>4
<1> QED BY <1>6, <1>7

\* A search begins with all of the table but its last word.
LEMMA SearchBegins ==
  ASSUME Lettered, StringsInv, Strings!AJS_ExternalStringCheck
  PROVE  StringsInv'
<1>1. /\ str' \in Words /\ str' \in Seq(Nat) /\ sortedWords' = sortedWords
      /\ sortedWords \in Strings!SortedTables
      /\ IF Len(str') < MinLen THEN found' = <<"none">> /\ UNCHANGED <<min, max>>
         ELSE found' = <<"searching">> /\ min' = 0 /\ max' = Len(sortedWords) - 1
  BY DEF Lettered, StringsInv, Strings!AJS_ExternalStringCheck
<1>2. Len(sortedWords) \in Nat /\ 2 <= Len(sortedWords) /\ Len(str') \in Nat
  BY <1>1, TableSorted
<1>3. CASE Len(str') < MinLen
  BY <1>1, <1>2, <1>3 DEF Lettered, StringsInv, Strings!SearchFinds
<1>4. CASE ~(Len(str') < MinLen)
  <2>1. found' = <<"searching">> /\ min' = 0 /\ max' = Len(sortedWords) - 1 /\ max' \in Nat
    BY <1>1, <1>2, <1>4
  <2>2. \A i \in 1..Len(sortedWords') - 1 : Within(i)'
    BY <1>1, <1>2, <2>1 DEF Within
  <2>3. 0 < max' /\ max' < Len(sortedWords')
    BY <1>1, <1>2, <2>1
  <2> QED BY <1>1, <2>1, <2>2, <2>3 DEF StringsInv, Strings!SearchFinds
<1> QED BY <1>3, <1>4

\* For every sorted table and every word: the search stays within the table and
\* narrows in every round; what it finds is the word; and when it finds nothing the
\* word is not in the table, or is its last, which is never looked at.
THEOREM SearchIsRight == Lettered => (Strings!Spec => []Strings!SearchFinds)
<1> SUFFICES ASSUME Lettered
             PROVE  Strings!Spec => []Strings!SearchFinds
  OBVIOUS
<1>1. ASSUME Strings!Init
      PROVE  StringsInv
  <2>1. str \in Seq(Nat) /\ Len(str) = 0
    BY <1>1 DEF Strings!Init
  <2>2. ~(Len(str) >= MinLen)
    BY <2>1 DEF Lettered
  <2> QED BY <1>1, <2>1, <2>2 DEF Strings!Init, StringsInv, Strings!SearchFinds
<1>2. ASSUME StringsInv, [Strings!Next]_Strings!vars
      PROVE  StringsInv'
  <2>1. CASE UNCHANGED Strings!vars
    BY <1>2, <2>1 DEF Strings!vars, StringsInv, Strings!SearchFinds, Within
  <2> QED BY <1>2, <2>1, SearchBegins, SearchNarrows DEF Strings!Next
<1>3. StringsInv => Strings!SearchFinds
  BY DEF StringsInv
<1> QED BY <1>1, <1>2, <1>3, PTL DEF Strings!Spec

-----------------------------------------------------------------------------
(* Control panels                                                          *)

\* A widget, but for what a setter that threw has left of it: a dialog has its
\* buttons, and a slider is written as its signature says, in its range.
Sound(w, i, ref, rem) ==
  /\ i \notin ref => w.actions = w.buttons
  /\ w.kind = "slider" => w.signature \in {"int", "double"}
  /\ w.kind = "slider" /\ i \notin ref =>
       /\ w.rep = w.signature /\ w.range # Panel!Dangling
       /\ w.range # Panel!NoRange /\ i \notin rem => w.value \in w.range.min..w.range.max

WidgetsSound ==
  /\ widgets \in Seq(Panel!Widget)
  /\ \A i \in 1..Len(widgets) : Sound(widgets[i], i, refused, remote)

\* What the controller does not know is the value of a widget with a range.
StaleKnown(c) ==
  /\ c[2] # 1
  /\ kit /\ c[1] = "value" => c[2] \in 1..Len(widgets) /\ widgets[c[2]].range # Panel!NoRange

AllStaleKnown == \A c \in stale : StaleKnown(c)

NoSessionNoneStale == ~session => stale = {}

SessionNeedsList == session /\ list = "null" => ~kit

PanelInv ==
  /\ Panel!TypeOK /\ WidgetsSound /\ AllStaleKnown
  /\ NoSessionNoneStale /\ SessionNeedsList /\ Panel!ObjectsBacked

\* Ranges differ from no range and from one that is lost.
LEMMA RangesDiffer ==
  /\ \A r \in Panel!Ranges : r.is = "set" /\ r.min = 1 /\ r.max = 3 /\ r.inc = 2
  /\ \A r \in Panel!Ranges : r # Panel!NoRange /\ r # Panel!Dangling
  /\ Panel!NoRange.is = "none" /\ Panel!Dangling.is = "dangling"
  /\ Panel!NoRange # Panel!Dangling
BY DEF Panel!Ranges, Panel!NoRange, Panel!Dangling

\* A value that is fitted is a value, and in the range when it is set
\* (FitValueInRange).
LEMMA Fitted ==
  ASSUME Sized, NEW w \in Panel!Widget, w.range.is # "none", NEW fit \in Panel!FitValueInRange(w)
  PROVE  fit \in Panel!Values /\ (w.range \in Panel!Ranges => fit \in w.range.min..w.range.max)
<1>1. CASE w.range.is = "dangling"
  BY <1>1, RangesDiffer DEF Panel!FitValueInRange
<1>2. CASE w.range.is # "dangling"
  <2>1. w.range \in Panel!Ranges
    BY <1>2, RangesDiffer DEF Panel!Widget
  <2>2. w.range.min = 1 /\ w.range.max = 3 /\ w.range.inc = 2
    BY <2>1, RangesDiffer
  <2>3. w.value \in Int /\ Panel!Values \subseteq Int
    BY DEF Sized, Panel!Widget, Panel!Values
  <2>4. Panel!Rounded(w) \in Int
    BY <2>2, <2>3 DEF Panel!Rounded
  <2>5. PICK x \in Int : fit = Panel!Clamp(x, w.range)
    BY <1>2, <2>3, <2>4 DEF Panel!FitValueInRange
  <2>6. fit \in 1..3
    BY <2>2, <2>5 DEF Panel!Clamp
  <2> QED BY <2>2, <2>6 DEF Sized, Panel!Values
<1> QED BY <1>1, <1>2

PanelShape ==
  /\ panels \in 0..MaxPanels /\ live \subseteq 1..panels /\ held \subseteq live
  /\ kit \in BOOLEAN /\ session \in BOOLEAN /\ list \in {"null", "live", "freed"}
  /\ objects \in 0..MaxWidgets

HistoryShape ==
  /\ stale \subseteq {"value", "metadata"} \X Panel!Indices
  /\ refused \subseteq Panel!Indices /\ remote \subseteq Panel!Indices
  /\ running \in 0..MaxWidgets /\ reply \in {"none", "ok", "error", "never"}

LEMMA PanelTypes ==
  WidgetsSound => (Panel!TypeOK <=> PanelShape /\ HistoryShape /\ Len(widgets) <= MaxWidgets)
<1> SUFFICES ASSUME WidgetsSound
             PROVE  Panel!TypeOK <=> PanelShape /\ HistoryShape /\ Len(widgets) <= MaxWidgets
  OBVIOUS
<1>1. \A i \in 1..Len(widgets) : widgets[i] \in Panel!Widget
  BY DEF WidgetsSound
<1> QED BY <1>1 DEF Panel!TypeOK, PanelShape, HistoryShape

\* One widget is another: the rest of the array stays as it was.
LEMMA OneWidgetSet ==
  ASSUME WidgetsSound, NEW i \in 1..Len(widgets), NEW w \in Panel!Widget,
         widgets' = [widgets EXCEPT ![i] = w], Sound(w, i, refused', remote'),
         refused' \union {i} = refused \union {i}, remote' \union {i} = remote \union {i}
  PROVE  /\ WidgetsSound' /\ Len(widgets') = Len(widgets) /\ widgets'[i] = w
         /\ \A j \in 1..Len(widgets) \ {i} : widgets'[j] = widgets[j]
<1>1. /\ widgets \in Seq(Panel!Widget) /\ Len(widgets) \in Nat
      /\ \A j \in 1..Len(widgets) : Sound(widgets[j], j, refused, remote)
  BY DEF WidgetsSound
<1>2. /\ widgets' \in Seq(Panel!Widget) /\ Len(widgets') = Len(widgets) /\ widgets'[i] = w
      /\ \A j \in 1..Len(widgets) \ {i} : widgets'[j] = widgets[j]
  BY <1>1
<1>3. ASSUME NEW j \in 1..Len(widgets')
      PROVE  Sound(widgets'[j], j, refused', remote')
  <2>1. CASE j = i
    BY <1>2, <2>1
  <2>2. CASE j # i
    <3>1. /\ j \in 1..Len(widgets) /\ widgets'[j] = widgets[j]
          /\ j \notin refused' => j \notin refused
          /\ j \notin remote' => j \notin remote
      BY <1>2, <2>2
    <3> QED BY <1>1, <3>1 DEF Sound
  <2> QED BY <2>1, <2>2
<1> QED BY <1>2, <1>3 DEF WidgetsSound

\* What an operation on one widget must see to: the widget is sound, it does not lose
\* its range, and what the controller does not know any more is metadata, or the value
\* of a widget with a range, or there is no list.
LEMMA OneWidgetKeeps ==
  ASSUME Sized, PanelInv, NEW i \in 1..Len(widgets), NEW w \in Panel!Widget,
         widgets' = [widgets EXCEPT ![i] = w], Sound(w, i, refused', remote'),
         refused' \union {i} = refused \union {i}, remote' \union {i} = remote \union {i},
         widgets[i].range # Panel!NoRange => w.range # Panel!NoRange,
         \A c \in stale' :
           \/ c \in stale
           \/ i # 1 /\ c = <<"metadata", i>>
           \/ i # 1 /\ c = <<"value", i>> /\ (kit => w.range # Panel!NoRange),
         ~session => stale' \subseteq stale,
         UNCHANGED <<panels, held, live, kit, list, objects, session>>,
         running' \in 0..MaxWidgets, reply' \in {"none", "ok", "error", "never"}
  PROVE  PanelInv'
<1>1. WidgetsSound /\ PanelShape /\ HistoryShape /\ Len(widgets) <= MaxWidgets
  BY PanelTypes DEF PanelInv
<1>2. /\ WidgetsSound' /\ Len(widgets') = Len(widgets) /\ widgets'[i] = w
      /\ \A j \in 1..Len(widgets) \ {i} : widgets'[j] = widgets[j]
  BY <1>1, OneWidgetSet
<1>3. Len(widgets) \in Nat /\ i \in Panel!Indices
  BY <1>1 DEF WidgetsSound, Panel!Indices, Sized
<1>4. HistoryShape'
  <2>1. stale' \subseteq {"value", "metadata"} \X Panel!Indices
    BY <1>1, <1>3 DEF HistoryShape
  <2>2. refused' \subseteq Panel!Indices /\ remote' \subseteq Panel!Indices
    BY <1>1, <1>3 DEF HistoryShape
  <2> QED BY <2>1, <2>2 DEF HistoryShape
<1>5. Panel!TypeOK'
  <2>1. PanelShape'
    BY <1>1 DEF PanelShape
  <2> QED BY <1>1, <1>2, <1>4, <2>1, PanelTypes
          DEF Panel!TypeOK, PanelShape, HistoryShape, WidgetsSound
<1>6. ASSUME NEW c \in stale'
      PROVE  StaleKnown(c)'
  <2>1. CASE c \in stale
    <3>1. StaleKnown(c)
      BY <2>1 DEF PanelInv, AllStaleKnown
    <3> QED BY <1>2, <3>1 DEF StaleKnown
  <2>2. CASE c \notin stale
    <3>1. CASE i # 1 /\ c = <<"metadata", i>>
      <4>1. c[1] # "value" /\ c[2] # 1
        BY <3>1
      <4> QED BY <4>1 DEF StaleKnown
    <3>2. CASE i # 1 /\ c = <<"value", i>> /\ (kit => w.range # Panel!NoRange)
      <4>1. c[2] = i /\ i # 1
        BY <3>2
      <4> QED BY <1>2, <1>3, <3>2, <4>1 DEF StaleKnown
    <3> QED BY <2>2, <3>1, <3>2
  <2> QED BY <2>1, <2>2
<1>7. NoSessionNoneStale' /\ SessionNeedsList'
  BY DEF PanelInv, NoSessionNoneStale, SessionNeedsList
<1>8. Panel!ObjectsBacked'
  BY <1>2 DEF PanelInv, Panel!ObjectsBacked
<1> QED BY <1>2, <1>5, <1>6, <1>7, <1>8 DEF PanelInv, AllStaleKnown

\* The value of a widget that can have one.
LEMMA WidgetParts ==
  ASSUME NEW w \in Panel!Widget
  PROVE  /\ w.signature \in {"none", "int", "double", "string", "struct"}
         /\ w.rep \in {"none", "int", "double", "string", "struct"}
         /\ w.value \in Panel!Values /\ w.kind \in WidgetKinds \union {"panel"}
         /\ w.range \in Panel!Ranges \union {Panel!NoRange, Panel!Dangling}
         /\ \A v \in Panel!Values : [w EXCEPT !.value = v] \in Panel!Widget
BY DEF Panel!Widget

\* A value that the script sets is written by the layout of the widget and fitted
\* in its range (NativeValueSetter).
LEMMA ValueSetterKeeps ==
  ASSUME Sized, PanelInv, NEW i \in 2..Len(widgets), Panel!NativeValueSetter(i),
         UNCHANGED <<Panel!panelVars, Panel!busVars, Panel!callVars>>
  PROVE  PanelInv'
<1> DEFINE old == widgets[i]
<1>1. PICK v \in Panel!Values :
        LET w == Panel!Written(old, v) IN
        /\ old.kind \in Panel!PropertyKinds
        /\ \E fit \in IF w.kind = "slider" /\ w.range.is # "none"
                      THEN Panel!FitValueInRange(w) ELSE {v} :
             widgets' = [widgets EXCEPT ![i] = [w EXCEPT !.value = fit]]
        /\ Panel!SignalChanged("value", i) /\ remote' = remote \ {i} /\ UNCHANGED refused
  BY DEF Panel!NativeValueSetter
<1> DEFINE w == Panel!Written(old, v)
<1>2. /\ old \in Panel!Widget /\ Sound(old, i, refused, remote) /\ i \in 1..Len(widgets)
      /\ HistoryShape /\ PanelShape
  BY PanelTypes DEF PanelInv, WidgetsSound
<1>3. /\ w \in Panel!Widget /\ w.kind = old.kind /\ w.signature = old.signature
      /\ w.range = old.range /\ w.actions = old.actions /\ w.buttons = old.buttons
      /\ old.kind = "slider" => w.rep = old.signature
  <2>1. Panel!SignatureOf(old.kind) \in {"none", "int", "double", "string", "struct"}
    BY DEF Panel!SignatureOf
  <2> DEFINE rep == IF old.kind = "slider" THEN old.signature ELSE Panel!SignatureOf(old.kind)
  <2>2. rep \in {"none", "int", "double", "string", "struct"}
    BY <1>2, <2>1, WidgetParts
  <2>3. w = [old EXCEPT !.value = v, !.rep = rep]
    BY DEF Panel!Written
  <2> HIDE DEF rep, w
  <2>4. w \in Panel!Widget /\ w.rep = rep
    BY <1>2, <2>2, <2>3 DEF Panel!Widget
  <2> QED BY <1>2, <2>3, <2>4 DEF rep, Panel!Widget
<1> HIDE DEF w
<1>4. PICK fit \in IF w.kind = "slider" /\ w.range.is # "none"
                   THEN Panel!FitValueInRange(w) ELSE {v} :
        widgets' = [widgets EXCEPT ![i] = [w EXCEPT !.value = fit]]
  BY <1>1 DEF w
<1> DEFINE new == [w EXCEPT !.value = fit]
<1>5. /\ fit \in Panel!Values
      /\ w.kind = "slider" /\ w.range \in Panel!Ranges => fit \in w.range.min..w.range.max
  BY <1>3, <1>4, Fitted, RangesDiffer
<1>6. /\ new \in Panel!Widget /\ new.kind = old.kind /\ new.signature = old.signature
      /\ new.range = old.range /\ new.actions = old.actions /\ new.buttons = old.buttons
      /\ new.rep = w.rep /\ new.value = fit
  BY <1>3, <1>5 DEF Panel!Widget
<1>7. Sound(new, i, refused', remote')
  <2>1. refused' = refused
    BY <1>1
  <2>2. new.range # Panel!Dangling /\ new.range # Panel!NoRange => new.range \in Panel!Ranges
    BY <1>6, WidgetParts
  <2> QED BY <1>2, <1>3, <1>5, <1>6, <2>1, <2>2 DEF Sound
<1>8. widgets' = [widgets EXCEPT ![i] = new]
  BY <1>4
<1>9. /\ refused' \union {i} = refused \union {i} /\ remote' \union {i} = remote \union {i}
      /\ \A c \in stale' :
           c \in stale \/ (i # 1 /\ c = <<"value", i>> /\ (kit => new.range # Panel!NoRange))
      /\ ~session => stale' \subseteq stale
  BY <1>1 DEF Panel!SignalChanged, PanelInv, SessionNeedsList
<1> HIDE DEF new
<1> QED BY <1>2, <1>6, <1>7, <1>8, <1>9, OneWidgetKeeps
        DEF Panel!panelVars, Panel!busVars, Panel!callVars, HistoryShape

\* A range comes with a value that fits it, or is lost (NativeRangeSetter).
LEMMA RangeSetterKeeps ==
  ASSUME Sized, PanelInv, NEW i \in 2..Len(widgets), Panel!NativeRangeSetter(i),
         UNCHANGED <<Panel!panelVars, Panel!busVars, Panel!callVars>>
  PROVE  PanelInv'
<1> DEFINE old == widgets[i]
<1>1. PICK r \in Panel!Ranges, as \in {"int", "double"} :
        LET set == [old EXCEPT !.signature = as, !.range = r] IN
        IF old.range.is = "none"
        THEN /\ \E fit \in Panel!FitValueInRange(set) :
                  widgets' = [widgets EXCEPT ![i] = [set EXCEPT !.rep = as, !.value = fit]]
             /\ remote' = remote \ {i} /\ UNCHANGED refused
        ELSE /\ widgets' = [widgets EXCEPT ![i] = [set EXCEPT !.range = Panel!Dangling]]
             /\ refused' = refused \union {i} /\ UNCHANGED remote
  BY DEF Panel!NativeRangeSetter
<1> DEFINE set == [old EXCEPT !.signature = as, !.range = r]
<1>2. /\ old \in Panel!Widget /\ Sound(old, i, refused, remote) /\ i \in 1..Len(widgets)
      /\ HistoryShape /\ PanelShape
  BY PanelTypes DEF PanelInv, WidgetsSound
<1>3. /\ set \in Panel!Widget /\ set.kind = old.kind /\ set.signature = as /\ set.range = r
      /\ set.actions = old.actions /\ set.buttons = old.buttons
  BY <1>2 DEF Panel!Widget
<1> HIDE DEF set
<1>4. /\ refused' \union {i} = refused \union {i} /\ remote' \union {i} = remote \union {i}
  BY <1>1
<1>5. /\ ~session => stale' \subseteq stale
      /\ \A c \in stale' : c \in stale \/ (i # 1 /\ c \in {<<"value", i>>, <<"metadata", i>>})
  <2>1. stale' = IF session THEN stale \union {<<"value", i>>, <<"metadata", i>>} ELSE stale
    BY DEF Panel!NativeRangeSetter, Panel!SilentChange
  <2>2. i # 1
    BY <1>2 DEF PanelInv, WidgetsSound
  <2> QED BY <2>1, <2>2
<1>6. CASE old.range.is = "none"
  <2>1. PICK fit \in Panel!FitValueInRange(set) :
          widgets' = [widgets EXCEPT ![i] = [set EXCEPT !.rep = as, !.value = fit]]
    BY <1>1, <1>6 DEF set
  <2> DEFINE new == [set EXCEPT !.rep = as, !.value = fit]
  <2>2. fit \in Panel!Values /\ fit \in r.min..r.max
    BY <1>3, Fitted, RangesDiffer
  <2>3. /\ new \in Panel!Widget /\ new.kind = old.kind /\ new.signature = as /\ new.rep = as
        /\ new.range = r /\ new.value = fit
        /\ new.actions = old.actions /\ new.buttons = old.buttons
    BY <1>3, <2>2 DEF Panel!Widget
  <2>4. widgets' = [widgets EXCEPT ![i] = new]
    BY <2>1
  <2> HIDE DEF new
  <2>5. refused' = refused /\ new.range # Panel!NoRange /\ new.range # Panel!Dangling
    BY <1>1, <1>6, <2>3, RangesDiffer
  <2>6. Sound(new, i, refused', remote')
    BY <1>2, <2>2, <2>3, <2>5 DEF Sound
  <2> QED BY <1>2, <1>4, <1>5, <2>3, <2>4, <2>5, <2>6, OneWidgetKeeps
          DEF Panel!panelVars, Panel!busVars, Panel!callVars, HistoryShape
<1>7. CASE old.range.is # "none"
  <2> DEFINE new == [set EXCEPT !.range = Panel!Dangling]
  <2>1. widgets' = [widgets EXCEPT ![i] = new] /\ i \in refused'
    BY <1>1, <1>7 DEF set
  <2>2. /\ new \in Panel!Widget /\ new.kind = old.kind /\ new.signature = as
        /\ new.range = Panel!Dangling
    BY <1>3 DEF Panel!Widget
  <2> HIDE DEF new
  <2>3. Sound(new, i, refused', remote') /\ new.range # Panel!NoRange
    BY <2>1, <2>2, RangesDiffer DEF Sound
  <2> QED BY <1>2, <1>4, <1>5, <2>1, <2>2, <2>3, OneWidgetKeeps
          DEF Panel!panelVars, Panel!busVars, Panel!callVars, HistoryShape
<1> QED BY <1>6, <1>7

\* Choices leave the rest of the widget alone (NativeChoicesSetter).
LEMMA ChoicesSetterKeeps ==
  ASSUME Sized, PanelInv, NEW i \in 2..Len(widgets), Panel!NativeChoicesSetter(i),
         UNCHANGED <<Panel!panelVars, Panel!busVars, Panel!callVars>>
  PROVE  PanelInv'
<1> DEFINE old == widgets[i]
           new == [old EXCEPT !.choices = 2]
<1>1. /\ old \in Panel!Widget /\ Sound(old, i, refused, remote) /\ i \in 1..Len(widgets)
      /\ HistoryShape /\ PanelShape /\ i # 1
  BY PanelTypes DEF PanelInv, WidgetsSound
<1>2. /\ new \in Panel!Widget /\ new.kind = old.kind /\ new.signature = old.signature
      /\ new.rep = old.rep /\ new.range = old.range /\ new.value = old.value
      /\ new.actions = old.actions /\ new.buttons = old.buttons
  BY <1>1 DEF Panel!Widget
<1>3. widgets' = [widgets EXCEPT ![i] = new] /\ refused' = refused /\ remote' = remote
  BY DEF Panel!NativeChoicesSetter
<1>4. /\ ~session => stale' \subseteq stale
      /\ \A c \in stale' : c \in stale \/ (i # 1 /\ c = <<"metadata", i>>)
  BY <1>1 DEF Panel!NativeChoicesSetter, Panel!SilentChange
<1> HIDE DEF new
<1>5. Sound(new, i, refused', remote')
  BY <1>1, <1>2, <1>3 DEF Sound
<1> QED BY <1>1, <1>2, <1>3, <1>4, <1>5, OneWidgetKeeps
        DEF Panel!panelVars, Panel!busVars, Panel!callVars, HistoryShape

\* Two fields of one widget are set.
LEMMA TwoFieldsOfOne ==
  ASSUME NEW ws \in Seq(Panel!Widget), NEW i \in 1..Len(ws), NEW n, NEW m
  PROVE  [ws EXCEPT ![i].actions = n, ![i].buttons = m]
         = [ws EXCEPT ![i] = [ws[i] EXCEPT !.actions = n, !.buttons = m]]
<1>1. ws[i] \in Panel!Widget /\ DOMAIN ws = 1..Len(ws)
  OBVIOUS
<1> DEFINE f == [ws EXCEPT ![i].actions = n]
<1>2. DOMAIN f = DOMAIN ws /\ f[i] = [ws[i] EXCEPT !.actions = n]
      /\ \A j \in DOMAIN ws \ {i} : f[j] = ws[j]
  BY <1>1
<1>3. [ws EXCEPT ![i].actions = n, ![i].buttons = m] = [f EXCEPT ![i] = [f[i] EXCEPT !.buttons = m]]
  OBVIOUS
<1>4. [f[i] EXCEPT !.buttons = m] = [ws[i] EXCEPT !.actions = n, !.buttons = m]
  BY <1>2
<1> QED BY <1>1, <1>2, <1>3, <1>4

\* A dialog has as many actions as buttons, or its setter has thrown
\* (NativeButtonsSetter).
LEMMA ButtonsSetterKeeps ==
  ASSUME Sized, PanelInv, NEW i \in 2..Len(widgets), Panel!NativeButtonsSetter(i),
         UNCHANGED <<Panel!panelVars, Panel!busVars, Panel!callVars>>
  PROVE  PanelInv'
<1> DEFINE old == widgets[i]
<1>1. PICK n \in {0, 1, 3, 4}, valid \in BOOLEAN :
        IF n \in 1..3 /\ valid /\ old.buttons = 0
        THEN widgets' = [widgets EXCEPT ![i].actions = n, ![i].buttons = n] /\ UNCHANGED refused
        ELSE widgets' = [widgets EXCEPT ![i].actions = n] /\ refused' = refused \union {i}
  BY DEF Panel!NativeButtonsSetter
<1>2. /\ old \in Panel!Widget /\ Sound(old, i, refused, remote) /\ i \in 1..Len(widgets)
      /\ HistoryShape /\ PanelShape /\ widgets \in Seq(Panel!Widget) /\ i # 1
  BY PanelTypes DEF PanelInv, WidgetsSound
<1>3. PICK new \in Panel!Widget :
        /\ widgets' = [widgets EXCEPT ![i] = new] /\ new.kind = old.kind
        /\ new.signature = old.signature /\ new.rep = old.rep /\ new.range = old.range
        /\ new.value = old.value /\ (i \notin refused' => new.actions = new.buttons)
  <2>1. CASE n \in 1..3 /\ valid /\ old.buttons = 0
    <3> DEFINE w == [old EXCEPT !.actions = n, !.buttons = n]
    <3>1. widgets' = [widgets EXCEPT ![i] = w]
      <4>1. widgets' = [widgets EXCEPT ![i].actions = n, ![i].buttons = n]
        BY <1>1, <2>1
      <4>2. [widgets EXCEPT ![i].actions = n, ![i].buttons = n] = [widgets EXCEPT ![i] = w]
        BY <1>2, TwoFieldsOfOne, Zenon
      <4> QED BY <4>1, <4>2, Zenon
    <3>2. /\ w \in Panel!Widget /\ w.kind = old.kind /\ w.signature = old.signature
          /\ w.rep = old.rep /\ w.range = old.range /\ w.value = old.value
          /\ w.actions = n /\ w.buttons = n
      <4>1. n \in 0..4 /\ n \in 0..3
        BY <2>1
      <4> QED BY <1>2, <4>1 DEF Panel!Widget
    <3> HIDE DEF w
    <3> QED BY <3>1, <3>2
  <2>2. CASE ~(n \in 1..3 /\ valid /\ old.buttons = 0)
    <3> DEFINE w == [old EXCEPT !.actions = n]
    <3>1. widgets' = [widgets EXCEPT ![i] = w] /\ i \in refused'
      BY <1>1, <1>2, <2>2
    <3>2. /\ w \in Panel!Widget /\ w.kind = old.kind /\ w.signature = old.signature
          /\ w.rep = old.rep /\ w.range = old.range /\ w.value = old.value
      BY <1>2 DEF Panel!Widget
    <3> HIDE DEF w
    <3> QED BY <3>1, <3>2
  <2> QED BY <2>1, <2>2
<1>4. refused' \union {i} = refused \union {i} /\ remote' = remote
  <2>1. refused' = refused \/ refused' = refused \union {i}
    BY <1>1
  <2> QED BY <2>1 DEF Panel!NativeButtonsSetter
<1>5. Sound(new, i, refused', remote')
  <2>1. i \notin refused' => i \notin refused
    BY <1>1
  <2> QED BY <1>2, <1>3, <1>4, <2>1 DEF Sound
<1>6. /\ ~session => stale' \subseteq stale
      /\ \A c \in stale' : c \in stale \/ (i # 1 /\ c = <<"metadata", i>>)
  BY <1>2 DEF Panel!NativeButtonsSetter, Panel!SilentChange
<1> QED BY <1>2, <1>3, <1>4, <1>5, <1>6, OneWidgetKeeps
        DEF Panel!panelVars, Panel!busVars, Panel!callVars, HistoryShape

\* Metadata: no widget changes in what is modelled (MetadataSetter).
LEMMA MetadataSetterKeeps ==
  ASSUME Sized, PanelInv, NEW i \in 2..Len(widgets), Panel!MetadataSetter(i),
         UNCHANGED <<Panel!panelVars, Panel!busVars, Panel!callVars>>
  PROVE  PanelInv'
<1> DEFINE old == widgets[i]
<1>1. /\ old \in Panel!Widget /\ Sound(old, i, refused, remote) /\ i \in 1..Len(widgets)
      /\ HistoryShape /\ PanelShape /\ widgets \in Seq(Panel!Widget) /\ i # 1
  BY PanelTypes DEF PanelInv, WidgetsSound
<1>2. widgets' = widgets /\ refused' = refused /\ remote' = remote
  BY DEF Panel!MetadataSetter
<1>3. widgets' = [widgets EXCEPT ![i] = old]
  BY <1>1, <1>2
<1>4. /\ ~session => stale' \subseteq stale
      /\ \A c \in stale' : c \in stale \/ (i # 1 /\ c = <<"metadata", i>>)
  BY <1>1 DEF Panel!MetadataSetter, Panel!SignalChanged
<1>5. Sound(old, i, refused', remote')
  BY <1>1, <1>2
<1> QED BY <1>1, <1>2, <1>3, <1>4, <1>5, OneWidgetKeeps
        DEF Panel!panelVars, Panel!busVars, Panel!callVars, HistoryShape

\* A setter changes one widget.
LEMMA SetterKeeps ==
  ASSUME Sized, PanelInv, Panel!Setter
  PROVE  PanelInv'
<1>1. PICK i \in 2..Len(widgets) :
        \/ Panel!NativeValueSetter(i) \/ Panel!NativeRangeSetter(i)
        \/ Panel!NativeChoicesSetter(i) \/ Panel!NativeButtonsSetter(i) \/ Panel!MetadataSetter(i)
  BY DEF Panel!Setter
<1>2. UNCHANGED <<Panel!panelVars, Panel!busVars, Panel!callVars>>
  BY DEF Panel!Setter
<1> QED BY <1>1, <1>2, ValueSetterKeeps, RangeSetterKeeps, ChoicesSetterKeeps,
           ButtonsSetterKeeps, MetadataSetterKeeps

\* What a step that leaves the array alone must see to.
LEMMA ArrayKept ==
  ASSUME PanelInv, UNCHANGED <<widgets, refused, remote>>, PanelShape', HistoryShape',
         kit' => kit, stale' \subseteq stale,
         NoSessionNoneStale', SessionNeedsList', Panel!ObjectsBacked'
  PROVE  PanelInv'
<1>1. WidgetsSound /\ PanelShape /\ HistoryShape /\ Len(widgets) <= MaxWidgets
  BY PanelTypes DEF PanelInv
<1>2. WidgetsSound'
  BY <1>1 DEF WidgetsSound
<1>3. Panel!TypeOK'
  BY <1>1, <1>2 DEF Panel!TypeOK, PanelShape, HistoryShape, WidgetsSound
<1>4. ASSUME NEW c \in stale'
      PROVE  StaleKnown(c)'
  <2>1. StaleKnown(c)
    BY <1>4 DEF PanelInv, AllStaleKnown
  <2> QED BY <2>1 DEF StaleKnown
<1> QED BY <1>2, <1>3, <1>4 DEF PanelInv, AllStaleKnown

\* Loading a panel takes the widgets of the array that the stash has
\* (NativeLoadControlPanel).
LEMMA LoadKeeps ==
  ASSUME Sized, PanelInv, Panel!NativeLoadControlPanel
  PROVE  PanelInv'
<1>1. /\ WidgetsSound /\ PanelShape /\ HistoryShape /\ Len(widgets) <= MaxWidgets
      /\ Len(widgets) \in Nat
  BY PanelTypes DEF PanelInv, WidgetsSound
<1>2. /\ UNCHANGED <<panels, held, live, kit, widgets, session, stale, refused, remote>>
      /\ UNCHANGED <<running, reply>>
      /\ \/ list' = "live" /\ objects' = IF kit THEN Len(widgets) ELSE 0
         \/ list' = (IF list = "null" THEN "null" ELSE "freed") /\ objects' = objects
  BY DEF Panel!NativeLoadControlPanel, Panel!AJS_CP_Init, Panel!panelVars, Panel!history,
         Panel!callVars
<1>3. PanelShape'
  <2>1. Len(widgets) \in 0..MaxWidgets /\ 0 \in 0..MaxWidgets
    BY <1>1 DEF Sized
  <2>2. objects' \in 0..MaxWidgets /\ list' \in {"null", "live", "freed"}
    BY <1>1, <1>2, <2>1 DEF PanelShape
  <2> QED BY <1>1, <1>2, <2>2 DEF PanelShape
<1>4. HistoryShape'
  BY <1>1, <1>2 DEF HistoryShape
<1>5. NoSessionNoneStale' /\ SessionNeedsList' /\ Panel!ObjectsBacked'
  BY <1>1, <1>2 DEF PanelInv, NoSessionNoneStale, SessionNeedsList, Panel!ObjectsBacked
<1> QED BY <1>2, <1>3, <1>4, <1>5, ArrayKept

\* The finalizer of a panel takes the list and the array from its successor.
LEMMA FinalizerKeeps ==
  ASSUME Sized, PanelInv, Panel!NativeControlPanelFinalizer
  PROVE  PanelInv'
<1>1. /\ WidgetsSound /\ PanelShape /\ HistoryShape /\ Len(widgets) <= MaxWidgets
  BY PanelTypes DEF PanelInv
<1>2. PICK p \in live \ (held \union {panels}) :
        /\ live' = live \ {p} /\ kit' = FALSE /\ list' = "null" /\ objects' = 0
        /\ UNCHANGED <<panels, held, widgets, session, stale, refused, remote, running, reply>>
  BY DEF Panel!NativeControlPanelFinalizer, Panel!AJS_CP_Terminate, Panel!history,
         Panel!callVars
<1>3. PanelShape'
  <2>1. kit' \in BOOLEAN
    BY <1>2, Zenon
  <2>3. objects' \in 0..MaxWidgets /\ list' \in {"null", "live", "freed"}
    <3>1. 0 \in 0..MaxWidgets
      BY DEF Sized
    <3> QED BY <1>2, <3>1
  <2>2. live' \subseteq 1..panels' /\ held' \subseteq live'
    BY <1>1, <1>2 DEF PanelShape
  <2> QED BY <1>1, <1>2, <2>1, <2>2, <2>3 DEF PanelShape
<1>4. HistoryShape'
  BY <1>1, <1>2 DEF HistoryShape
<1>5. NoSessionNoneStale' /\ SessionNeedsList' /\ Panel!ObjectsBacked'
  BY <1>2 DEF PanelInv, NoSessionNoneStale, SessionNeedsList, Panel!ObjectsBacked
<1> QED BY <1>2, <1>3, <1>4, <1>5, ArrayKept

\* The script drops a panel, or a session comes or goes, or a call reads, or a
\* handler runs: no widget changes.
LEMMA ReadersKeep ==
  ASSUME Sized, PanelInv,
         \/ Panel!Drop \/ Panel!SessionStarts \/ Panel!SessionLost \/ Panel!HandlerReturns
         \/ \E i \in Panel!Indices : Panel!CPSMessageHandler(i) \/ Panel!ExecuteAction(i)
  PROVE  PanelInv'
<1>1. /\ WidgetsSound /\ PanelShape /\ HistoryShape /\ Len(widgets) <= MaxWidgets
  BY PanelTypes DEF PanelInv
<1>2. CASE Panel!Drop
  <2>1. /\ held' \subseteq held
        /\ UNCHANGED <<panels, live, kit, widgets, list, objects, session, stale, refused>>
        /\ UNCHANGED <<remote, running, reply>>
    BY <1>2 DEF Panel!Drop, Panel!busVars, Panel!history, Panel!callVars
  <2>2. PanelShape' /\ HistoryShape'
    BY <1>1, <2>1 DEF PanelShape, HistoryShape
  <2>3. NoSessionNoneStale' /\ SessionNeedsList' /\ Panel!ObjectsBacked'
    BY <2>1 DEF PanelInv, NoSessionNoneStale, SessionNeedsList, Panel!ObjectsBacked
  <2> QED BY <2>1, <2>2, <2>3, ArrayKept
<1>3. CASE Panel!SessionStarts \/ Panel!SessionLost
  <2>1. /\ stale' = {} /\ session' \in BOOLEAN /\ (session' => list = "live")
        /\ UNCHANGED <<panels, held, live, kit, widgets, list, objects, refused, remote>>
        /\ UNCHANGED <<running, reply>>
    BY <1>3 DEF Panel!SessionStarts, Panel!SessionLost, Panel!panelVars, Panel!callVars
  <2>2. PanelShape' /\ HistoryShape'
    BY <1>1, <2>1 DEF PanelShape, HistoryShape
  <2>3. NoSessionNoneStale' /\ SessionNeedsList' /\ Panel!ObjectsBacked'
    BY <2>1 DEF PanelInv, NoSessionNoneStale, SessionNeedsList, Panel!ObjectsBacked
  <2> QED BY <2>1, <2>2, <2>3, ArrayKept
<1>4. CASE \/ Panel!HandlerReturns
           \/ \E i \in Panel!Indices : Panel!CPSMessageHandler(i) \/ Panel!ExecuteAction(i)
  <2>1. /\ stale' \subseteq stale /\ running' \in {0, running} \union Panel!Indices
        /\ reply' \in {"none", "ok", "error"}
        /\ UNCHANGED <<panels, held, live, kit, widgets, list, objects, session, refused>>
        /\ UNCHANGED remote
    BY <1>4 DEF Panel!HandlerReturns, Panel!CPSMessageHandler, Panel!ExecuteAction,
                Panel!panelVars, Panel!busVars, Panel!history
  <2>2. PanelShape' /\ HistoryShape'
    BY <1>1, <2>1 DEF PanelShape, HistoryShape, Panel!Indices, Sized
  <2>3. NoSessionNoneStale' /\ SessionNeedsList' /\ Panel!ObjectsBacked'
    BY <2>1 DEF PanelInv, NoSessionNoneStale, SessionNeedsList, Panel!ObjectsBacked
  <2> QED BY <2>1, <2>2, <2>3, ArrayKept
<1> QED BY <1>2, <1>3, <1>4

\* A widget that was just made is sound (CreateWidget).
LEMMA NewWidget ==
  ASSUME Sized, NEW kind \in WidgetKinds \union {"panel"}
  PROVE  /\ Panel!CreateWidget(kind) \in Panel!Widget
         /\ Panel!CreateWidget(kind).range = Panel!NoRange
         /\ \A i, ref, rem : Sound(Panel!CreateWidget(kind), i, ref, rem)
<1> DEFINE w == Panel!CreateWidget(kind)
<1>1. /\ Panel!SignatureOf(kind) \in {"none", "int", "double", "string", "struct"}
      /\ kind = "slider" => Panel!SignatureOf(kind) = "int"
  BY DEF Panel!SignatureOf
<1>2. /\ w \in [kind : WidgetKinds \union {"panel"},
                signature : {"none", "int", "double", "string", "struct"},
                rep : {"none", "int", "double", "string", "struct"}, value : Panel!Values,
                range : Panel!Ranges \union {Panel!NoRange, Panel!Dangling}, choices : {0, 2},
                actions : 0..4, buttons : 0..3]
  <2>1. 0 \in Panel!Values
    BY DEF Panel!Values, Sized
  <2> QED BY <1>1, <2>1 DEF Panel!CreateWidget
<1>3. /\ w.kind = kind /\ w.signature = Panel!SignatureOf(kind) /\ w.rep = w.signature
      /\ w.range = Panel!NoRange /\ w.actions = w.buttons
  BY DEF Panel!CreateWidget
<1> HIDE DEF w
<1>4. \A i, ref, rem : Sound(w, i, ref, rem)
  BY <1>1, <1>3, RangesDiffer DEF Sound
<1> QED BY <1>2, <1>3, <1>4 DEF Panel!Widget, w

\* A widget joins at the end of the array (AddWidget).
LEMMA AddingKeeps ==
  ASSUME Sized, PanelInv, NEW kind \in WidgetKinds, Panel!AddWidget(kind)
  PROVE  PanelInv'
<1> DEFINE w == Panel!CreateWidget(kind)
<1>1. /\ WidgetsSound /\ PanelShape /\ HistoryShape /\ Len(widgets) <= MaxWidgets
      /\ widgets \in Seq(Panel!Widget) /\ Len(widgets) \in Nat
  BY PanelTypes DEF PanelInv, WidgetsSound
<1>2. /\ Len(widgets) < MaxWidgets /\ widgets' = Append(widgets, w)
      /\ UNCHANGED <<panels, held, live, kit, list, objects, session, stale, refused, remote>>
      /\ UNCHANGED <<running, reply>>
  BY DEF Panel!AddWidget, Panel!panelVars, Panel!busVars, Panel!history, Panel!callVars
<1>3. w \in Panel!Widget /\ \A i, ref, rem : Sound(w, i, ref, rem)
  BY NewWidget
<1> HIDE DEF w
<1>4. /\ widgets' \in Seq(Panel!Widget) /\ Len(widgets') = Len(widgets) + 1
      /\ widgets'[Len(widgets) + 1] = w
      /\ \A i \in 1..Len(widgets) : widgets'[i] = widgets[i]
  BY <1>1, <1>2, <1>3
<1>5. WidgetsSound'
  <2>1. ASSUME NEW i \in 1..Len(widgets')
        PROVE  Sound(widgets'[i], i, refused', remote')
    <3>1. CASE i = Len(widgets) + 1
      BY <1>3, <1>4, <3>1
    <3>2. CASE i # Len(widgets) + 1
      <4>1. i \in 1..Len(widgets) /\ widgets'[i] = widgets[i]
        BY <1>1, <1>4, <3>2
      <4>2. Sound(widgets[i], i, refused, remote)
        BY <4>1 DEF PanelInv, WidgetsSound
      <4> QED BY <1>2, <4>1, <4>2
    <3> QED BY <3>1, <3>2
  <2> QED BY <1>4, <2>1 DEF WidgetsSound
<1>6. Len(widgets') <= MaxWidgets
  BY <1>1, <1>2, <1>4 DEF Sized
<1>7. Panel!TypeOK'
  BY <1>1, <1>2, <1>5, <1>6 DEF Panel!TypeOK, PanelShape, HistoryShape, WidgetsSound
<1>8. ASSUME NEW c \in stale'
      PROVE  StaleKnown(c)'
  <2>1. StaleKnown(c)
    BY <1>2, <1>8 DEF PanelInv, AllStaleKnown
  <2>2. \A i \in 1..Len(widgets) : i \in 1..Len(widgets') /\ widgets'[i] = widgets[i]
    BY <1>1, <1>4
  <2> QED BY <1>2, <2>1, <2>2 DEF StaleKnown
<1>9. NoSessionNoneStale' /\ SessionNeedsList' /\ Panel!ObjectsBacked'
  BY <1>1, <1>2, <1>4
  DEF PanelInv, NoSessionNoneStale, SessionNeedsList, Panel!ObjectsBacked, PanelShape
<1> QED BY <1>5, <1>7, <1>8, <1>9 DEF PanelInv, AllStaleKnown

\* A panel that is made takes the first place of the array, from the one before.
LEMMA PanelKeeps ==
  ASSUME Sized, PanelInv, Panel!NativeControlPanel
  PROVE  PanelInv'
<1> DEFINE w == Panel!CreateWidget("panel")
           rest == SubSeq(widgets, 2, Len(widgets))
<1>1. /\ WidgetsSound /\ PanelShape /\ HistoryShape /\ Len(widgets) <= MaxWidgets
      /\ widgets \in Seq(Panel!Widget) /\ Len(widgets) \in Nat
  BY PanelTypes DEF PanelInv, WidgetsSound
<1>2. /\ panels < MaxPanels /\ panels' = panels + 1
      /\ held' = held \union {panels'} /\ live' = live \union {panels'}
      /\ widgets' = <<w>> \o rest
      /\ UNCHANGED <<kit, list, objects, session, stale, refused, remote, running, reply>>
  BY DEF Panel!NativeControlPanel, Panel!busVars, Panel!history, Panel!callVars
<1>3. w \in Panel!Widget /\ \A i, ref, rem : Sound(w, i, ref, rem)
  BY NewWidget
<1> HIDE DEF w
<1>4. /\ rest \in Seq(Panel!Widget)
      /\ Len(rest) = IF Len(widgets) = 0 THEN 0 ELSE Len(widgets) - 1
      /\ \A k \in 1..Len(rest) : rest[k] = widgets[k + 1]
  BY <1>1, SubSeqProperties
<1> HIDE DEF rest
<1>5. /\ widgets' \in Seq(Panel!Widget) /\ Len(widgets') = 1 + Len(rest) /\ widgets'[1] = w
      /\ \A i \in 1..Len(widgets') : i # 1 => widgets'[i] = rest[i - 1]
  <2>1. <<w>> \in Seq(Panel!Widget) /\ Len(<<w>>) = 1 /\ <<w>>[1] = w
    BY <1>3
  <2> QED BY <1>2, <1>4, <2>1, ConcatProperties
<1>6. /\ Len(widgets') \in Nat /\ Len(widgets') >= Len(widgets) /\ Len(widgets') <= MaxWidgets
      /\ \A i \in 1..Len(widgets') : i # 1 => i \in 1..Len(widgets) /\ widgets'[i] = widgets[i]
  <2>1. Len(rest) \in Nat /\ Len(widgets') = IF Len(widgets) = 0 THEN 1 ELSE Len(widgets)
    BY <1>1, <1>4, <1>5
  <2>2. ASSUME NEW i \in 1..Len(widgets'), i # 1
        PROVE  i \in 1..Len(widgets) /\ widgets'[i] = widgets[i]
    <3>1. i - 1 \in 1..Len(rest) /\ i = (i - 1) + 1 /\ i \in 1..Len(widgets)
      BY <1>1, <1>4, <1>5, <2>1, <2>2
    <3>2. widgets'[i] = rest[i - 1] /\ rest[i - 1] = widgets[(i - 1) + 1]
      BY <1>4, <1>5, <2>2, <3>1
    <3> QED BY <3>1, <3>2
  <2> QED BY <1>1, <2>1, <2>2 DEF Sized
<1>7. WidgetsSound'
  <2>1. ASSUME NEW i \in 1..Len(widgets')
        PROVE  Sound(widgets'[i], i, refused', remote')
    <3>1. CASE i = 1
      BY <1>3, <1>5, <3>1
    <3>2. CASE i # 1
      <4>1. i \in 1..Len(widgets) /\ widgets'[i] = widgets[i]
        BY <1>6, <3>2
      <4>2. Sound(widgets[i], i, refused, remote)
        BY <4>1 DEF PanelInv, WidgetsSound
      <4> QED BY <1>2, <4>1, <4>2
    <3> QED BY <3>1, <3>2
  <2> QED BY <1>5, <2>1 DEF WidgetsSound
<1>8. PanelShape'
  BY <1>1, <1>2 DEF PanelShape, Sized
<1>9. Panel!TypeOK'
  BY <1>1, <1>2, <1>6, <1>7, <1>8 DEF Panel!TypeOK, PanelShape, HistoryShape, WidgetsSound
<1>10. ASSUME NEW c \in stale'
       PROVE  StaleKnown(c)'
  <2>1. StaleKnown(c)
    BY <1>2, <1>10 DEF PanelInv, AllStaleKnown
  <2>2. \A i \in 1..Len(widgets) : i # 1 => i \in 1..Len(widgets') /\ widgets'[i] = widgets[i]
    BY <1>1, <1>6
  <2> QED BY <1>2, <2>1, <2>2 DEF StaleKnown
<1>11. NoSessionNoneStale' /\ SessionNeedsList' /\ Panel!ObjectsBacked'
  BY <1>1, <1>2, <1>6
  DEF PanelInv, NoSessionNoneStale, SessionNeedsList, Panel!ObjectsBacked, PanelShape
<1> QED BY <1>7, <1>9, <1>10, <1>11 DEF PanelInv, AllStaleKnown

\* The value of one widget is set, and how it is written.
LEMMA ValueAndRepOfOne ==
  ASSUME NEW ws \in Seq(Panel!Widget), NEW i \in 1..Len(ws), NEW v, NEW rep
  PROVE  [ws EXCEPT ![i].value = v, ![i].rep = rep]
         = [ws EXCEPT ![i] = [ws[i] EXCEPT !.value = v, !.rep = rep]]
<1>1. ws[i] \in Panel!Widget /\ DOMAIN ws = 1..Len(ws)
  OBVIOUS
<1> DEFINE f == [ws EXCEPT ![i].value = v]
<1>2. DOMAIN f = DOMAIN ws /\ f[i] = [ws[i] EXCEPT !.value = v]
      /\ \A j \in DOMAIN ws \ {i} : f[j] = ws[j]
  BY <1>1
<1>3. [ws EXCEPT ![i].value = v, ![i].rep = rep] = [f EXCEPT ![i] = [f[i] EXCEPT !.rep = rep]]
  OBVIOUS
<1>4. [f[i] EXCEPT !.rep = rep] = [ws[i] EXCEPT !.value = v, !.rep = rep]
  BY <1>2
<1> QED BY <1>1, <1>2, <1>3, <1>4

\* The controller writes a value by the signature of the widget (SetWidgetProp).
LEMMA WriteKeeps ==
  ASSUME Sized, PanelInv, NEW i \in Panel!Indices, Panel!SetWidgetProp(i)
  PROVE  PanelInv'
<1> DEFINE old == widgets[i]
<1>1. /\ running = 0 /\ list = "live" /\ session /\ i <= objects
      /\ UNCHANGED <<panels, held, live, kit, list, objects, session, refused>>
  BY DEF Panel!SetWidgetProp, Panel!Involved, Panel!panelVars, Panel!busVars
<1>2. /\ i \in 1..Len(widgets) /\ i \in Nat /\ i <= MaxWidgets /\ PanelShape /\ HistoryShape
      /\ WidgetsSound
  <2>1. i \in Nat /\ 1 <= i /\ i <= MaxWidgets /\ PanelShape /\ HistoryShape /\ WidgetsSound
    BY PanelTypes DEF PanelInv, Panel!Indices, Sized
  <2>2. objects > 0 /\ objects <= Len(widgets) /\ objects \in Nat /\ Len(widgets) \in Nat
    BY <1>1, <2>1 DEF PanelInv, Panel!ObjectsBacked, PanelShape, WidgetsSound, Sized
  <2> QED BY <1>1, <2>1, <2>2
<1>3. /\ old \in Panel!Widget /\ Sound(old, i, refused, remote)
      /\ widgets \in Seq(Panel!Widget)
  BY <1>2 DEF WidgetsSound
<1>4. \/ reply' = "never" /\ UNCHANGED <<widgets, stale, remote, running>>
      \/ /\ \E v \in Panel!Values :
              widgets' = [widgets EXCEPT ![i].value = v, ![i].rep = old.signature]
         /\ stale' \subseteq stale /\ remote' = remote \union {i}
         /\ running' = i /\ reply' = "none"
      \/ /\ \E v \in Panel!Values :
              widgets' = [widgets EXCEPT ![i].value = IF old.signature = "struct" THEN v ELSE @]
         /\ stale' \subseteq stale /\ reply' = "error" /\ UNCHANGED <<remote, running>>
  BY DEF Panel!SetWidgetProp
<1>5. CASE reply' = "never" /\ UNCHANGED <<widgets, stale, remote, running>>
  <2>1. widgets' = [widgets EXCEPT ![i] = old]
    BY <1>3, <1>5
  <2> QED BY <1>1, <1>2, <1>3, <1>5, <2>1, OneWidgetKeeps DEF HistoryShape
<1>6. CASE /\ \E v \in Panel!Values :
                widgets' = [widgets EXCEPT ![i].value = v, ![i].rep = old.signature]
           /\ stale' \subseteq stale /\ remote' = remote \union {i}
           /\ running' = i /\ reply' = "none"
  <2>1. PICK v \in Panel!Values :
          widgets' = [widgets EXCEPT ![i].value = v, ![i].rep = old.signature]
    BY <1>6
  <2> DEFINE new == [old EXCEPT !.value = v, !.rep = old.signature]
  <2>2. widgets' = [widgets EXCEPT ![i] = new]
    <3>1. [widgets EXCEPT ![i].value = v, ![i].rep = old.signature] = [widgets EXCEPT ![i] = new]
      <4>1. widgets \in Seq(Panel!Widget) /\ i \in 1..Len(widgets)
        BY <1>2, <1>3
      <4> QED BY <4>1, ValueAndRepOfOne, Zenon
    <3> QED BY <2>1, <3>1, Zenon
  <2>3. /\ new \in Panel!Widget /\ new.kind = old.kind /\ new.signature = old.signature
        /\ new.rep = old.signature /\ new.range = old.range
        /\ new.actions = old.actions /\ new.buttons = old.buttons
    BY <1>3 DEF Panel!Widget
  <2> HIDE DEF new
  <2>4. Sound(new, i, refused', remote')
    BY <1>1, <1>3, <1>6, <2>3 DEF Sound
  <2>5. running' \in 0..MaxWidgets
    BY <1>2, <1>6 DEF Sized
  <2> QED BY <1>1, <1>2, <1>6, <2>2, <2>3, <2>4, <2>5, OneWidgetKeeps
<1>7. CASE /\ \E v \in Panel!Values :
                widgets' = [widgets EXCEPT ![i].value = IF old.signature = "struct" THEN v ELSE @]
           /\ stale' \subseteq stale /\ reply' = "error" /\ UNCHANGED <<remote, running>>
  <2>1. PICK v \in Panel!Values :
          widgets' = [widgets EXCEPT ![i].value = IF old.signature = "struct" THEN v ELSE @]
    BY <1>7
  <2> DEFINE x == IF old.signature = "struct" THEN v ELSE old.value
             new == [old EXCEPT !.value = x]
  <2>2. widgets' = [widgets EXCEPT ![i] = new]
    BY <1>2, <1>3, <2>1
  <2>3. x \in Panel!Values /\ (old.signature # "struct" => x = old.value)
    BY <1>3, WidgetParts
  <2> HIDE DEF x
  <2>4. /\ new \in Panel!Widget /\ new.kind = old.kind /\ new.signature = old.signature
        /\ new.rep = old.rep /\ new.range = old.range /\ new.value = x
        /\ new.actions = old.actions /\ new.buttons = old.buttons
    BY <1>3, <2>3 DEF Panel!Widget
  <2> HIDE DEF new
  <2>5. Sound(new, i, refused', remote')
    BY <1>1, <1>3, <1>7, <2>3, <2>4 DEF Sound
  <2> QED BY <1>1, <1>2, <1>7, <2>2, <2>4, <2>5, OneWidgetKeeps DEF HistoryShape
<1> QED BY <1>4, <1>5, <1>6, <1>7

\* Nothing is there at first, and after the heap was destroyed (Restart).
LEMMA EmptyPanel ==
  ASSUME Sized, panels = 0, held = {}, live = {}, widgets = <<>>, kit = TRUE, list = "null",
         objects = 0, session = FALSE, stale = {}, refused = {}, remote = {}, running = 0,
         reply = "none"
  PROVE  PanelInv
<1>1. widgets \in Seq(Panel!Widget) /\ Len(widgets) = 0
  OBVIOUS
<1>2. WidgetsSound
  BY <1>1 DEF WidgetsSound
<1>3. PanelShape
  <2>1. 0 \in 0..MaxPanels /\ 0 \in 0..MaxWidgets
    BY DEF Sized
  <2> QED BY <2>1 DEF PanelShape
<1>4. HistoryShape
  <2>1. 0 \in 0..MaxWidgets
    BY DEF Sized
  <2> QED BY <2>1 DEF HistoryShape
<1>5. Len(widgets) <= MaxWidgets
  BY <1>1 DEF Sized
<1>6. Panel!TypeOK
  BY <1>2, <1>3, <1>4, <1>5, PanelTypes
<1>7. AllStaleKnown /\ NoSessionNoneStale /\ Panel!ObjectsBacked
  BY DEF AllStaleKnown, NoSessionNoneStale, Panel!ObjectsBacked
<1>8. SessionNeedsList
  BY DEF SessionNeedsList
<1> QED BY <1>2, <1>6, <1>7, <1>8 DEF PanelInv

LEMMA RestartKeeps ==
  ASSUME Sized, PanelInv, Panel!Restart
  PROVE  PanelInv'
<1>1. /\ panels' = 0 /\ held' = {} /\ live' = {} /\ widgets' = <<>> /\ kit' = TRUE
      /\ list' = "null" /\ objects' = 0 /\ session' = FALSE /\ stale' = {} /\ refused' = {}
      /\ remote' = {} /\ running' = 0 /\ reply' = "none"
  BY DEF Panel!Restart, Panel!AJS_CP_Terminate
<1>2. widgets' \in Seq(Panel!Widget) /\ Len(widgets') = 0
  BY <1>1
<1>3. WidgetsSound'
  BY <1>2 DEF WidgetsSound
<1>4. PanelShape'
  <2>1. 0 \in 0..MaxPanels /\ 0 \in 0..MaxWidgets
    BY DEF Sized
  <2> QED BY <1>1, <2>1 DEF PanelShape
<1>5. HistoryShape'
  <2>1. 0 \in 0..MaxWidgets
    BY DEF Sized
  <2> QED BY <1>1, <2>1 DEF HistoryShape
<1>6. Len(widgets') <= MaxWidgets
  BY <1>2 DEF Sized
<1>7. Panel!TypeOK'
  BY <1>3, <1>4, <1>5, <1>6 DEF Panel!TypeOK, PanelShape, HistoryShape, WidgetsSound
<1>8. AllStaleKnown' /\ NoSessionNoneStale' /\ Panel!ObjectsBacked'
  BY <1>1 DEF AllStaleKnown, NoSessionNoneStale, Panel!ObjectsBacked
<1>9. SessionNeedsList'
  BY <1>1 DEF SessionNeedsList
<1> QED BY <1>3, <1>7, <1>8, <1>9 DEF PanelInv

LEMMA PanelImplied ==
  ASSUME Sized, PanelInv
  PROVE  Panel!PanelTruthful
<1>1. /\ WidgetsSound /\ PanelShape /\ HistoryShape /\ Panel!ObjectsBacked
      /\ \A i \in 1..Len(widgets) : Sound(widgets[i], i, refused, remote)
  BY PanelTypes DEF PanelInv, WidgetsSound
<1>2. Panel!SliderValues
  BY <1>1 DEF Panel!SliderValues, Sound
<1>3. Panel!ActionsBacked
  BY <1>1 DEF Panel!ActionsBacked, Sound
<1>4. Panel!ControllerKnows
  <2>1. ASSUME list = "live", NEW c \in stale, c[1] = "value", c[2] <= objects
        PROVE  widgets[c[2]].range # Panel!NoRange
    <3>1. c[2] \in Panel!Indices /\ objects \in Nat /\ StaleKnown(c)
      BY <1>1, <2>1 DEF PanelInv, AllStaleKnown, PanelShape, HistoryShape
    <3>2. objects > 0
      BY <2>1, <3>1 DEF Panel!Indices, Sized
    <3>3. kit
      BY <1>1, <2>1, <3>2 DEF Panel!ObjectsBacked
    <3> QED BY <2>1, <3>1, <3>3 DEF StaleKnown
  <2> QED BY <2>1 DEF Panel!ControllerKnows
<1> QED BY <1>1, <1>2, <1>3, <1>4 DEF Panel!PanelTruthful

\* What a controller sees of a control panel is what the script has made of it: bus
\* objects lead to widgets, a slider is in its range and read as it was written, the
\* controller knows the values, a dialog has its buttons; but for what a setter that
\* threw and a range that was set have left, through reloads, restarts and sessions.
THEOREM PanelStaysTruthful ==
  Sized => (Panel!Spec => [](Panel!TypeOK /\ Panel!PanelTruthful))
<1> SUFFICES ASSUME Sized
             PROVE  Panel!Spec => [](Panel!TypeOK /\ Panel!PanelTruthful)
  OBVIOUS
<1>1. Panel!Init => PanelInv
  BY EmptyPanel DEF Panel!Init
<1>2. PanelInv /\ [Panel!Next]_Panel!vars => PanelInv'
  <2> SUFFICES ASSUME PanelInv, [Panel!Next]_Panel!vars
               PROVE  PanelInv'
    OBVIOUS
  <2>1. CASE UNCHANGED Panel!vars
    <3>1. /\ UNCHANGED <<panels, held, live, kit, widgets, list, objects, session>>
          /\ UNCHANGED <<stale, refused, remote, running, reply>>
      BY <2>1 DEF Panel!vars, Panel!panelVars, Panel!busVars, Panel!history, Panel!callVars
    <3>2. PanelShape /\ HistoryShape
      BY PanelTypes DEF PanelInv
    <3>3. PanelShape' /\ HistoryShape'
      BY <3>1, <3>2 DEF PanelShape, HistoryShape
    <3>4. NoSessionNoneStale' /\ SessionNeedsList' /\ Panel!ObjectsBacked'
      BY <3>1 DEF PanelInv, NoSessionNoneStale, SessionNeedsList, Panel!ObjectsBacked
    <3> QED BY <3>1, <3>3, <3>4, ArrayKept
  <2>2. CASE \/ Panel!NativeLabelWidget \/ Panel!NativePropertyWidget
             \/ Panel!NativeDialogWidget \/ Panel!NativeActionWidget
             \/ Panel!NativeContainerWidget
    <3>1. \E kind \in WidgetKinds : Panel!AddWidget(kind)
      BY <2>2 DEF Panel!NativeLabelWidget, Panel!NativePropertyWidget, Panel!PropertyKinds,
                  Panel!NativeDialogWidget, Panel!NativeActionWidget,
                  Panel!NativeContainerWidget
    <3> QED BY <3>1, AddingKeeps
  <2>3. CASE \/ Panel!Drop \/ Panel!SessionStarts \/ Panel!SessionLost
             \/ Panel!HandlerReturns
             \/ \E i \in Panel!Indices : Panel!CPSMessageHandler(i) \/ Panel!ExecuteAction(i)
    BY <2>3, ReadersKeep
  <2>4. CASE \E i \in Panel!Indices : Panel!SetWidgetProp(i)
    BY <2>4, WriteKeeps
  <2>5. CASE Panel!NativeControlPanel \/ Panel!Setter \/ Panel!NativeLoadControlPanel
    BY <2>5, PanelKeeps, SetterKeeps, LoadKeeps
  <2>6. CASE Panel!NativeControlPanelFinalizer \/ Panel!Restart
    BY <2>6, FinalizerKeeps, RestartKeeps
  <2> QED BY <2>1, <2>2, <2>3, <2>4, <2>5, <2>6
          DEF Panel!Next, Panel!Script, Panel!Controller
<1>3. PanelInv => Panel!TypeOK /\ Panel!PanelTruthful
  BY PanelImplied DEF PanelInv
<1> QED BY <1>1, <1>2, <1>3, PTL DEF Panel!Spec
-----------------------------------------------------------------------------
(* Input pins and their triggers                                           *)

\* A pin with a trigger is watched, or the thread was told to look, or it has yet
\* to come to the slot of the trigger.
Scanned ==
  thread \in {"check", "use", "select"} =>
    \A o \in live : trigId[o] # Pins!NoTrigger =>
      o \in watch \/ reset \/ (thread # "select" /\ slot <= trigId[o])

\* The thread goes through the list from its front.
Front == thread \in {"select", "fired", "interrupt"} => slot = 0

\* A trigger that has fired and is nobody's was left over by a pin that was closed.
LeftOver == \A i \in trigSet : triggers[i] = Pins!None => i \in left

PinsInv ==
  /\ Pins!TypeOK
  /\ Pins!NoLostWakeUp
  /\ Front /\ Scanned
  /\ Pins!TriggersAgree
  /\ Pins!FiredByEdge /\ LeftOver

-----------------------------------------------------------------------------
(* Slots                                                                   *)

\* The slot that PinEnableTrigger takes is a free one.
LEMMA FirstIsFree ==
  ASSUME Wired, Pins!FreeSlots # {}
  PROVE  Pins!FirstFree \in Pins!Slots /\ triggers[Pins!FirstFree] = Pins!None
<1>1. Pins!FreeSlots \subseteq Nat
  BY DEF Wired, Pins!FreeSlots, Pins!Slots
<1>2. PICK m \in Pins!FreeSlots : \A i \in Pins!FreeSlots : ~(<<i, m>> \in OpToRel(<, Nat))
  BY <1>1, NatLessThanWellFounded, WFMin, Zenon
<1>3. \A i \in Pins!FreeSlots : <<i, m>> \in Nat \X Nat /\ <<i, m>>[1] = i /\ <<i, m>>[2] = m
  BY <1>1
<1>4. \A i \in Pins!FreeSlots : ~(i < m)
  BY <1>2, <1>3, Zenon DEF OpToRel
<1>5. \A i \in Pins!FreeSlots : m <= i
  BY <1>1, <1>4
<1>6. Pins!FirstFree \in Pins!FreeSlots
  BY <1>5, Zenon DEF Pins!FirstFree
<1> QED BY <1>6 DEF Pins!FreeSlots

\* How far a trigger is from the one that was served last.
TriggerDistance(i) == (i + MaxTriggers - last) % MaxTriggers

\* The trigger that ServiceIO takes is one that has fired.
LEMMA ServedHasFired ==
  ASSUME Wired, Pins!TypeOK, trigSet # {}
  PROVE  Pins!PinTrigId \in trigSet
<1>1. trigSet \subseteq Pins!Slots /\ last \in Pins!Slots
  BY DEF Pins!TypeOK
<1>2. \A i \in trigSet : TriggerDistance(i) \in Nat
  BY <1>1 DEF Wired, Pins!Slots, TriggerDistance
<1> DEFINE Distances == {TriggerDistance(i) : i \in trigSet}
<1>3. Distances # {} /\ Distances \subseteq Nat
  BY <1>2
<1> HIDE DEF Distances
<1>4. PICK d \in Distances : \A e \in Distances : ~(<<e, d>> \in OpToRel(<, Nat))
  BY <1>3, NatLessThanWellFounded, WFMin, Zenon
<1>5. \A e \in Distances : <<e, d>> \in Nat \X Nat /\ <<e, d>>[1] = e /\ <<e, d>>[2] = d
  BY <1>3
<1>6. \A e \in Distances : ~(e < d)
  BY <1>4, <1>5, Zenon DEF OpToRel
<1>7. \A e \in Distances : d <= e
  BY <1>3, <1>6
<1>8. PICK i \in trigSet : \A j \in trigSet : TriggerDistance(i) <= TriggerDistance(j)
  BY <1>7 DEF Distances
<1> QED BY <1>8 DEF Pins!PinTrigId, TriggerDistance

\* The thread goes on in its list, or from its end to select.
LEMMA NextSlotIs ==
  ASSUME Wired, slot \in Pins!Slots, Pins!NextSlot
  PROVE  /\ slot' \in Pins!Slots /\ thread' \in {"check", "select"}
         /\ thread' = "check" => slot' = slot + 1
         /\ thread' = "select" => slot' = 0 /\ slot = MaxTriggers - 1
BY DEF Wired, Pins!Slots, Pins!NextSlot

-----------------------------------------------------------------------------
(* The steps that change triggers                                          *)

\* SetTriggerCallback puts its pin into a slot that was free.
LEMMA SetDoes ==
  ASSUME Wired, Pins!TypeOK, Pins!SetTriggerCallback
  PROVE  \E o \in held, i \in Pins!Slots :
           /\ triggers[i] = Pins!None
           /\ triggers' = [triggers EXCEPT ![i] = o] /\ trigId' = [trigId EXCEPT ![o] = i]
           /\ trigs' = [trigs EXCEPT ![i] = o] /\ callback' = callback \union {o}
           /\ earned' = earned \ {i}
BY FirstIsFree DEF Pins!SetTriggerCallback, Pins!PinEnableTrigger

\* ClearTriggerCallback gives up the slot of its pin, if it has one.
LEMMA ClearDoes ==
  ASSUME Pins!TypeOK, Pins!ClearTriggerCallback
  PROVE  \E o \in held :
           /\ callback' = callback \ {o}
           /\ \/ trigId[o] = Pins!NoTrigger
                 /\ UNCHANGED <<triggers, trigSet, trigId, earned, left, trigs, reset>>
              \/ trigId[o] \in Pins!Slots
                 /\ triggers' = [triggers EXCEPT ![trigId[o]] = Pins!None]
                 /\ trigs' = [trigs EXCEPT ![trigId[o]] = Pins!None]
                 /\ trigId' = [trigId EXCEPT ![o] = Pins!NoTrigger]
                 /\ trigSet' = trigSet \ {trigId[o]} /\ earned' = earned \ {trigId[o]}
                 /\ left' = left \ {trigId[o]} /\ reset' = (thread # "off")
<1>1. PICK o \in held : Pins!PinDisableTrigger(o) /\ callback' = callback \ {o}
  BY DEF Pins!ClearTriggerCallback
<1>2. o \in Objs /\ trigId[o] \in Pins!Slots \union {Pins!NoTrigger}
  BY DEF Pins!TypeOK
<1>3. CASE trigId[o] = Pins!NoTrigger
  BY <1>1, <1>3 DEF Pins!PinDisableTrigger
<1>4. CASE trigId[o] # Pins!NoTrigger
  BY <1>1, <1>2, <1>4 DEF Pins!PinDisableTrigger, Pins!ResetTriggerThread
<1> QED BY <1>3, <1>4

\* Closing pins frees their slots and marks those of them that have fired.
LEMMA CloseDoes ==
  ASSUME Wired, Pins!TypeOK, Pins!TriggersAgree, NEW closed \in SUBSET Objs, Pins!PinClose(closed)
  PROVE  /\ live' = live \ closed /\ callback' = callback \ closed /\ edge' = edge \ closed
         /\ \A o \in Objs : trigId'[o] = IF o \in closed THEN Pins!NoTrigger ELSE trigId[o]
         /\ \A i \in Pins!Slots : triggers'[i] \in {Pins!None, triggers[i]}
         /\ \A o \in Objs : trigId'[o] # Pins!NoTrigger => triggers'[trigId[o]] = triggers[trigId[o]]
         /\ \A i \in Pins!Slots :
              triggers[i] # Pins!None /\ triggers'[i] = Pins!None /\ i \in trigSet => i \in left'
         /\ left \subseteq left' /\ left' \subseteq left \union trigSet
         /\ earned' \subseteq earned /\ earned \ earned' \subseteq {i \in Pins!Slots : triggers'[i] = Pins!None}
         /\ \A i \in trigSet : i \in earned => i \in earned' \/ i \in left'
         /\ triggers' \in [Pins!Slots -> Objs \union {Pins!None}]
         /\ trigId' \in [Objs -> Pins!Slots \union {Pins!NoTrigger}]
<1> DEFINE of == {trigId[o] : o \in closed} \ {Pins!NoTrigger}
<1>1. /\ live' = live \ closed /\ callback' = callback \ closed /\ edge' = edge \ closed
      /\ triggers' = [i \in Pins!Slots |-> IF i \in of THEN Pins!None ELSE triggers[i]]
      /\ trigId' = [o \in Objs |-> IF o \in closed THEN Pins!NoTrigger ELSE trigId[o]]
      /\ earned' = earned \ of /\ left' = left \union (trigSet \intersect of)
  BY DEF Pins!PinClose
<1>2. /\ trigId \in [Objs -> Pins!Slots \union {Pins!NoTrigger}] /\ of \subseteq Pins!Slots
      /\ triggers \in [Pins!Slots -> Objs \union {Pins!None}]
  BY DEF Pins!TypeOK
<1>3. ASSUME NEW o \in Objs \ closed, trigId[o] # Pins!NoTrigger
      PROVE  trigId[o] \notin of
  <2>1. ASSUME NEW p \in closed, trigId[p] = trigId[o]
        PROVE  FALSE
    <3>1. triggers[trigId[o]] = o /\ triggers[trigId[p]] = p
      BY <1>3, <2>1 DEF Pins!TriggersAgree
    <3> QED BY <2>1, <3>1
  <2> QED BY <2>1
<1>4. \A o \in Objs : trigId'[o] # Pins!NoTrigger => triggers'[trigId[o]] = triggers[trigId[o]]
  <2>1. ASSUME NEW o \in Objs, trigId'[o] # Pins!NoTrigger
        PROVE  triggers'[trigId[o]] = triggers[trigId[o]]
    <3>1. o \notin closed /\ trigId[o] # Pins!NoTrigger /\ trigId[o] \in Pins!Slots
      BY <1>1, <1>2, <2>1
    <3>2. trigId[o] \notin of
      BY <1>3, <3>1
    <3> HIDE DEF of
    <3> QED BY <1>1, <3>1, <3>2
  <2> QED BY <2>1
<1> HIDE DEF of
<1>5. triggers' \in [Pins!Slots -> Objs \union {Pins!None}] /\ trigId' \in [Objs -> Pins!Slots \union {Pins!NoTrigger}]
  BY <1>1, <1>2
<1> QED BY <1>1, <1>2, <1>4, <1>5

-----------------------------------------------------------------------------
(* Types                                                                   *)

LEMMA PinsTypeKept ==
  ASSUME Wired, Pins!TypeOK, Pins!TriggersAgree, [Pins!Next]_Pins!vars
  PROVE  Pins!TypeOK'
<1>1. /\ live \subseteq Objs /\ held \subseteq live /\ callback \subseteq live
      /\ trigId \in [Objs -> Pins!Slots \union {Pins!NoTrigger}] /\ trigSet \subseteq Pins!Slots /\ 0 \in Pins!Slots
      /\ trigs \in [Pins!Slots -> Objs \union {Pins!None}] /\ triggers \in [Pins!Slots -> Objs \union {Pins!None}]
      /\ earned \subseteq Pins!Slots /\ left \subseteq Pins!Slots /\ slot \in Pins!Slots
  BY DEF Pins!TypeOK, Wired, Pins!Slots
<1>2. CASE Pins!NativeIoDigitalIn
  BY <1>1, <1>2 DEF Pins!TypeOK, Pins!NativeIoDigitalIn, Pins!driverVars, Pins!threadVars
<1>3. CASE Pins!Drop
  BY <1>1, <1>3 DEF Pins!TypeOK, Pins!Drop, Pins!driverVars, Pins!threadVars
<1>4. CASE Pins!SetTriggerCallback
  <2>1. PICK o \in held, i \in Pins!Slots :
          /\ triggers' = [triggers EXCEPT ![i] = o] /\ trigId' = [trigId EXCEPT ![o] = i]
          /\ trigs' = [trigs EXCEPT ![i] = o] /\ callback' = callback \union {o}
          /\ earned' = earned \ {i}
    BY <1>4, SetDoes
  <2>2. /\ thread' \in {thread, "check"} /\ slot' \in {slot, 0} /\ watch' \in {watch, {}}
        /\ reset' \in BOOLEAN
        /\ UNCHANGED <<live, held, trigSet, last, left, edge, loop, interrupt>>
    <3>1. reset' \in BOOLEAN
      BY <1>4, Zenon DEF Pins!SetTriggerCallback, Pins!ResetTriggerThread
    <3> QED BY <1>4, <3>1 DEF Pins!SetTriggerCallback, Pins!InitTriggerThread
  <2> QED BY <1>1, <2>1, <2>2 DEF Pins!TypeOK
<1>5. CASE Pins!ClearTriggerCallback
  <2>1. UNCHANGED <<live, held, last, edge, thread, slot, watch, loop, interrupt>>
    BY <1>5 DEF Pins!ClearTriggerCallback
  <2>2. PICK o \in held :
           /\ callback' = callback \ {o}
           /\ \/ UNCHANGED <<triggers, trigSet, trigId, earned, left, trigs, reset>>
              \/ /\ triggers' = [triggers EXCEPT ![trigId[o]] = Pins!None]
                 /\ trigs' = [trigs EXCEPT ![trigId[o]] = Pins!None]
                 /\ trigId' = [trigId EXCEPT ![o] = Pins!NoTrigger]
                 /\ trigSet' = trigSet \ {trigId[o]} /\ earned' = earned \ {trigId[o]}
                 /\ left' = left \ {trigId[o]} /\ reset' = (thread # "off")
    BY <1>5, ClearDoes
  <2>3. reset' = reset \/ reset' = (thread # "off")
    BY <2>2
  <2>4. reset' \in BOOLEAN
    BY <2>3, Zenon DEF Pins!TypeOK
  <2> QED BY <1>1, <2>1, <2>2, <2>4 DEF Pins!TypeOK
<1>6. CASE Pins!NativePinFinalizer
  <2>1. PICK o \in live \ Pins!Referenced : Pins!PinClose({o})
    BY <1>6 DEF Pins!NativePinFinalizer
  <2>2. /\ UNCHANGED <<held, trigs, trigSet, last, thread, slot, watch, reset, loop, interrupt>>
        /\ o \notin held /\ {o} \in SUBSET Objs
    BY <1>1, <1>6, <2>1 DEF Pins!NativePinFinalizer, Pins!Referenced
  <2> QED BY <1>1, <2>1, <2>2, CloseDoes DEF Pins!TypeOK
<1>7. CASE Pins!Restart
  <2>1. /\ Pins!PinClose(live) /\ held' = {} /\ trigs' = [i \in Pins!Slots |-> Pins!None] /\ loop' = "script"
        /\ UNCHANGED <<trigSet, last, thread, slot, watch, reset, interrupt>>
    BY <1>7 DEF Pins!Restart
  <2> QED BY <1>1, <2>1, CloseDoes DEF Pins!TypeOK
<1>8. CASE Pins!ServiceIO
  <2>1. Pins!PinTrigId \in Pins!Slots
    BY <1>1, <1>8, ServedHasFired DEF Pins!ServiceIO
  <2> QED BY <1>1, <1>8, <2>1 DEF Pins!TypeOK, Pins!ServiceIO, Pins!scriptVars, Pins!threadVars
<1>9. CASE Pins!CallbackReturns \/ Pins!Pass \/ Pins!Wakes
  BY <1>9 DEF Pins!TypeOK, Pins!CallbackReturns, Pins!Pass, Pins!Wakes, Pins!scriptVars, Pins!driverVars, Pins!threadVars
<1>10. CASE Pins!Edge
  BY <1>1, <1>10 DEF Pins!TypeOK, Pins!Edge, Pins!scriptVars, Pins!driverVars
<1>11. CASE Pins!ListTriggers
  <2>1. /\ slot' \in Pins!Slots /\ thread' \in {"check", "use", "select"}
        /\ watch' = watch \/ (triggers[slot] \in live /\ watch' = watch \union {triggers[slot]})
        /\ loop' \in {loop, "crashed"}
        /\ UNCHANGED <<Pins!scriptVars, Pins!driverVars, edge, reset, interrupt>>
    BY <1>1, <1>11, NextSlotIs DEF Pins!ListTriggers, Pins!Crash
  <2> QED BY <1>1, <2>1 DEF Pins!TypeOK, Pins!scriptVars, Pins!driverVars
<1>12. CASE Pins!Select
  BY <1>1, <1>12 DEF Pins!TypeOK, Pins!Select, Pins!scriptVars, Pins!driverVars
<1>13. CASE Pins!Fired
  <2>1. /\ trigSet' \subseteq Pins!Slots /\ earned' \subseteq Pins!Slots /\ edge' \subseteq edge
        /\ loop' \in {loop, "crashed"} /\ thread' = "interrupt" /\ watch' = {}
        /\ UNCHANGED <<Pins!scriptVars, trigId, triggers, last, left, slot, reset, interrupt>>
    BY <1>1, <1>13 DEF Pins!Fired, Pins!Crash
  <2> QED BY <1>1, <2>1 DEF Pins!TypeOK, Pins!scriptVars
<1>14. CASE Pins!Interrupt
  <2>1. interrupt' \in BOOLEAN
    BY <1>14, Zenon DEF Pins!TypeOK, Pins!Interrupt
  <2> QED BY <1>14, <2>1 DEF Pins!TypeOK, Pins!Interrupt, Pins!scriptVars, Pins!driverVars
<1>15. CASE Pins!StartAgain
  BY <1>1, <1>15 DEF Pins!TypeOK, Pins!StartAgain
<1>16. CASE UNCHANGED Pins!vars
  BY <1>16 DEF Pins!TypeOK, Pins!vars, Pins!scriptVars, Pins!driverVars, Pins!threadVars
<1> QED
  BY <1>2, <1>3, <1>4, <1>5, <1>6, <1>7, <1>8, <1>9, <1>10, <1>11, <1>12, <1>13, <1>14, <1>15,
     <1>16 DEF Pins!Next

-----------------------------------------------------------------------------
(* The driver and the script                                               *)

\* The slot of a trigger is the same in the driver and in the IO object.
LEMMA AgreeKept ==
  ASSUME Wired, Pins!TypeOK, Pins!TriggersAgree, [Pins!Next]_Pins!vars
  PROVE  Pins!TriggersAgree'
<1>1. /\ live \subseteq Objs /\ held \subseteq live
      /\ trigId \in [Objs -> Pins!Slots \union {Pins!NoTrigger}] /\ Pins!NoTrigger \notin Pins!Slots
      /\ trigs \in [Pins!Slots -> Objs \union {Pins!None}] /\ triggers \in [Pins!Slots -> Objs \union {Pins!None}]
  BY DEF Pins!TypeOK, Wired, Pins!Slots, Pins!NoTrigger
<1>2. CASE /\ UNCHANGED <<callback, trigs, trigId, triggers>> /\ live \subseteq live'
  BY <1>2 DEF Pins!TriggersAgree
<1>3. CASE Pins!SetTriggerCallback
  <2>1. PICK o \in held, i \in Pins!Slots :
          /\ triggers[i] = Pins!None
          /\ triggers' = [triggers EXCEPT ![i] = o] /\ trigId' = [trigId EXCEPT ![o] = i]
          /\ trigs' = [trigs EXCEPT ![i] = o] /\ callback' = callback \union {o}
    BY <1>3, SetDoes
  <2>2. live' = live
    BY <1>3 DEF Pins!SetTriggerCallback
  <2>3. ASSUME NEW p \in Objs, trigId'[p] # Pins!NoTrigger
        PROVE  /\ p \in live' /\ p \in callback'
               /\ triggers'[trigId'[p]] = p /\ trigs'[trigId'[p]] = p
    <3>1. CASE p = o
      BY <1>1, <2>1, <2>2, <3>1
    <3>2. CASE p # o
      <4>1. trigId'[p] = trigId[p] /\ trigId[p] \in Pins!Slots
        BY <1>1, <2>1, <2>3, <3>2
      <4>2. /\ p \in live /\ p \in callback
            /\ triggers[trigId[p]] = p /\ trigs[trigId[p]] = p
        BY <2>3, <4>1 DEF Pins!TriggersAgree
      <4>3. trigId[p] # i
        BY <2>1, <4>2 DEF Wired
      <4> QED BY <1>1, <2>1, <2>2, <4>1, <4>2, <4>3
    <3> QED BY <3>1, <3>2
  <2> QED BY <2>3 DEF Pins!TriggersAgree
<1>4. CASE Pins!ClearTriggerCallback
  <2>1. PICK o \in held :
           /\ callback' = callback \ {o}
           /\ \/ trigId[o] = Pins!NoTrigger /\ UNCHANGED <<triggers, trigId, trigs>>
              \/ trigId[o] \in Pins!Slots
                 /\ triggers' = [triggers EXCEPT ![trigId[o]] = Pins!None]
                 /\ trigs' = [trigs EXCEPT ![trigId[o]] = Pins!None]
                 /\ trigId' = [trigId EXCEPT ![o] = Pins!NoTrigger]
    BY <1>4, ClearDoes
  <2>2. live' = live
    BY <1>4 DEF Pins!ClearTriggerCallback
  <2>3. ASSUME NEW p \in Objs, trigId'[p] # Pins!NoTrigger
        PROVE  /\ p \in live' /\ p \in callback'
               /\ triggers'[trigId'[p]] = p /\ trigs'[trigId'[p]] = p
    <3>1. p # o /\ trigId'[p] = trigId[p] /\ trigId[p] \in Pins!Slots
      BY <1>1, <2>1, <2>3
    <3>2. /\ p \in live /\ p \in callback
          /\ triggers[trigId[p]] = p /\ trigs[trigId[p]] = p
      BY <2>3, <3>1 DEF Pins!TriggersAgree
    <3>3. trigId[o] = Pins!NoTrigger \/ trigId[o] # trigId[p]
      BY <1>1, <3>1, <3>2 DEF Pins!TriggersAgree
    <3> QED BY <1>1, <2>1, <2>2, <3>1, <3>2, <3>3
  <2> QED BY <2>3 DEF Pins!TriggersAgree
<1>5. CASE Pins!NativePinFinalizer
  <2>1. PICK o \in live : Pins!PinClose({o})
    BY <1>5 DEF Pins!NativePinFinalizer
  <2>2. trigs' = trigs /\ {o} \in SUBSET Objs
    BY <1>1, <1>5 DEF Pins!NativePinFinalizer
  <2> QED BY <1>1, <2>1, <2>2, CloseDoes DEF Pins!TriggersAgree
<1>6. CASE Pins!Restart
  <2>1. Pins!PinClose(live)
    BY <1>6 DEF Pins!Restart
  <2>2. \A o \in Objs : trigId'[o] = Pins!NoTrigger
    BY <1>1, <2>1, CloseDoes DEF Pins!TriggersAgree
  <2> QED BY <2>2 DEF Pins!TriggersAgree
<1>7. CASE Pins!StartAgain
  BY <1>7 DEF Pins!StartAgain, Pins!TriggersAgree
<1>8. CASE UNCHANGED Pins!vars
  BY <1>2, <1>8 DEF Pins!vars, Pins!scriptVars, Pins!driverVars
<1> QED
  BY <1>2, <1>3, <1>4, <1>5, <1>6, <1>7, <1>8
  DEF Pins!Next, Pins!NativeIoDigitalIn, Pins!Drop, Pins!ServiceIO, Pins!CallbackReturns, Pins!Pass, Pins!Wakes, Pins!Edge, Pins!ListTriggers,
      Pins!Select, Pins!Fired, Pins!Interrupt, Pins!scriptVars, Pins!driverVars

-----------------------------------------------------------------------------
(* The thread                                                              *)

\* A trigger that fires while the loop waits is followed by an interrupt.
LEMMA WakeKept ==
  ASSUME Pins!NoLostWakeUp, [Pins!Next]_Pins!vars
  PROVE  Pins!NoLostWakeUp'
<1> USE DEF Pins!NoLostWakeUp
<1>1. CASE UNCHANGED <<loop, trigSet, interrupt, thread>>
  BY <1>1
<1>2. CASE loop' \in {"script", "callback", "service", "crashed"}
  BY <1>2
<1>3. CASE Pins!Running /\ loop' = loop
  BY <1>3 DEF Pins!Running
<1>4. CASE Pins!Pass
  BY <1>4 DEF Pins!Pass, Pins!driverVars
<1>5. CASE Pins!ListTriggers
  BY <1>5 DEF Pins!ListTriggers, Pins!NextSlot, Pins!Crash, Pins!driverVars
<1>6. CASE Pins!Select
  BY <1>6 DEF Pins!Select, Pins!driverVars
<1>7. CASE Pins!Fired
  BY <1>7 DEF Pins!Fired
<1>8. CASE Pins!Interrupt
  BY <1>8 DEF Pins!Interrupt, Pins!driverVars
<1>9. CASE UNCHANGED Pins!vars
  BY <1>1, <1>9 DEF Pins!vars, Pins!driverVars, Pins!threadVars
<1> QED
  BY <1>1, <1>2, <1>3, <1>4, <1>5, <1>6, <1>7, <1>8, <1>9
  DEF Pins!Next, Pins!NativeIoDigitalIn, Pins!Drop, Pins!SetTriggerCallback, Pins!ClearTriggerCallback,
      Pins!NativePinFinalizer, Pins!Restart, Pins!ServiceIO, Pins!CallbackReturns, Pins!Wakes, Pins!Edge, Pins!StartAgain,
      Pins!driverVars, Pins!threadVars

\* The thread never passes over the slot of a pin that it does not watch, unless
\* it was told to look again.
LEMMA ScanKept ==
  ASSUME Wired, Pins!TypeOK, Pins!TriggersAgree, Front, Scanned, [Pins!Next]_Pins!vars
  PROVE  Front' /\ Scanned'
<1>1. /\ live \subseteq Objs /\ held \subseteq live /\ slot \in Pins!Slots
      /\ trigId \in [Objs -> Pins!Slots \union {Pins!NoTrigger}] /\ Pins!NoTrigger \notin Pins!Slots
      /\ Pins!Slots \subseteq Nat /\ 0 \in Pins!Slots
  BY DEF Pins!TypeOK, Wired, Pins!Slots, Pins!NoTrigger
<1>2. CASE /\ UNCHANGED <<thread, slot, watch, reset>>
           /\ \A o \in live' : trigId'[o] # Pins!NoTrigger => o \in live /\ trigId'[o] = trigId[o]
  BY <1>2 DEF Front, Scanned
<1>3. CASE UNCHANGED <<live, trigId, thread, slot, watch, reset>>
  BY <1>2, <1>3
<1>4. CASE Pins!NativeIoDigitalIn
  <2>1. PICK o \in Objs \ live : live' = live \union {o}
    BY <1>4 DEF Pins!NativeIoDigitalIn
  <2>2. trigId[o] = Pins!NoTrigger
    BY <2>1 DEF Pins!TriggersAgree
  <2> QED BY <1>2, <1>4, <2>1, <2>2 DEF Pins!NativeIoDigitalIn, Pins!driverVars, Pins!threadVars
<1>5. CASE Pins!SetTriggerCallback
  <2>1. PICK o \in held, i \in Pins!Slots : trigId' = [trigId EXCEPT ![o] = i]
    BY <1>5, SetDoes
  <2>2. CASE thread = "off"
    <3>1. thread' = "check" /\ slot' = 0 /\ watch' = {}
      BY <1>5, <2>2 DEF Pins!SetTriggerCallback, Pins!InitTriggerThread
    <3>2. \A p \in Objs : trigId'[p] # Pins!NoTrigger => 0 <= trigId'[p]
      <4>1. trigId' \in [Objs -> Pins!Slots \union {Pins!NoTrigger}]
        BY <1>1, <2>1
      <4>2. \A p \in Objs : trigId'[p] # Pins!NoTrigger => trigId'[p] \in Nat
        BY <1>1, <4>1
      <4> QED BY <4>2
    <3>3. live' = live
      BY <1>5 DEF Pins!SetTriggerCallback
    <3> QED BY <1>1, <3>1, <3>2, <3>3 DEF Front, Scanned
  <2>3. CASE thread # "off"
    <3>1. UNCHANGED <<thread, slot>> /\ reset'
      BY <1>5, <2>3 DEF Pins!SetTriggerCallback, Pins!InitTriggerThread, Pins!ResetTriggerThread
    <3> QED BY <3>1 DEF Front, Scanned
  <2> QED BY <2>2, <2>3
<1>6. CASE Pins!ClearTriggerCallback
  <2>1. UNCHANGED <<live, thread, slot, watch>>
    BY <1>6 DEF Pins!ClearTriggerCallback
  <2>2. UNCHANGED <<trigId, reset>> \/ reset' = (thread # "off")
    BY <1>6, ClearDoes
  <2>3. CASE UNCHANGED <<trigId, reset>>
    BY <1>2, <2>1, <2>3
  <2>4. CASE reset' = (thread # "off")
    BY <2>1, <2>4 DEF Front, Scanned
  <2> QED BY <2>2, <2>3, <2>4
<1>7. CASE Pins!NativePinFinalizer \/ Pins!Restart
  <2>1. PICK closed \in SUBSET live : Pins!PinClose(closed)
    BY <1>7 DEF Pins!NativePinFinalizer, Pins!Restart
  <2>2. /\ live' \subseteq live
        /\ \A o \in live' : trigId'[o] # Pins!NoTrigger => o \in live /\ trigId'[o] = trigId[o]
    BY <1>1, <2>1, CloseDoes
  <2>3. UNCHANGED <<thread, slot, watch, reset>>
    BY <1>7 DEF Pins!NativePinFinalizer, Pins!Restart
  <2> QED BY <1>2, <2>2, <2>3
<1>8. CASE Pins!ListTriggers
  <2>1. UNCHANGED <<live, trigId, reset, triggers>>
    BY <1>8 DEF Pins!ListTriggers, Pins!scriptVars, Pins!driverVars
  <2>2. CASE thread = "check" /\ triggers[slot] # Pins!None
    <3>1. thread' = "use" /\ UNCHANGED <<slot, watch>>
      BY <1>8, <2>2 DEF Pins!ListTriggers
    <3> QED BY <2>1, <2>2, <3>1 DEF Front, Scanned
  <2>3. CASE \/ thread = "check" /\ triggers[slot] = Pins!None /\ watch' = watch
             \/ /\ thread = "use" /\ triggers[slot] \in live
                /\ watch' = watch \union {triggers[slot]}
    <3>1. Pins!NextSlot
      BY <1>8, <2>3 DEF Pins!ListTriggers, Wired
    <3>2. /\ thread' \in {"check", "select"}
          /\ thread' = "check" => slot' = slot + 1
          /\ thread' = "select" => slot' = 0 /\ slot = MaxTriggers - 1
      BY <1>1, <3>1, NextSlotIs
    <3>3. ASSUME NEW o \in live, trigId[o] # Pins!NoTrigger
          PROVE  o \in watch' \/ reset \/ (thread' # "select" /\ slot' <= trigId[o])
      <4>1. trigId[o] \in Pins!Slots /\ triggers[trigId[o]] = o /\ o # Pins!None
        BY <1>1, <3>3 DEF Pins!TriggersAgree, Wired
      <4>2. o \in watch \/ reset \/ slot <= trigId[o]
        BY <2>3, <3>3 DEF Scanned
      <4>3. CASE slot = trigId[o]
        BY <2>3, <4>1, <4>3
      <4>4. CASE slot < trigId[o]
        <5>1. slot \in Nat /\ trigId[o] \in Nat /\ trigId[o] <= MaxTriggers - 1
          BY <1>1, <4>1 DEF Pins!Slots, Wired
        <5>2. thread' = "check" /\ slot' = slot + 1
          BY <3>2, <4>4, <5>1 DEF Wired
        <5> QED BY <4>4, <5>1, <5>2
      <4>5. CASE o \in watch \/ reset
        BY <2>3, <4>5
      <4> QED
        <5>1. slot \in Nat /\ trigId[o] \in Nat
          BY <1>1, <4>1
        <5> QED BY <4>2, <4>3, <4>4, <4>5, <5>1
    <3> QED BY <2>1, <3>2, <3>3 DEF Front, Scanned
  <2>4. CASE UNCHANGED <<thread, slot, watch>>
    BY <1>2, <2>1, <2>4
  <2> QED BY <1>8, <2>2, <2>3, <2>4 DEF Pins!ListTriggers, Pins!Crash
<1>9. CASE Pins!Select
  <2>1. thread = "select" /\ thread' \in {"fired", "off"} /\ slot' = slot
    BY <1>9 DEF Pins!Select
  <2> QED BY <2>1 DEF Front, Scanned
<1>10. CASE Pins!Fired
  <2>1. thread = "fired" /\ thread' = "interrupt" /\ slot' = slot
    BY <1>10 DEF Pins!Fired
  <2> QED BY <2>1 DEF Front, Scanned
<1>11. CASE Pins!Interrupt
  <2>1. /\ thread = "interrupt" /\ thread' = "check" /\ UNCHANGED <<slot, live, trigId>>
    BY <1>11 DEF Pins!Interrupt, Pins!scriptVars, Pins!driverVars
  <2>2. \A o \in live : trigId[o] # Pins!NoTrigger => 0 <= trigId[o]
    <3>1. \A o \in live : trigId[o] # Pins!NoTrigger => trigId[o] \in Nat
      BY <1>1
    <3> QED BY <3>1
  <2> QED BY <2>1, <2>2 DEF Front, Scanned
<1>12. CASE Pins!StartAgain
  BY <1>12 DEF Pins!StartAgain, Front, Scanned
<1>13. CASE UNCHANGED Pins!vars
  BY <1>3, <1>13 DEF Pins!vars, Pins!scriptVars, Pins!driverVars, Pins!threadVars
<1> QED
  BY <1>3, <1>4, <1>5, <1>6, <1>7, <1>8, <1>9, <1>10, <1>11, <1>12, <1>13
  DEF Pins!Next, Pins!Drop, Pins!ServiceIO, Pins!CallbackReturns, Pins!Pass, Pins!Wakes, Pins!Edge, Pins!scriptVars, Pins!driverVars,
      Pins!threadVars

-----------------------------------------------------------------------------
(* Triggers that have fired                                                *)

\* A trigger fires with its descriptor; what the slot of a closed pin has left is
\* taken for nobody's.
LEMMA FiredKept ==
  ASSUME Wired, Pins!TypeOK, Pins!TriggersAgree, Pins!FiredByEdge, LeftOver, [Pins!Next]_Pins!vars
  PROVE  Pins!FiredByEdge' /\ LeftOver'
<1>1. /\ held \subseteq Objs /\ trigSet \subseteq Pins!Slots /\ watch \subseteq Objs /\ Pins!None \notin Objs
      /\ live \subseteq Objs /\ triggers \in [Pins!Slots -> Objs \union {Pins!None}]
      /\ trigId \in [Objs -> Pins!Slots \union {Pins!NoTrigger}]
  BY DEF Pins!TypeOK, Wired
<1>2. CASE UNCHANGED <<trigSet, triggers, earned, left>>
  BY <1>2 DEF Pins!FiredByEdge, LeftOver
<1>3. CASE Pins!SetTriggerCallback
  <2>1. PICK o \in held, i \in Pins!Slots :
          triggers[i] = Pins!None /\ triggers' = [triggers EXCEPT ![i] = o] /\ earned' = earned \ {i}
    BY <1>3, SetDoes
  <2>2. trigSet' = trigSet /\ left' = left
    BY <1>3 DEF Pins!SetTriggerCallback
  <2>3. Pins!FiredByEdge'
    BY <2>1, <2>2 DEF Pins!FiredByEdge, LeftOver
  <2>4. \A j \in trigSet : triggers'[j] = Pins!None => triggers[j] = Pins!None
    BY <1>1, <2>1
  <2> QED BY <2>2, <2>3, <2>4 DEF LeftOver
<1>4. CASE Pins!ClearTriggerCallback
  <2>1. PICK o \in held :
          \/ UNCHANGED <<triggers, trigSet, earned, left>>
          \/ /\ triggers' = [triggers EXCEPT ![trigId[o]] = Pins!None]
             /\ trigSet' = trigSet \ {trigId[o]} /\ earned' = earned \ {trigId[o]}
             /\ left' = left \ {trigId[o]}
    BY <1>4, ClearDoes
  <2> QED BY <1>1, <1>2, <2>1 DEF Pins!FiredByEdge, LeftOver
<1>5. CASE Pins!NativePinFinalizer \/ Pins!Restart
  <2>1. PICK closed \in SUBSET live : Pins!PinClose(closed)
    BY <1>5 DEF Pins!NativePinFinalizer, Pins!Restart
  <2>2. trigSet' = trigSet
    BY <1>5 DEF Pins!NativePinFinalizer, Pins!Restart
  <2>3. closed \in SUBSET Objs
    BY <1>1
  <2>4. Pins!FiredByEdge'
    BY <2>1, <2>2, <2>3, CloseDoes DEF Pins!FiredByEdge
  <2>5. ASSUME NEW i \in trigSet, triggers'[i] = Pins!None
        PROVE  i \in left'
    BY <1>1, <2>1, <2>3, <2>5, CloseDoes DEF LeftOver
  <2> QED BY <2>2, <2>4, <2>5 DEF LeftOver
<1>6. CASE Pins!ServiceIO
  <2>1. /\ trigSet' = trigSet \ {Pins!PinTrigId} /\ triggers' = triggers
        /\ earned' = earned \ {Pins!PinTrigId} /\ left' = left \ {Pins!PinTrigId}
    BY <1>6 DEF Pins!ServiceIO
  <2> QED BY <2>1 DEF Pins!FiredByEdge, LeftOver
<1>7. CASE Pins!Fired
  <2>1. CASE UNCHANGED <<trigSet, triggers, earned, left>>
    BY <1>2, <2>1
  <2>2. CASE LET these == {i \in Pins!Slots : triggers[i] \in watch} IN
             /\ trigSet' = trigSet \union these /\ earned' = earned \union these
             /\ UNCHANGED <<triggers, left>>
    BY <1>1, <2>2 DEF Pins!FiredByEdge, LeftOver
  <2> QED BY <1>7, <2>1, <2>2 DEF Pins!Fired
<1>8. CASE Pins!StartAgain
  BY <1>8 DEF Pins!StartAgain, Pins!FiredByEdge, LeftOver
<1>9. CASE UNCHANGED Pins!vars
  BY <1>2, <1>9 DEF Pins!vars, Pins!driverVars
<1> QED
  BY <1>2, <1>3, <1>4, <1>5, <1>6, <1>7, <1>8, <1>9
  DEF Pins!Next, Pins!NativeIoDigitalIn, Pins!Drop, Pins!CallbackReturns, Pins!Pass, Pins!Wakes, Pins!Edge, Pins!ListTriggers, Pins!Select,
      Pins!Interrupt, Pins!driverVars

-----------------------------------------------------------------------------
(* The theorems                                                            *)

\* At the start there are no pins and no triggers.
LEMMA PinsStart ==
  ASSUME Wired, Pins!Init
  PROVE  PinsInv
<1>1. 0 \in Pins!Slots
  BY DEF Wired, Pins!Slots
<1>2. Pins!TypeOK
  BY <1>1 DEF Pins!Init, Pins!TypeOK
<1>3. Pins!NoLostWakeUp /\ Front /\ Scanned /\ Pins!TriggersAgree /\ Pins!FiredByEdge /\ LeftOver
  BY DEF Pins!Init, Pins!NoLostWakeUp, Front, Scanned, Pins!TriggersAgree, Pins!FiredByEdge, LeftOver
<1> QED BY <1>2, <1>3 DEF PinsInv

\* The inductive invariant holds in every state that a behaviour reaches.
THEOREM PinsInvariance == Wired => (Pins!Spec => []PinsInv)
<1> SUFFICES ASSUME Wired
             PROVE  Pins!Spec => []PinsInv
  OBVIOUS
<1>1. Pins!Init => PinsInv
  BY PinsStart
<1>2. PinsInv /\ [Pins!Next]_Pins!vars => PinsInv'
  BY PinsTypeKept, AgreeKept, WakeKept, ScanKept, FiredKept DEF PinsInv
<1> QED BY <1>1, <1>2, PTL DEF Pins!Spec

\* The variables of the driver, the IO object and the thread keep their types;
\* trigger numbers stay within the arrays (PinEnableTrigger, PinTrigId).
THEOREM PinsTypeCorrect == Wired => (Pins!Spec => []Pins!TypeOK)
<1>1. PinsInv => Pins!TypeOK
  BY DEF PinsInv
<1> QED BY <1>1, PinsInvariance, PTL

\* However the thread and the message loop interleave, and whatever pins are made,
\* dropped and made again: the loop does not wait while a trigger has fired unless
\* it will be woken; a thread in select watches every pin with a trigger or was
\* told to look; a trigger is the same pin's in the driver and the IO object; and
\* none has fired without its descriptor but what a closed pin left over.
THEOREM EdgesAreServed == Wired => (Pins!Spec => []Pins!TriggersServed)
<1>1. PinsInv => Pins!TriggersServed
  <2>1. PinsInv => Pins!EveryPinWatched
    BY DEF PinsInv, Scanned, Pins!EveryPinWatched
  <2> QED BY <2>1 DEF PinsInv, Pins!TriggersServed
<1> QED BY <1>1, PinsInvariance, PTL

-----------------------------------------------------------------------------
(* The properties of the device                                            *)

\* The contents of the non-volatile memory, and those with a current language.
Memories == [Config!FieldSet -> [Config!Keys -> Config!Strings]]
WithLanguage == {n \in Memories : Config!CurrentLanguageName(n) \in Langs \union {"none"}}

\* What was told is in the memory under the name of its language.
Remembered(n) ==
  \A f \in Config!FieldSet \ Config!Private, i \in 0..Config!NumberOfLanguages - 1 :
    told[f][i] # "none" => n[f][Config!KeyOf(n, f, i)] = told[f][i]

\* The properties that a factory reset leaves.
Restored(n) ==
  /\ n["DefaultLanguage"]["any"] = "en"
  /\ n["Description"][Config!GetLanguageName(n, Config!GetCurrentLanguage(n))] = "initial"

ConfigInv ==
  /\ Config!TypeOK
  /\ nv \in WithLanguage
  /\ phase # "loop" => told = Config!Nothing
  /\ Remembered(nv)
  /\ fresh => phase = "loop" /\ Restored(nv)

-----------------------------------------------------------------------------
(* Languages                                                               *)

\* There is room for what is told of each language of a table.
LEMMA TableFits ==
  ASSUME Configured, NEW t \in {<<>>} \union Tables
  PROVE  /\ t \in Seq(Langs) /\ Len(t) \in Nat
         /\ \A i, j \in DOMAIN t : t[i] = t[j] => i = j
         /\ 0..(IF t = <<>> THEN 1 ELSE Len(t)) - 1 \subseteq Config!Indices
<1>1. t \in Seq(Langs) /\ \A i, j \in DOMAIN t : t[i] = t[j] => i = j
  <2>1. CASE t \in Tables
    BY <2>1 DEF Configured
  <2>2. CASE t = <<>>
    BY <2>2
  <2> QED BY <2>1, <2>2
<1>2. DOMAIN t = 1..Len(t) /\ Len(t) \in Nat
  BY <1>1
<1>3. Cardinality(Langs) \in Nat \ {0} /\ IsFiniteSet(Langs)
  BY FS_CardinalityType, FS_EmptySet DEF Configured
<1>4. Len(t) <= Cardinality(Langs)
  <2> DEFINE used == {t[i] : i \in 1..Len(t)}
  <2>1. used \subseteq Langs
    BY <1>1, <1>2
  <2>2. Cardinality(used) = Cardinality(1..Len(t))
    <3>1. t \in Bijection(1..Len(t), used)
      BY <1>1, <1>2 DEF Bijection, Injection, Surjection, IsInjective
    <3>2. IsFiniteSet(1..Len(t))
      BY <1>2, FS_Interval
    <3> QED BY <3>1, <3>2, FS_Bijection DEF ExistsBijection
  <2>3. Cardinality(1..Len(t)) = Len(t)
    <3>1. 1 \in Int /\ Len(t) \in Int
      BY <1>2
    <3>2. Cardinality(1..Len(t)) = IF 1 > Len(t) THEN 0 ELSE Len(t) - 1 + 1
      BY <3>1, FS_Interval, Zenon
    <3> QED BY <1>2, <3>2
  <2>4. Cardinality(used) <= Cardinality(Langs)
    BY <1>3, <2>1, FS_Subset
  <2> QED BY <2>2, <2>3, <2>4
<1>5. Config!Cardinality(Langs) = Cardinality(Langs)
  BY Zenon DEF Config!Cardinality, Cardinality
<1> QED BY <1>1, <1>2, <1>3, <1>4, <1>5 DEF Config!Indices

LEMMA TableIs ==
  ASSUME Configured, Config!TypeOK
  PROVE  /\ languages \in Seq(Langs) /\ Len(languages) \in Nat
         /\ Config!NumberOfLanguages \in Nat \ {0}
         /\ 0..Config!NumberOfLanguages - 1 \subseteq Config!Indices
         /\ \A i, j \in DOMAIN languages : languages[i] = languages[j] => i = j
<1>1. languages \in {<<>>} \union Tables
  BY DEF Config!TypeOK
<1>2. languages = <<>> \/ Len(languages) # 0
  BY <1>1, TableFits
<1> QED BY <1>1, <1>2, TableFits DEF Config!NumberOfLanguages

\* A string is stored under the name of a language.
LEMMA LanguageNamed ==
  ASSUME Configured, Config!TypeOK, NEW n \in WithLanguage, NEW i \in Nat
  PROVE  /\ Config!GetLanguageName(n, i) \in Langs
         /\ \A f \in Config!FieldSet : Config!KeyOf(n, f, i) \in Config!Keys
<1>1. languages \in Seq(Langs) /\ "en" \in Langs /\ "none" \notin Langs
  BY TableIs DEF Configured
<1>2. i < Len(languages) => languages[i + 1] \in Langs
  BY <1>1
<1>3. Config!CurrentLanguageName(n) \in Langs \union {"none"}
  BY DEF WithLanguage
<1>4. Config!GetLanguageName(n, i) \in Langs
  BY <1>1, <1>2, <1>3 DEF Config!GetLanguageName, Config!NameInTable
<1> QED BY <1>4 DEF Config!KeyOf, Config!Keys

\* The index of a language is that of a language in the table, or 0.
LEMMA IndexIs ==
  ASSUME Configured, Config!TypeOK
  PROVE  /\ \A name : Config!GetLanguageIndex(name) \in 0..Config!NumberOfLanguages - 1
         /\ \A n : Config!GetCurrentLanguage(n) \in 0..Config!NumberOfLanguages - 1
<1>1. /\ languages \in Seq(Langs) /\ Len(languages) \in Nat
      /\ Config!NumberOfLanguages \in Nat \ {0}
  BY TableIs
<1>2. ASSUME NEW name PROVE Config!GetLanguageIndex(name) \in 0..Config!NumberOfLanguages - 1
  <2>1. CASE \E i \in DOMAIN languages : languages[i] = name
    <3>1. PICK i \in 1..Len(languages) : languages[i] = name
      BY <1>1, <2>1
    <3>2. i - 1 \in 0..Len(languages) - 1 /\ languages[(i - 1) + 1] = name
      BY <1>1, <3>1
    <3>3. Config!GetLanguageIndex(name) \in 0..Len(languages) - 1
      BY <2>1, <3>2, Zenon DEF Config!GetLanguageIndex
    <3>4. languages # <<>>
      BY <1>1, <3>1
    <3> QED BY <3>3, <3>4 DEF Config!NumberOfLanguages
  <2>2. CASE ~\E i \in DOMAIN languages : languages[i] = name
    BY <1>1, <2>2 DEF Config!GetLanguageIndex
  <2> QED BY <2>1, <2>2
<1>3. ASSUME NEW n PROVE Config!GetCurrentLanguage(n) \in 0..Config!NumberOfLanguages - 1
  BY <1>1, <1>2 DEF Config!GetCurrentLanguage
<1> QED BY <1>2, <1>3

\* Without a table there is one language, and it has the name of the current one.
\* Names depend on nothing else than the current language.
LEMMA NamesKept ==
  ASSUME Configured, Config!TypeOK, NEW n \in WithLanguage, NEW m \in WithLanguage,
         NEW i \in 0..Config!NumberOfLanguages - 1,
         \/ languages # <<>>
         \/ Config!CurrentLanguageName(n) = Config!CurrentLanguageName(m)
         \/ Config!CurrentLanguageName(n) \in {"none", "en"} /\ Config!CurrentLanguageName(m) \in {"none", "en"}
  PROVE  /\ Config!GetLanguageName(n, i) = Config!GetLanguageName(m, i)
         /\ \A f : Config!KeyOf(n, f, i) = Config!KeyOf(m, f, i)
<1>1. languages \in Seq(Langs) /\ Len(languages) \in Nat /\ (languages # <<>> => i < Len(languages))
  BY TableIs DEF Config!NumberOfLanguages
<1>2. Config!GetLanguageName(n, i) = Config!GetLanguageName(m, i)
  BY <1>1 DEF Config!GetLanguageName, Config!NameInTable, Config!NumberOfLanguages
<1> QED BY <1>2 DEF Config!KeyOf

\* Languages of the table have different names.
LEMMA NamesDiffer ==
  ASSUME Configured, Config!TypeOK, NEW n \in WithLanguage,
         NEW i \in 0..Config!NumberOfLanguages - 1, NEW j \in 0..Config!NumberOfLanguages - 1,
         Config!GetLanguageName(n, i) = Config!GetLanguageName(n, j)
  PROVE  i = j
<1>1. CASE languages = <<>>
  BY <1>1 DEF Config!NumberOfLanguages
<1>2. CASE languages # <<>>
  <2>1. /\ languages \in Seq(Langs) /\ Len(languages) \in Nat
        /\ \A k, l \in DOMAIN languages : languages[k] = languages[l] => k = l
        /\ i < Len(languages) /\ j < Len(languages) /\ i \in Nat /\ j \in Nat
    BY <1>2, TableIs DEF Config!NumberOfLanguages
  <2>2. i + 1 \in DOMAIN languages /\ j + 1 \in DOMAIN languages
    BY <2>1
  <2>3. languages[i + 1] \in Langs /\ languages[j + 1] \in Langs /\ "none" \notin Langs
    BY <2>1, <2>2 DEF Configured
  <2>4. Config!GetLanguageName(n, i) = languages[i + 1] /\ Config!GetLanguageName(n, j) = languages[j + 1]
    BY <1>2, <2>1, <2>3 DEF Config!GetLanguageName, Config!NameInTable, Config!NumberOfLanguages
  <2>5. i + 1 = j + 1
    BY <2>1, <2>2, <2>4
  <2> QED BY <2>1, <2>5
<1> QED BY <1>1, <1>2

-----------------------------------------------------------------------------
(* Writing one property, and filling in all of them                        *)

\* What a property may be set to.
Settable(f) == IF f = "DefaultLanguage" THEN Langs ELSE Config!Strings

\* A write changes one property, and of that the string of one language.
LEMMA ValueSet ==
  ASSUME Configured, Config!TypeOK, NEW n \in WithLanguage, NEW f \in Config!FieldSet, NEW i \in Nat,
         NEW val \in Settable(f), NEW failing
  PROVE  LET m == Config!SetValueForLang(n, f, i, val, failing)
             k == Config!KeyOf(n, f, i)
         IN  /\ m \in WithLanguage
             /\ \A g \in Config!FieldSet \ {f} : m[g] = n[g]
             /\ \/ m[f] = [n[f] EXCEPT ![k] = val]
                \/ m[f] = Config!Empty /\ f \in failing
<1> DEFINE m == Config!SetValueForLang(n, f, i, val, failing)
           k == Config!KeyOf(n, f, i)
<1>1. k \in Config!Keys /\ "any" \in Config!Keys /\ n \in Memories
  BY LanguageNamed DEF WithLanguage, Config!Keys
<1>2. val \in Config!Strings /\ Langs \subseteq Config!Strings /\ "none" \in Config!Strings
  BY DEF Settable, Config!Strings
<1>3. n[f] \in [Config!Keys -> Config!Strings] /\ Config!Empty \in [Config!Keys -> Config!Strings]
  BY <1>1, <1>2 DEF Memories, Config!Empty
<1>4. m = [n EXCEPT ![f] = Config!Empty] \/ m = [n EXCEPT ![f] = [n[f] EXCEPT ![k] = val]]
  BY DEF Config!SetValueForLang
<1>5. m = [n EXCEPT ![f] = Config!Empty] => f \in failing \/ m[f] = [n[f] EXCEPT ![k] = val]
  BY <1>1 DEF Config!SetValueForLang, Memories
<1> HIDE DEF m, k
<1>6. /\ m \in Memories /\ \A g \in Config!FieldSet \ {f} : m[g] = n[g]
      /\ m[f] = Config!Empty \/ m[f] = [n[f] EXCEPT ![k] = val]
  BY <1>1, <1>2, <1>3, <1>4 DEF Memories
<1>7. Config!CurrentLanguageName(m) \in Langs \union {"none"}
  <2>1. CASE f = "DefaultLanguage"
    <3>1. k = "any" /\ val \in Langs
      BY <2>1 DEF k, Config!KeyOf, Config!Localized, Settable
    <3>2. m[f]["any"] \in Langs \union {"none"}
      BY <1>1, <1>3, <1>6, <3>1 DEF Config!Empty
    <3> QED BY <2>1, <3>2 DEF Config!CurrentLanguageName
  <2>2. CASE f # "DefaultLanguage"
    <3>1. "DefaultLanguage" \in Config!FieldSet
      BY DEF Configured, Config!FieldSet
    <3> QED BY <1>6, <2>2, <3>1 DEF Config!CurrentLanguageName, WithLanguage
  <2> QED BY <2>1, <2>2
<1> QED BY <1>4, <1>5, <1>6, <1>7 DEF m, k, WithLanguage

\* The initial value of a property is one that it may be set to.
LEMMA InitialIs ==
  ASSUME Configured, NEW f, NEW from
  PROVE  Config!InitialValue(f, from) # "none" => Config!InitialValue(f, from) \in Settable(f)
BY DEF Configured, Config!InitialValue, Settable, Config!Strings

\* What InitProperties does with one property.
Filled(n, m, f, from, force, failing) ==
  LET k == Config!KeyOf(n, f, Config!GetCurrentLanguage(n))
      v == Config!InitialValue(f, from)
  IN  /\ m \in WithLanguage
      /\ \A g \in Config!FieldSet \ {f} : m[g] = n[g]
      /\ ~force /\ Config!Stored(n, f) => m = n
      /\ m # n => m[f] = [n[f] EXCEPT ![k] = v] \/ m[f] = Config!Empty
      /\ force /\ v # "none" /\ f \notin failing => m[f] = [n[f] EXCEPT ![k] = v]

LEMMA FieldFilled ==
  ASSUME Configured, Config!TypeOK, NEW n \in WithLanguage, NEW f \in Config!FieldSet,
         NEW from, NEW force, NEW failing
  PROVE  Filled(n, Config!InitField(n, f, from, force, failing), f, from, force, failing)
<1> USE DEF Filled
<1>1. Config!GetCurrentLanguage(n) \in Nat
  BY IndexIs, TableIs
<1>2. Config!InitialValue(f, from) # "none" => Config!InitialValue(f, from) \in Settable(f)
  BY InitialIs
<1>3. CASE (~force /\ Config!Stored(n, f)) \/ Config!InitialValue(f, from) = "none"
  BY <1>3 DEF Config!InitField
<1>4. CASE ~((~force /\ Config!Stored(n, f)) \/ Config!InitialValue(f, from) = "none")
  <2>1. Config!InitField(n, f, from, force, failing)
          = Config!SetValueForLang(n, f, Config!GetCurrentLanguage(n), Config!InitialValue(f, from), failing)
    BY <1>4 DEF Config!InitField
  <2> QED BY <1>1, <1>2, <1>4, <2>1, ValueSet
<1> QED BY <1>3, <1>4

\* The memory after each property, up to where InitProperties ends.
Fills(g, start, from, force, failing) ==
  /\ g \in [0..Len(Fields) -> WithLanguage]
  /\ g[0] = start
  /\ \A k \in 1..Len(Fields) : g[k] = Config!InitField(g[k - 1], Fields[k], from, force, failing)
  /\ g[Len(Fields)] = Config!InitProperties(start, from, force, failing)

\* InitProperties goes through the properties one after the other.
LEMMA FieldsFilled ==
  ASSUME Configured, Config!TypeOK, NEW start \in WithLanguage, NEW from, NEW force, NEW failing
  PROVE  \E g : Fills(g, start, from, force, failing)
<1> DEFINE step == [x \in (1..Len(Fields)) \X WithLanguage |->
                      Config!InitField(x[2], Fields[x[1]], from, force, failing)]
           F(h) == h = [i \in 0..Len(Fields) |->
                          IF i = 0 THEN start
                          ELSE Config!InitField(h[i - 1], Fields[i], from, force, failing)]
<1>0. Len(Fields) \in Nat /\ DOMAIN Fields = 1..Len(Fields)
  BY DEF Configured
<1>1. step \in Rounds(Len(Fields), WithLanguage)
  <2>1. ASSUME NEW x \in (1..Len(Fields)) \X WithLanguage
        PROVE  Config!InitField(x[2], Fields[x[1]], from, force, failing) \in WithLanguage
    <3>1. x[2] \in WithLanguage /\ Fields[x[1]] \in Config!FieldSet
      BY <1>0 DEF Config!FieldSet
    <3> QED BY <3>1, FieldFilled DEF Filled
  <2> QED BY <2>1 DEF Rounds
<1>2. PICK g : IsLoop(g, Len(Fields), WithLanguage, start, step)
  <2> HIDE DEF step
  <2> QED BY <1>0, <1>1, Loop, Zenon
<1>3. /\ g \in [0..Len(Fields) -> WithLanguage] /\ g[0] = start
      /\ \A k \in 1..Len(Fields) : g[k] = Config!InitField(g[k - 1], Fields[k], from, force, failing)
  <2>1. ASSUME NEW k \in 1..Len(Fields)
        PROVE  g[k] = Config!InitField(g[k - 1], Fields[k], from, force, failing)
    <3>1. <<k, g[k - 1]>> \in (1..Len(Fields)) \X WithLanguage
      BY <1>0, <1>2 DEF IsLoop
    <3> QED BY <1>2, <3>1 DEF IsLoop
  <2> QED BY <1>2, <2>1 DEF IsLoop
<1>4. F(g)
  BY <1>0, <1>3
<1> DEFINE c == CHOOSE h : F(h)
<1>5. F(c)
  <2> HIDE DEF F
  <2> QED BY <1>4, Zenon
<1>6. Config!InitProperties(start, from, force, failing) = c[Len(Fields)]
  BY DEF Config!InitProperties
<1> HIDE DEF c
<1>7. c[0] = start /\ \A k \in 1..Len(Fields) : c[k] = Config!InitField(c[k - 1], Fields[k], from, force, failing)
  BY <1>0, <1>5
<1> DEFINE P == {k \in 0..Len(Fields) : c[k] = g[k]}
<1>8. 0..Len(Fields) \subseteq P
  <2>1. 0 \in P /\ \A k \in 1..Len(Fields) : k - 1 \in P => k \in P
    BY <1>0, <1>3, <1>7
  <2> HIDE DEF P
  <2> QED BY <1>0, <2>1, UpTo
<1>9. c[Len(Fields)] = g[Len(Fields)]
  BY <1>0, <1>8
<1> QED BY <1>3, <1>6, <1>9 DEF Fills

\* Filling in what is missing changes nothing that is there, and no name of a language.
LEMMA MissingFilled ==
  ASSUME Configured, Config!TypeOK, NEW start \in WithLanguage, NEW from, NEW failing
  PROVE  LET r == Config!InitProperties(start, from, FALSE, failing)
         IN  /\ r \in WithLanguage
             /\ \A f \in Config!FieldSet : Config!Stored(start, f) => r[f] = start[f]
             /\ \/ Config!CurrentLanguageName(r) = Config!CurrentLanguageName(start)
                \/ /\ Config!CurrentLanguageName(r) \in {"none", "en"}
                   /\ Config!CurrentLanguageName(start) \in {"none", "en"}
<1> DEFINE DL == "DefaultLanguage"
<1>0. Len(Fields) \in Nat /\ DOMAIN Fields = 1..Len(Fields) /\ DL \in Config!FieldSet
  BY DEF Configured, Config!FieldSet
<1>1. PICK g : Fills(g, start, from, FALSE, failing)
  BY FieldsFilled, Zenon
<1> USE DEF Fills
<1> DEFINE Keeps(n) == \A f \in Config!FieldSet : Config!Stored(start, f) => n[f] = start[f]
           Named(n) == Config!Stored(start, DL) \/ Config!CurrentLanguageName(n) \in {"none", "en"}
           P == {k \in 0..Len(Fields) : Keeps(g[k]) /\ Named(g[k])}
<1>2. Config!Stored(start, DL) \/ Config!CurrentLanguageName(start) = "none"
  BY DEF Config!Stored, Config!CurrentLanguageName, Config!Keys
<1>3. 0 \in P
  BY <1>0, <1>1, <1>2
<1>4. ASSUME NEW k \in 1..Len(Fields), k - 1 \in P
      PROVE  k \in P
  <2> DEFINE n == g[k - 1]
             m == g[k]
             f == Fields[k]
  <2>1. /\ n \in WithLanguage /\ f \in Config!FieldSet /\ Keeps(n) /\ Named(n)
        /\ m = Config!InitField(n, f, from, FALSE, failing)
    BY <1>0, <1>1, <1>4 DEF Config!FieldSet
  <2> HIDE DEF n, m, f
  <2>2. /\ \A h \in Config!FieldSet \ {f} : m[h] = n[h]
        /\ Config!Stored(n, f) => m = n
        /\ m # n => \/ m[f] = [n[f] EXCEPT ![Config!KeyOf(n, f, Config!GetCurrentLanguage(n))] = Config!InitialValue(f, from)]
                    \/ m[f] = Config!Empty
    <3>1. Filled(n, m, f, from, FALSE, failing)
      BY <2>1, FieldFilled, Zenon
    <3> QED BY <3>1 DEF Filled
  <2>3. Keeps(m)
    <3> SUFFICES ASSUME NEW h \in Config!FieldSet, Config!Stored(start, h)
                 PROVE  m[h] = start[h]
      OBVIOUS
    <3>1. n[h] = start[h]
      BY <2>1
    <3>2. CASE h = f
      <4>1. Config!Stored(n, f)
        BY <3>1, <3>2 DEF Config!Stored
      <4> QED BY <2>2, <3>1, <4>1
    <3> QED BY <2>2, <3>1, <3>2
  <2>4. Named(m)
    <3>1. CASE f # DL
      BY <1>0, <2>1, <2>2, <3>1 DEF Config!CurrentLanguageName
    <3>2. CASE f = DL /\ m # n
      <4>1. Config!KeyOf(n, f, Config!GetCurrentLanguage(n)) = "any" /\ Config!InitialValue(f, from) = "en"
        BY <3>2 DEF Config!KeyOf, Config!Localized, Config!InitialValue
      <4>2. n[f] \in [Config!Keys -> Config!Strings] /\ "any" \in Config!Keys
        BY <2>1 DEF WithLanguage, Memories, Config!Keys
      <4>3. m[DL]["any"] \in {"none", "en"}
        BY <2>2, <3>2, <4>1, <4>2 DEF Config!Empty
      <4> QED BY <4>3 DEF Config!CurrentLanguageName
    <3> QED BY <2>1, <3>1, <3>2
  <2> QED BY <2>3, <2>4 DEF m
<1>5. 0..Len(Fields) \subseteq P
  <2> HIDE DEF P
  <2> QED BY <1>0, <1>3, <1>4, UpTo
<1>6. Len(Fields) \in P
  BY <1>0, <1>5
<1> QED BY <1>0, <1>1, <1>2, <1>6 DEF Config!CurrentLanguageName

\* A factory reset in which nothing fails leaves the built-in language, and the
\* description in that language.
LEMMA AllReset ==
  ASSUME Configured, Config!TypeOK, NEW start \in WithLanguage, NEW from, from # "freed"
  PROVE  Restored(Config!InitProperties(start, from, TRUE, {}))
<1> DEFINE DL == "DefaultLanguage"
           Name(n) == Config!GetLanguageName(n, Config!GetCurrentLanguage(n))
<1>0. Len(Fields) \in Nat /\ DOMAIN Fields = 1..Len(Fields)
  BY DEF Configured
<1>1. PICK g : Fills(g, start, from, TRUE, {})
  BY FieldsFilled, Zenon
<1> USE DEF Fills
<1>2. PICK d \in 1..Len(Fields), e \in 1..Len(Fields) :
        d < e /\ Fields[d] = "DefaultLanguage" /\ Fields[e] = "Description"
  BY <1>0 DEF Configured
<1>3. DL \in Config!FieldSet /\ "Description" \in Config!FieldSet
  BY <1>0, <1>2 DEF Config!FieldSet
<1>4. ASSUME NEW k \in 1..Len(Fields)
      PROVE  /\ \A h \in Config!FieldSet \ {Fields[k]} : g[k][h] = g[k - 1][h]
             /\ Fields[k] = DL => g[k][DL]["any"] = "en"
             /\ Fields[k] = "Description" =>
                  g[k]["Description"][Config!KeyOf(g[k - 1], "Description", Config!GetCurrentLanguage(g[k - 1]))] = "initial"
  <2> DEFINE n == g[k - 1]
             m == g[k]
             f == Fields[k]
             key == Config!KeyOf(n, f, Config!GetCurrentLanguage(n))
  <2>1. /\ n \in WithLanguage /\ f \in Config!FieldSet
        /\ m = Config!InitField(n, f, from, TRUE, {})
    <3>1. k - 1 \in 0..Len(Fields) /\ f \in Config!FieldSet
      BY <1>0 DEF Config!FieldSet
    <3> QED BY <1>1, <3>1
  <2> HIDE DEF n, m, f
  <2>2. /\ \A h \in Config!FieldSet \ {f} : m[h] = n[h]
        /\ Config!InitialValue(f, from) # "none" => m[f] = [n[f] EXCEPT ![key] = Config!InitialValue(f, from)]
    <3>1. Filled(n, m, f, from, TRUE, {})
      BY <2>1, FieldFilled, Zenon
    <3> QED BY <3>1 DEF Filled
  <2>3. key \in Config!Keys /\ n[f] \in [Config!Keys -> Config!Strings]
    <3>1. Config!GetCurrentLanguage(n) \in Nat
      BY IndexIs, TableIs
    <3> QED BY <2>1, <3>1, LanguageNamed DEF WithLanguage, Memories
  <2>4. f = DL => key = "any" /\ Config!InitialValue(f, from) = "en"
    BY DEF Config!KeyOf, Config!Localized, Config!InitialValue
  <2>5. f = "Description" => Config!InitialValue(f, from) = "initial"
    BY DEF Config!InitialValue
  <2>6. f = DL => m[DL]["any"] = "en"
    BY <2>2, <2>3, <2>4 DEF Configured
  <2>7. f = "Description" => m["Description"][key] = "initial"
    BY <2>2, <2>3, <2>5
  <2> QED BY <2>2, <2>6, <2>7 DEF n, m, f
<1> DEFINE P == {k \in 0..Len(Fields) : k >= d => g[k][DL]["any"] = "en"}
<1>5. \A k \in 0..Len(Fields) : k >= d => g[k][DL]["any"] = "en"
  <2>1. 0 \in P
    BY <1>0
  <2>2. ASSUME NEW k \in 1..Len(Fields), k - 1 \in P PROVE k \in P
    <3>1. CASE Fields[k] = DL
      BY <1>0, <1>4, <3>1
    <3>2. CASE Fields[k] # DL
      <4>1. g[k][DL] = g[k - 1][DL]
        BY <1>3, <1>4, <3>2
      <4>2. k >= d => k - 1 >= d
        BY <1>2, <3>2
      <4> QED BY <2>2, <4>1, <4>2
    <3> QED BY <3>1, <3>2
  <2>3. 0..Len(Fields) \subseteq P
    <3> HIDE DEF P
    <3> QED BY <1>0, <2>1, <2>2, UpTo
  <2> QED BY <2>3
<1>6. \A k \in 0..Len(Fields) : k >= d => Name(g[k]) = Name(g[d])
  BY <1>0, <1>2, <1>5
  DEF Config!GetLanguageName, Config!GetCurrentLanguage, Config!NameInTable, Config!CurrentLanguageName
<1> DEFINE key == Name(g[d])
           Q == {k \in 0..Len(Fields) : k >= e => g[k]["Description"][key] = "initial"}
<1> HIDE DEF Name
<1>7. \A k \in 0..Len(Fields) : k >= e => g[k]["Description"][key] = "initial"
  <2>1. 0 \in Q
    BY <1>0
  <2>2. ASSUME NEW k \in 1..Len(Fields), k - 1 \in Q PROVE k \in Q
    <3> SUFFICES ASSUME k >= e PROVE g[k]["Description"][key] = "initial"
      BY <1>0
    <3>1. CASE Fields[k] = "Description"
      <4>1. Config!KeyOf(g[k - 1], "Description", Config!GetCurrentLanguage(g[k - 1])) = Name(g[k - 1])
        BY DEF Config!KeyOf, Config!Localized, Name
      <4>2. k - 1 \in 0..Len(Fields) /\ k - 1 >= d
        BY <1>0, <1>2
      <4>3. Name(g[k - 1]) = key
        BY <1>6, <4>2
      <4> QED BY <1>4, <3>1, <4>1, <4>3
    <3>2. CASE Fields[k] # "Description"
      <4>1. k - 1 >= e
        BY <1>0, <1>2, <3>2
      <4> QED BY <1>3, <1>4, <2>2, <3>2, <4>1
    <3> QED BY <3>1, <3>2
  <2>3. 0..Len(Fields) \subseteq Q
    <3> HIDE DEF Q
    <3> QED BY <1>0, <2>1, <2>2, UpTo
  <2> QED BY <2>3
<1>8. LET r == g[Len(Fields)] IN r[DL]["any"] = "en" /\ r["Description"][Name(r)] = "initial"
  <2>1. Len(Fields) \in 0..Len(Fields) /\ Len(Fields) >= d /\ Len(Fields) >= e
    BY <1>0, <1>2
  <2> QED BY <1>5, <1>6, <1>7, <2>1
<1> QED BY <1>1, <1>8 DEF Restored, Name

-----------------------------------------------------------------------------
(* The steps of the property store                                         *)

\* Of what was not told nothing must be remembered.
LEMMA NothingRemembered ==
  ASSUME Configured, languages' \in {<<>>} \union Tables, told' = Config!Nothing
  PROVE  Remembered(nv)'
<1>1. 0..Config!NumberOfLanguages' - 1 \subseteq Config!Indices
  BY TableFits DEF Config!NumberOfLanguages
<1> QED BY <1>1 DEF Remembered, Config!Nothing

NothingTyped == Config!Nothing \in [Config!FieldSet -> [Config!Indices -> Config!Strings]]

LEMMA NothingIs == NothingTyped
BY DEF NothingTyped, Config!Nothing, Config!Strings

\* Filling in what is missing keeps what was told and what a factory reset has left.
LEMMA FillingKeeps ==
  ASSUME Configured, ConfigInv, NEW from, NEW failing,
         nv' = Config!InitProperties(nv, from, FALSE, failing), UNCHANGED languages
  PROVE  nv' \in WithLanguage /\ (UNCHANGED told => Remembered(nv)') /\ (Restored(nv) => Restored(nv)')
<1>1. /\ nv' \in WithLanguage
      /\ \A f \in Config!FieldSet : Config!Stored(nv, f) => nv'[f] = nv[f]
      /\ \/ Config!CurrentLanguageName(nv') = Config!CurrentLanguageName(nv)
         \/ /\ Config!CurrentLanguageName(nv') \in {"none", "en"}
            /\ Config!CurrentLanguageName(nv) \in {"none", "en"}
  BY MissingFilled DEF ConfigInv
<1>2. ASSUME NEW f \in Config!FieldSet \ Config!Private, NEW i \in 0..Config!NumberOfLanguages - 1,
             told[f][i] # "none"
      PROVE  nv'[f][Config!KeyOf(nv', f, i)] = told[f][i]
  <2>1. nv[f][Config!KeyOf(nv, f, i)] = told[f][i]
    BY <1>2 DEF ConfigInv, Remembered
  <2>0. Config!TypeOK /\ nv \in WithLanguage /\ i \in Nat
    BY TableIs DEF ConfigInv
  <2>2. Config!KeyOf(nv, f, i) \in Config!Keys
    BY <2>0, LanguageNamed
  <2>4. Config!KeyOf(nv', f, i) = Config!KeyOf(nv, f, i)
    <3>1. ASSUME NEW m \in WithLanguage,
                 \/ Config!CurrentLanguageName(m) = Config!CurrentLanguageName(nv)
                 \/ /\ Config!CurrentLanguageName(m) \in {"none", "en"}
                    /\ Config!CurrentLanguageName(nv) \in {"none", "en"}
          PROVE  Config!KeyOf(m, f, i) = Config!KeyOf(nv, f, i)
      BY <2>0, <3>1, NamesKept
    <3> QED BY <1>1, <3>1
  <2>3. Config!Stored(nv, f)
    BY <1>2, <2>1, <2>2 DEF Config!Stored
  <2> QED BY <1>1, <2>1, <2>2, <2>3, <2>4
<1>3. ASSUME UNCHANGED told PROVE Remembered(nv)'
  <2>1. ASSUME NEW f \in Config!FieldSet \ Config!Private, NEW i \in 0..Config!NumberOfLanguages - 1,
               told'[f][i] # "none"
        PROVE  nv'[f][Config!KeyOf(nv', f, i)] = told'[f][i]
    BY <1>2, <1>3, <2>1
  <2> QED BY <2>1 DEF Remembered, Config!NumberOfLanguages, Config!KeyOf, Config!GetLanguageName,
                      Config!NameInTable
<1>4. ASSUME Restored(nv) PROVE Restored(nv)'
  <2>1. Config!Stored(nv, "DefaultLanguage") /\ Config!Stored(nv, "Description")
    <3>1. Config!GetCurrentLanguage(nv) \in Nat
      BY IndexIs, TableIs DEF ConfigInv
    <3>2. Config!GetLanguageName(nv, Config!GetCurrentLanguage(nv)) \in Config!Keys /\ "any" \in Config!Keys
      BY <3>1, LanguageNamed DEF ConfigInv, Config!Keys
    <3> QED BY <1>4, <3>2 DEF Restored, Config!Stored
  <2>2. nv'["DefaultLanguage"] = nv["DefaultLanguage"] /\ nv'["Description"] = nv["Description"]
    BY <1>1, <2>1 DEF Configured, Config!FieldSet
  <2> QED BY <1>4, <2>2
          DEF Restored, Config!GetLanguageName, Config!NameInTable, Config!GetCurrentLanguage,
              Config!CurrentLanguageName, Config!GetLanguageIndex, Config!NumberOfLanguages
<1> QED BY <1>1, <1>3, <1>4

\* What is set in a language is told of that language.
LEMMA SetKeeps ==
  ASSUME Configured, ConfigInv, NEW f \in Config!FieldSet,
         NEW i \in 0..Config!NumberOfLanguages - 1, NEW val \in Config!ValuesOf(f), Config!Set(f, i, val)
  PROVE  ConfigInv'
<1>0. Config!TypeOK /\ nv \in WithLanguage /\ i \in Nat /\ Config!NumberOfLanguages \in Nat
  BY TableIs DEF ConfigInv
<1>1. PICK failing : /\ nv' = Config!SetValueForLang(nv, f, i, val, failing)
                     /\ told' = Config!Told(f, i, val, failing)
  BY DEF Config!Set
<1>2. /\ phase = "loop" /\ fresh' = FALSE /\ UNCHANGED <<phase, languages, kit, default>>
  BY DEF Config!Set
<1>3. val \in Settable(f) /\ val \in Config!Strings
  BY DEF Settable, Config!ValuesOf, Config!Strings
<1> DEFINE k == Config!KeyOf(nv, f, i)
<1>4. /\ nv' \in WithLanguage
      /\ \A g \in Config!FieldSet \ {f} : nv'[g] = nv[g]
      /\ \/ nv'[f] = [nv[f] EXCEPT ![k] = val]
         \/ nv'[f] = Config!Empty /\ f \in failing
  BY <1>0, <1>1, <1>3, ValueSet
<1>5. told' \in [Config!FieldSet -> [Config!Indices -> Config!Strings]]
  <2>1. /\ told \in [Config!FieldSet -> [Config!Indices -> Config!Strings]]
        /\ Config!Nothing \in [Config!FieldSet -> [Config!Indices -> Config!Strings]]
        /\ "none" \in Config!Strings
    BY <1>0, NothingIs DEF Config!TypeOK, NothingTyped, Config!Strings
  <2> QED BY <1>1, <1>3, <2>1 DEF Config!Told
<1>6. ASSUME NEW g \in Config!FieldSet \ Config!Private, NEW j \in 0..Config!NumberOfLanguages - 1,
             told'[g][j] # "none"
      PROVE  nv'[g][Config!KeyOf(nv', g, j)] = told'[g][j]
  <2>0. j \in Config!Indices
    BY <1>0, TableIs
  <2>1. f # "DefaultLanguage" \/ languages # <<>> => Config!KeyOf(nv', g, j) = Config!KeyOf(nv, g, j)
    <3>1. f # "DefaultLanguage" => Config!CurrentLanguageName(nv') = Config!CurrentLanguageName(nv)
      BY <1>4 DEF Config!CurrentLanguageName, Configured, Config!FieldSet
    <3> QED BY <1>0, <1>4, <3>1, NamesKept
  <2>2. told \in [Config!FieldSet -> [Config!Indices -> Config!Strings]]
    BY <1>0 DEF Config!TypeOK
  <2>3. CASE g # f
    <3>1. ~(f = "DefaultLanguage" /\ languages = <<>>)
      BY <1>1, <1>6, <2>0, <2>3 DEF Config!Told, Config!Nothing
    <3>2. told'[g] = told[g]
      BY <1>1, <2>2, <2>3, <3>1 DEF Config!Told
    <3>3. nv[g][Config!KeyOf(nv, g, j)] = told[g][j]
      BY <1>6, <3>2 DEF ConfigInv, Remembered
    <3> QED BY <1>4, <2>1, <2>3, <3>1, <3>2, <3>3
  <2>4. CASE g = f
    <3>1. f \notin failing
      BY <1>1, <1>6, <2>0, <2>2, <2>4 DEF Config!Told, Config!Nothing
    <3>2. nv'[f] = [nv[f] EXCEPT ![k] = val]
      BY <1>4, <3>1
    <3>3. k \in Config!Keys /\ nv[f] \in [Config!Keys -> Config!Strings]
      BY <1>0, LanguageNamed DEF WithLanguage, Memories
    <3>4. CASE f \notin Config!Localized
      <4>1. told'[f][j] = val
        BY <1>1, <2>0, <2>2, <3>1, <3>4 DEF Config!Told, Config!Nothing
      <4>2. k = "any" /\ Config!KeyOf(nv', f, j) = "any"
        BY <3>4 DEF Config!KeyOf
      <4> QED BY <2>4, <3>2, <3>3, <4>1, <4>2
    <3>5. CASE f \in Config!Localized
      <4>1. f # "DefaultLanguage"
        BY <3>5 DEF Config!Localized
      <4>2. told'[f][j] = IF j = i THEN val ELSE told[f][j]
        BY <1>1, <2>0, <2>2, <3>1, <3>5, <4>1 DEF Config!Told
      <4>3. CASE j = i
        BY <2>1, <2>4, <3>2, <3>3, <4>1, <4>2, <4>3
      <4>4. CASE j # i
        <5>1. Config!KeyOf(nv, f, j) # k
          BY <1>0, <3>5, <4>4, NamesDiffer DEF Config!KeyOf
        <5>2. nv[f][Config!KeyOf(nv, f, j)] = told[f][j]
          BY <1>6, <2>4, <4>2, <4>4 DEF ConfigInv, Remembered
        <5>3. Config!KeyOf(nv, f, j) \in Config!Keys
          BY <1>0, LanguageNamed
        <5> QED BY <2>1, <2>4, <3>2, <3>3, <4>1, <4>2, <4>4, <5>1, <5>2, <5>3
      <4> QED BY <4>3, <4>4
    <3> QED BY <3>4, <3>5
  <2> QED BY <2>3, <2>4
<1>7. Remembered(nv)'
  BY <1>2, <1>6 DEF Remembered, Config!NumberOfLanguages, Config!KeyOf, Config!GetLanguageName,
                    Config!NameInTable
<1>8. Config!TypeOK'
  BY <1>0, <1>2, <1>4, <1>5 DEF Config!TypeOK, WithLanguage, Memories
<1> QED BY <1>2, <1>4, <1>7, <1>8 DEF ConfigInv

\* A write to a property that the program does not have changes nothing.
LEMMA SetNothing ==
  ASSUME Configured, ConfigInv, NEW f, f \notin Config!FieldSet, NEW i, NEW val, Config!Set(f, i, val)
  PROVE  ConfigInv'
<1>1. f # "DefaultLanguage"
  BY DEF Configured, Config!FieldSet
<1>2. /\ nv \in [Config!FieldSet -> [Config!Keys -> Config!Strings]]
      /\ told \in [Config!FieldSet -> [Config!Indices -> Config!Strings]]
  BY DEF ConfigInv, Config!TypeOK
<1>4. PICK failing : /\ nv' = Config!SetValueForLang(nv, f, i, val, failing)
                     /\ told' = Config!Told(f, i, val, failing)
  BY DEF Config!Set
<1>5. nv' = nv
  BY <1>2, <1>4 DEF Config!SetValueForLang
<1>6. told' = told
  BY <1>1, <1>2, <1>4 DEF Config!Told
<1>3. nv' = nv /\ told' = told
  BY <1>5, <1>6
<1> QED BY <1>3 DEF Config!Set, ConfigInv, Config!TypeOK, Remembered, Config!NumberOfLanguages,
                    Config!KeyOf, Config!GetLanguageName, Config!NameInTable

LEMMA ConfigKept ==
  ASSUME Configured, ConfigInv, [Config!Next]_Config!vars
  PROVE  ConfigInv'
<1>0. Config!TypeOK /\ nv \in WithLanguage
  BY DEF ConfigInv
<1>1. CASE Config!BuiltInTooEarly \/ Config!Translate
  <2>1. UNCHANGED <<nv, languages, default, told, fresh>> /\ kit' \in BOOLEAN
    BY <1>0, <1>1 DEF Config!BuiltInTooEarly, Config!Translate, Config!TypeOK
  <2>2. phase' = phase \/ (phase = "script" /\ phase' = "lost")
    BY <1>1 DEF Config!BuiltInTooEarly, Config!Translate
  <2>3. Config!TypeOK'
    BY <1>0, <2>1, <2>2 DEF Config!TypeOK
  <2> QED BY <2>1, <2>2, <2>3
          DEF ConfigInv, Remembered, Restored, Config!NumberOfLanguages, Config!KeyOf,
              Config!GetLanguageName, Config!NameInTable, Config!GetCurrentLanguage,
              Config!GetLanguageIndex
<1>2. CASE Config!PropertyStoreInit
  <2>1. /\ phase = "script" /\ phase' = "loop" /\ default' \in {"built-in", "script", "freed"}
        /\ UNCHANGED <<languages, kit, told, fresh>>
    BY <1>0, <1>2 DEF Config!PropertyStoreInit, Config!TypeOK
  <2>2. told' = Config!Nothing /\ ~fresh
    BY <2>1 DEF ConfigInv
  <2>3. PICK start, failing :
          start \in Config!Named /\ nv' = Config!InitProperties(start, default', FALSE, failing)
    BY <1>2 DEF Config!PropertyStoreInit
  <2>4. start \in WithLanguage
    <3>1. CASE "DeviceName" \in Config!FieldSet
      <4>1. Config!GetCurrentLanguage(nv) \in Nat /\ "own" \in Settable("DeviceName")
        BY <1>0, IndexIs, TableIs DEF Settable, Config!Strings
      <4>2. Config!SetValueForLang(nv, "DeviceName", Config!GetCurrentLanguage(nv), "own", {})
              \in WithLanguage
        BY <1>0, <3>1, <4>1, ValueSet
      <4> QED BY <1>0, <2>3, <4>2 DEF Config!Named
    <3>2. CASE "DeviceName" \notin Config!FieldSet
      <4>1. Config!SetValueForLang(nv, "DeviceName", Config!GetCurrentLanguage(nv), "own", {}) = nv
        BY <1>0, <3>2 DEF WithLanguage, Memories, Config!SetValueForLang
      <4> QED BY <1>0, <2>3, <4>1 DEF Config!Named
    <3> QED BY <3>1, <3>2
  <2>5. nv' \in WithLanguage
    BY <1>0, <2>3, <2>4, MissingFilled
  <2>6. Config!TypeOK'
    BY <1>0, <2>1, <2>5 DEF Config!TypeOK, WithLanguage, Memories
  <2>7. Remembered(nv)'
    BY <2>2, <2>6, NothingRemembered DEF Config!TypeOK
  <2> QED BY <2>1, <2>2, <2>5, <2>6, <2>7 DEF ConfigInv
<1>3. CASE Config!Restart \/ Config!TranslationsSetter
  <2>1. /\ told' = Config!Nothing /\ fresh' = FALSE /\ nv' = nv
        /\ phase' \in {"script", "loop", "lost"} /\ languages' \in {<<>>} \union Tables
        /\ kit' \in BOOLEAN /\ default' \in {"built-in", "script", "freed"}
    BY <1>0, <1>3 DEF Config!Restart, Config!TranslationsSetter, Config!TypeOK
  <2>2. Config!TypeOK'
    BY <1>0, <2>1, NothingIs DEF Config!TypeOK, NothingTyped
  <2>3. Remembered(nv)'
    BY <2>1, NothingRemembered
  <2> QED BY <1>0, <2>1, <2>2, <2>3 DEF ConfigInv
<1>4. ASSUME NEW f, NEW i \in 0..Config!NumberOfLanguages - 1, NEW val \in Config!ValuesOf(f), Config!Set(f, i, val)
      PROVE  ConfigInv'
  BY <1>4, SetKeeps, SetNothing
<1>5. CASE Config!StoreProperty \/ Config!Update \/ Config!SetPasscode
  <2>1. "own" \in Config!ValuesOf("RealmName")
    BY DEF Config!ValuesOf
  <2> QED BY <1>0, <1>4, <1>5, <2>1, IndexIs DEF Config!StoreProperty, Config!Update, Config!SetPasscode
<1>6. CASE Config!Reset
  <2>1. phase = "loop" /\ UNCHANGED <<phase, languages, kit, default, told, fresh>>
    BY <1>6 DEF Config!Reset
  <2>2. CASE nv' = nv
    BY <2>1, <2>2
    DEF ConfigInv, Config!TypeOK, Remembered, Restored, Config!NumberOfLanguages, Config!KeyOf,
        Config!GetLanguageName, Config!NameInTable, Config!GetCurrentLanguage, Config!GetLanguageIndex
  <2>3. ASSUME NEW failing, nv' = Config!InitProperties(nv, default, FALSE, failing)
        PROVE  ConfigInv'
    <3>1. nv' \in WithLanguage /\ Remembered(nv)' /\ (Restored(nv) => Restored(nv)')
      BY <2>1, <2>3, FillingKeeps
    <3>2. Config!TypeOK'
      BY <1>0, <2>1, <3>1 DEF Config!TypeOK, WithLanguage, Memories
    <3> QED BY <2>1, <3>1, <3>2 DEF ConfigInv
  <2> QED BY <1>6, <2>2, <2>3 DEF Config!Reset
<1>7. CASE Config!FactoryReset
  <2>1. PICK failing : /\ nv' = Config!InitProperties(nv, default, TRUE, failing)
                       /\ fresh' = (failing = {} /\ default # "freed")
    BY <1>7 DEF Config!FactoryReset
  <2>2. phase = "loop" /\ told' = Config!Nothing /\ UNCHANGED <<phase, languages, kit, default>>
    BY <1>7 DEF Config!FactoryReset
  <2>3. nv' \in WithLanguage
    <3>1. PICK g : Fills(g, nv, default, TRUE, failing)
      BY <1>0, FieldsFilled, Zenon
    <3>2. Len(Fields) \in 0..Len(Fields)
      BY DEF Configured
    <3> QED BY <2>1, <3>1, <3>2 DEF Fills
  <2>4. Config!TypeOK'
    <3>1. fresh' \in BOOLEAN
      BY <2>1, Zenon
    <3> QED BY <1>0, <2>2, <2>3, <3>1, NothingIs DEF Config!TypeOK, NothingTyped, WithLanguage, Memories
  <2>5. Remembered(nv)'
    BY <2>2, <2>4, NothingRemembered DEF Config!TypeOK
  <2>6. fresh' => Restored(nv)'
    <3>1. CASE fresh'
      <4>1. nv' = Config!InitProperties(nv, default, TRUE, {}) /\ default # "freed"
        BY <2>1, <3>1
      <4>2. Restored(nv')
        BY <1>0, <4>1, AllReset
      <4> QED BY <2>2, <4>2
              DEF Restored, Config!GetLanguageName, Config!NameInTable, Config!GetCurrentLanguage,
                  Config!GetLanguageIndex, Config!NumberOfLanguages, Config!CurrentLanguageName
    <3> QED BY <3>1
  <2> QED BY <2>2, <2>3, <2>4, <2>5, <2>6 DEF ConfigInv
<1>8. CASE UNCHANGED Config!vars
  BY <1>8
  DEF ConfigInv, Config!TypeOK, Remembered, Restored, Config!NumberOfLanguages, Config!KeyOf,
      Config!GetLanguageName, Config!NameInTable, Config!GetCurrentLanguage, Config!GetLanguageIndex,
      Config!vars
<1> QED BY <1>1, <1>2, <1>3, <1>5, <1>6, <1>7, <1>8 DEF Config!Next

LEMMA ConfigStart ==
  ASSUME Configured, Config!Init
  PROVE  ConfigInv
<1>1. nv \in WithLanguage /\ nv = [f \in Config!FieldSet |-> Config!Empty]
  BY DEF Config!Init, WithLanguage, Memories, Config!Empty, Config!Strings, Config!Keys,
         Config!CurrentLanguageName, Configured, Config!FieldSet
<1>2. Config!TypeOK
  BY <1>1, NothingIs DEF Config!Init, Config!TypeOK, NothingTyped, WithLanguage, Memories
<1>3. Remembered(nv)
  BY <1>2, TableIs DEF Config!Init, Remembered, Config!Nothing
<1> QED BY <1>1, <1>2, <1>3 DEF Config!Init, ConfigInv

\* What is remembered is what is read.
LEMMA ConfigImplied ==
  ASSUME Configured, ConfigInv
  PROVE  Config!ReadsBack /\ Config!ResetRestores
<1>0. Config!TypeOK /\ nv \in WithLanguage
  BY DEF ConfigInv
<1>1. ASSUME NEW i \in 0..Config!NumberOfLanguages - 1, NEW f \in Config!Filtered("about"),
             told[f][i] # "none"
      PROVE  Config!GetValueForLang(nv, f, i) = told[f][i]
  <2>1. f \in Config!FieldSet \ Config!Private
    BY DEF Config!Filtered
  <2>2. nv[f][Config!KeyOf(nv, f, i)] = told[f][i]
    BY <1>1, <2>1 DEF ConfigInv, Remembered
  <2> QED BY <1>1, <2>1, <2>2 DEF Config!GetValueForLang, Config!Localize, Config!KeyOf
<1>2. Config!ReadsBack
  BY <1>1 DEF Config!ReadsBack, Config!ReadAll
<1>3. ASSUME fresh
      PROVE  Config!GetValue(nv, "DefaultLanguage") = "en" /\ Config!GetValue(nv, "Description") = "initial"
  <2>1. Restored(nv)
    BY <1>3 DEF ConfigInv
  <2> QED BY <2>1 DEF Restored, Config!GetValue, Config!GetValueForLang, Config!Localize,
                      Config!Localized, Config!Private
<1> QED BY <1>2, <1>3 DEF Config!ResetRestores

\* For every table of properties and of languages: what was set in a language is what
\* a peer is told in it, whatever else is set, filled in or reset by name, unless a
\* write failed; and a factory reset leaves the built-in language and description.
THEOREM PropertiesReadBack ==
  Configured => (Config!Spec => [](Config!TypeOK /\ Config!ReadsBack /\ Config!ResetRestores))
<1> SUFFICES ASSUME Configured
             PROVE  Config!Spec => [](Config!TypeOK /\ Config!ReadsBack /\ Config!ResetRestores)
  OBVIOUS
<1>1. Config!Init => ConfigInv
  BY ConfigStart
<1>2. ConfigInv /\ [Config!Next]_Config!vars => ConfigInv'
  BY ConfigKept
<1>3. ConfigInv => Config!TypeOK /\ Config!ReadsBack /\ Config!ResetRestores
  BY ConfigImplied DEF ConfigInv
<1> QED BY <1>1, <1>2, <1>3, PTL DEF Config!Spec

-----------------------------------------------------------------------------
(* The parts on one board: what holds of a part alone holds of it there    *)

\* The loop on the board is the loop.
THEOREM LoopOnBoard == BoardSpec => Spec
<1>1. BoardInit => Init
  BY Zenon DEF BoardInit
<1>2. [BoardNext]_boardVars => [Next]_vars
  BY DEF BoardNext, boardVars, vars
<1> QED BY <1>1, <1>2, PTL DEF BoardSpec, Spec

\* It stays the same part that runs.
LEMMA PartStays == [BoardNext]_boardVars => part' = part
BY DEF BoardNext, boardVars

LEMMA ConfigOnBoard ==
  /\ BoardInit /\ part = "config" => Config!Init
  /\ [BoardNext]_boardVars /\ part = "config" => [Config!Next]_Config!vars
<1>1. BoardInit /\ part = "config" => Config!Init
  BY DEF BoardInit, PartInit
<1>2. BoardNext /\ part = "config" => Config!Next
  BY DEF BoardNext, PartNext
<1>3. UNCHANGED boardVars => UNCHANGED Config!vars
  BY DEF boardVars, partVars, configVars, sharedVars, Config!vars
<1> QED BY <1>1, <1>2, <1>3

LEMMA StoreOnBoard ==
  /\ BoardInit /\ part = "store" => Store!Init
  /\ [BoardNext]_boardVars /\ part = "store" => [Store!Next]_Store!vars
<1>1. BoardInit /\ part = "store" => Store!Init
  BY DEF BoardInit, PartInit
<1>2. BoardNext /\ part = "store" => Store!Next
  BY DEF BoardNext, PartNext
<1>3. UNCHANGED boardVars => UNCHANGED Store!vars
  BY DEF boardVars, partVars, storeVars, sharedVars, Store!vars
<1> QED BY <1>1, <1>2, <1>3

LEMMA PinsOnBoard ==
  /\ BoardInit /\ part = "pins" => Pins!Init
  /\ [BoardNext]_boardVars /\ part = "pins" => [Pins!Next]_Pins!vars
<1>1. BoardInit /\ part = "pins" => Pins!Init
  BY DEF BoardInit, PartInit
<1>2. BoardNext /\ part = "pins" => Pins!Next
  BY DEF BoardNext, PartNext
<1>3. UNCHANGED boardVars => UNCHANGED Pins!vars
  BY DEF boardVars, partVars, pinsVars, sharedVars, Pins!vars, Pins!scriptVars, Pins!driverVars, Pins!threadVars
<1> QED BY <1>1, <1>2, <1>3

LEMMA UartOnBoard ==
  /\ BoardInit /\ part = "uart" => Uart!Init
  /\ [BoardNext]_boardVars /\ part = "uart" => [Uart!Next]_Uart!vars
<1>1. BoardInit /\ part = "uart" => Uart!Init
  BY DEF BoardInit, PartInit
<1>2. BoardNext /\ part = "uart" => Uart!Next
  BY DEF BoardNext, PartNext
<1>3. UNCHANGED boardVars => UNCHANGED Uart!vars
  BY DEF boardVars, partVars, uartVars, sharedVars, Uart!vars
<1> QED BY <1>1, <1>2, <1>3

LEMMA DevicesOnBoard ==
  /\ BoardInit /\ part = "devices" => Devices!Init
  /\ [BoardNext]_boardVars /\ part = "devices" => [Devices!Next]_Devices!vars
<1>1. BoardInit /\ part = "devices" => Devices!Init
  BY DEF BoardInit, PartInit
<1>2. BoardNext /\ part = "devices" => Devices!Next
  BY DEF BoardNext, PartNext
<1>3. UNCHANGED boardVars => UNCHANGED Devices!vars
  BY DEF boardVars, partVars, devicesVars, sharedVars, Devices!vars
<1> QED BY <1>1, <1>2, <1>3

LEMMA PanelOnBoard ==
  /\ BoardInit /\ part = "panel" => Panel!Init
  /\ [BoardNext]_boardVars /\ part = "panel" => [Panel!Next]_Panel!vars
<1>1. BoardInit /\ part = "panel" => Panel!Init
  BY DEF BoardInit, PartInit
<1>2. BoardNext /\ part = "panel" => Panel!Next
  BY DEF BoardNext, PartNext
<1>3. UNCHANGED boardVars => UNCHANGED Panel!vars
  BY DEF boardVars, partVars, panelVars, sharedVars, Panel!vars, Panel!panelVars, Panel!busVars, Panel!history, Panel!callVars
<1> QED BY <1>1, <1>2, <1>3

LEMMA StringsOnBoard ==
  /\ BoardInit /\ part = "strings" => Strings!Init
  /\ [BoardNext]_boardVars /\ part = "strings" => [Strings!Next]_Strings!vars
<1>1. BoardInit /\ part = "strings" => Strings!Init
  BY DEF BoardInit, PartInit
<1>2. BoardNext /\ part = "strings" => Strings!Next
  BY DEF BoardNext, PartNext
<1>3. UNCHANGED boardVars => UNCHANGED Strings!vars
  BY DEF boardVars, partVars, stringsVars, sharedVars, Strings!vars
<1> QED BY <1>1, <1>2, <1>3

\* On a board, properties of the device are read in each language as they were set,
\* and are back after a reset; properties of the script are read as stored last;
\* and strings of the external table are found as themselves.
THEOREM StoredIsRead == BoardSpec => []StoresTruthful
<1>0. Configured /\ Identified /\ Lettered
  BY BoardAssumption
<1>1. BoardSpec => [](part = "config" => Config!ReadsBack /\ Config!ResetRestores)
  <2>1. Config!Spec => [](Config!ReadsBack /\ Config!ResetRestores)
    BY <1>0, PropertiesReadBack, PTL
  <2>2. [BoardNext]_boardVars => (part = "config" => (part = "config")') /\ (~(part = "config") => ~(part = "config")')
    BY PartStays
  <2> QED BY <2>1, <2>2, ConfigOnBoard, PTL DEF BoardSpec, Config!Spec
<1>2. BoardSpec => [](part = "store" => Store!LoadsOwn)
  <2>1. Store!Spec => [](Store!LoadsOwn)
    BY <1>0, PropertiesAreKept, PTL
  <2>2. [BoardNext]_boardVars => (part = "store" => (part = "store")') /\ (~(part = "store") => ~(part = "store")')
    BY PartStays
  <2> QED BY <2>1, <2>2, StoreOnBoard, PTL DEF BoardSpec, Store!Spec
<1>3. BoardSpec => [](part = "strings" => Strings!SearchFinds)
  <2>1. Strings!Spec => [](Strings!SearchFinds)
    BY <1>0, SearchIsRight, PTL
  <2>2. [BoardNext]_boardVars => (part = "strings" => (part = "strings")') /\ (~(part = "strings") => ~(part = "strings")')
    BY PartStays
  <2> QED BY <2>1, <2>2, StringsOnBoard, PTL DEF BoardSpec, Strings!Spec
<1>4. (part = "config" => Config!ReadsBack /\ Config!ResetRestores) /\ (part = "store" => Store!LoadsOwn) /\ (part = "strings" => Strings!SearchFinds) => StoresTruthful
  BY DEF StoresTruthful
<1> QED BY <1>1, <1>2, <1>3, <1>4, PTL

\* On a board, edges reach the trigger function of their pin, bytes are read in the
\* order in which they came, and contexts of drivers have an object.
THEOREM BoardIsServed == BoardSpec => []BoardServed
<1>0. Wired /\ Buffered
  BY BoardAssumption
<1>1. BoardSpec => [](part = "pins" => Pins!TriggersServed)
  <2>1. Pins!Spec => [](Pins!TriggersServed)
    BY <1>0, EdgesAreServed, PTL
  <2>2. [BoardNext]_boardVars => (part = "pins" => (part = "pins")') /\ (~(part = "pins") => ~(part = "pins")')
    BY PartStays
  <2> QED BY <2>1, <2>2, PinsOnBoard, PTL DEF BoardSpec, Pins!Spec
<1>2. BoardSpec => [](part = "uart" => Uart!BufferIsQueue)
  <2>1. Uart!Spec => [](Uart!BufferIsQueue)
    BY <1>0, BufferStaysQueue, PTL
  <2>2. [BoardNext]_boardVars => (part = "uart" => (part = "uart")') /\ (~(part = "uart") => ~(part = "uart")')
    BY PartStays
  <2> QED BY <2>1, <2>2, UartOnBoard, PTL DEF BoardSpec, Uart!Spec
<1>3. BoardSpec => [](part = "devices" => Devices!ContextsOwned)
  <2>1. Devices!Spec => [](Devices!ContextsOwned)
    BY ContextsHaveOwners, PTL
  <2>2. [BoardNext]_boardVars => (part = "devices" => (part = "devices")') /\ (~(part = "devices") => ~(part = "devices")')
    BY PartStays
  <2> QED BY <2>1, <2>2, DevicesOnBoard, PTL DEF BoardSpec, Devices!Spec
<1>4. (part = "pins" => Pins!TriggersServed) /\ (part = "uart" => Uart!BufferIsQueue) /\ (part = "devices" => Devices!ContextsOwned) => BoardServed
  BY DEF BoardServed
<1> QED BY <1>1, <1>2, <1>3, <1>4, PTL

\* On a board, what a controller sees of a panel is what the script has made of it.
THEOREM ControllersSeeThePanel == BoardSpec => []PanelTruthful
<1>0. Sized
  BY BoardAssumption
<1>1. BoardSpec => [](part = "panel" => Panel!PanelTruthful)
  <2>1. Panel!Spec => [](Panel!PanelTruthful)
    BY <1>0, PanelStaysTruthful, PTL
  <2>2. [BoardNext]_boardVars => (part = "panel" => (part = "panel")') /\ (~(part = "panel") => ~(part = "panel")')
    BY PartStays
  <2> QED BY <2>1, <2>2, PanelOnBoard, PTL DEF BoardSpec, Panel!Spec
<1>2. (part = "panel" => Panel!PanelTruthful) => PanelTruthful
  BY DEF PanelTruthful
<1> QED BY <1>1, <1>2, PTL

\* On a board, every variable of the loop and of the part has a value of its type.
THEOREM BoardTypes == BoardSpec => []TypesOK
<1>0. Configured /\ Identified /\ Wired /\ Buffered /\ Sized
  BY BoardAssumption
<1>1. BoardSpec => [](part = "config" => Config!TypeOK)
  <2>1. Config!Spec => [](Config!TypeOK)
    BY <1>0, PropertiesReadBack, PTL
  <2>2. [BoardNext]_boardVars => (part = "config" => (part = "config")') /\ (~(part = "config") => ~(part = "config")')
    BY PartStays
  <2> QED BY <2>1, <2>2, ConfigOnBoard, PTL DEF BoardSpec, Config!Spec
<1>2. BoardSpec => [](part = "store" => Store!TypeOK)
  <2>1. Store!Spec => [](Store!TypeOK)
    BY <1>0, PropertiesAreKept, PTL
  <2>2. [BoardNext]_boardVars => (part = "store" => (part = "store")') /\ (~(part = "store") => ~(part = "store")')
    BY PartStays
  <2> QED BY <2>1, <2>2, StoreOnBoard, PTL DEF BoardSpec, Store!Spec
<1>3. BoardSpec => [](part = "pins" => Pins!TypeOK)
  <2>1. Pins!Spec => [](Pins!TypeOK)
    BY <1>0, PinsTypeCorrect, PTL
  <2>2. [BoardNext]_boardVars => (part = "pins" => (part = "pins")') /\ (~(part = "pins") => ~(part = "pins")')
    BY PartStays
  <2> QED BY <2>1, <2>2, PinsOnBoard, PTL DEF BoardSpec, Pins!Spec
<1>4. BoardSpec => [](part = "uart" => Uart!TypeOK)
  <2>1. Uart!Spec => [](Uart!TypeOK)
    BY <1>0, BufferStaysQueue, PTL
  <2>2. [BoardNext]_boardVars => (part = "uart" => (part = "uart")') /\ (~(part = "uart") => ~(part = "uart")')
    BY PartStays
  <2> QED BY <2>1, <2>2, UartOnBoard, PTL DEF BoardSpec, Uart!Spec
<1>5. BoardSpec => [](part = "devices" => Devices!TypeOK)
  <2>1. Devices!Spec => [](Devices!TypeOK)
    BY ContextsHaveOwners, PTL
  <2>2. [BoardNext]_boardVars => (part = "devices" => (part = "devices")') /\ (~(part = "devices") => ~(part = "devices")')
    BY PartStays
  <2> QED BY <2>1, <2>2, DevicesOnBoard, PTL DEF BoardSpec, Devices!Spec
<1>6. BoardSpec => [](part = "panel" => Panel!TypeOK)
  <2>1. Panel!Spec => [](Panel!TypeOK)
    BY <1>0, PanelStaysTruthful, PTL
  <2>2. [BoardNext]_boardVars => (part = "panel" => (part = "panel")') /\ (~(part = "panel") => ~(part = "panel")')
    BY PartStays
  <2> QED BY <2>1, <2>2, PanelOnBoard, PTL DEF BoardSpec, Panel!Spec
<1>7. BoardSpec => []TypeOK
  BY LoopOnBoard, TypeCorrect, PTL
<1>8. /\ TypeOK
      /\ part = "config" => Config!TypeOK
      /\ part = "store" => Store!TypeOK
      /\ part = "pins" => Pins!TypeOK
      /\ part = "uart" => Uart!TypeOK
      /\ part = "devices" => Devices!TypeOK
      /\ part = "panel" => Panel!TypeOK
      => TypesOK
  BY DEF TypesOK
<1> QED BY <1>1, <1>2, <1>3, <1>4, <1>5, <1>6, <1>7, <1>8, PTL
=============================================================================
