----------------------------- MODULE MessageLoop -----------------------------
(***************************************************************************)
(* Attaching to the bus (src/src/ajs_attach.c), the message loop           *)
(* (src/src/ajs_msgloop.c) and what it does with messages: calls of other  *)
(* peers and the replies of the script (src/src/ajs_unmarshal.c,           *)
(* ajs_marshal.c), replies to the calls of the script and of the natives   *)
(* of the AJ object (ajs_handlers.c), session requests, changes of the     *)
(* security policy, and operations that are deferred.                      *)
(*                                                                         *)
(* Values are in the module Marshal, timers in Timers, sessions in         *)
(* Sessions.  The thin client library and the router are external.         *)
(***************************************************************************)
EXTENDS Naturals, FiniteSets

CONSTANTS
  Calls,      \* method calls and property accesses of other peers
  MaxSerial,  \* bound: calls that the script makes in a connection
  MaxPolicy   \* bound: changes of the policy that wait to be told

\* The bounds are numbers.
ASSUME MessageLoopAssumption == MaxSerial \in Nat /\ MaxPolicy \in Nat

VARIABLES
  pc,        \* "attach", "onboarding", "start", "pass", "wait", "handler", "after", "ended"
  status,    \* what the loop has come to
  cur,       \* the call in the handler, or "other"
  bus,       \* attached to the bus
  printed,   \* the build prints errors, which makes strings of them
  locked,    \* the console is locked out, or nobody can tell
  calls,     \* the message objects of the calls of other peers
  lost,      \* history: calls that nobody can answer any more
  serial,    \* of the next message
  sent,      \* calls of the script that have no reply: serial and kind
  stash,     \* the reply handlers: the serial they are under and that of their call
  ran,       \* the handler that runs, and the serial of its reply
  join,      \* the session request that has just been handled, if it was answered
  op,        \* deferredOp, and where it was asked for
  policy,    \* hasPolicyChanged
  short      \* entries that the stack has lost

callVars == <<calls, lost>>
replyVars == <<serial, sent, stash, ran>>
opVars == <<op, policy, short>>
fixed == <<printed, locked>>
vars == <<pc, status, cur, bus, fixed, callVars, replyVars, join, opVars>>

NoJoin == <<"none", "none">>
NoOp == [what |-> "none", in |-> "none"]
Serials == 1..MaxSerial
Kinds == {"own", "swallowed"}
Ports == {"app", "panel", "console", "unbound"}

TypeOK ==
  /\ pc \in {"attach", "onboarding", "start", "pass", "wait", "handler", "after", "ended"}
  /\ status \in {"ok", "read", "restart", "restartApp", "failed", "fatal"}
  /\ cur \in Calls \union {"other"} /\ bus \in BOOLEAN
  /\ printed \in BOOLEAN /\ locked \in BOOLEAN
  /\ calls \in [Calls -> [at : {"away", "held", "spent", "gone"}, replies : 0..2]]
  /\ lost \subseteq Calls
  /\ serial \in 1..MaxSerial + 1 /\ sent \subseteq Serials \X Kinds
  /\ stash \subseteq Serials \X Serials /\ ran \subseteq Serials \X Serials
  /\ join \in {NoJoin} \union Ports \X {"answered", "silent"}
  /\ op \in [what : {"none", "offboard", "reset"}, in : {"none", "message", "pass", "before"}]
  /\ policy \in 0..MaxPolicy /\ short \in 0..2

Init ==
  /\ pc = "attach" /\ status = "ok" /\ cur = "other" /\ bus = FALSE
  /\ printed \in BOOLEAN /\ locked \in BOOLEAN
  /\ calls = [c \in Calls |-> [at |-> "away", replies |-> 0]] /\ lost = {}
  /\ serial = 1 /\ sent = {} /\ stash = {} /\ ran = {} /\ join = NoJoin
  /\ op = NoOp /\ policy = 0 /\ short = 0

-----------------------------------------------------------------------------
(* Attaching                                                               *)

AttachFails ==
  /\ pc' = "ended" /\ status' = "failed"
  /\ UNCHANGED bus

\* A router is looked for until one is found; a timeout is no error.  A device
\* without a validated network then waits to be onboarded.
AttachAllJoyn ==
  /\ pc = "attach"
  /\ \/ UNCHANGED <<pc, status, bus>>
     \/ AttachFails
     \/ bus' = TRUE /\ pc' \in {"onboarding", "start"} /\ UNCHANGED status
  /\ UNCHANGED <<cur, fixed, callVars, replyVars, join, opVars>>

\* Every session is accepted; an error restarts, also one of ServicesInit.
Onboard ==
  /\ pc = "onboarding"
  /\ \/ UNCHANGED <<pc, status, join>>
     \/ join' = <<"app", "answered">> /\ UNCHANGED <<pc, status>>
     \/ pc' = "start" /\ join' = NoJoin /\ UNCHANGED status
     \/ pc' = "ended" /\ status' = "restart" /\ join' = NoJoin
  /\ UNCHANGED <<cur, bus, fixed, callVars, replyVars, opVars>>

\* onAttach, or before it the installed script, may ask for an operation; the
\* loop forgets it.
MessageLoop ==
  /\ pc = "start" /\ pc' = "pass" /\ op' = NoOp
  /\ UNCHANGED <<status, cur, bus, fixed, callVars, replyVars, join, policy, short>>

-----------------------------------------------------------------------------
(* What a script does                                                      *)

Running == pc \in {"start", "pass", "handler"}

\* Mutant: the reply is sent whether or not there was one.
ReplyAgain(c) == calls[c].at \in {"held", "spent"}

\* The serial number of a call is zeroed when it is replied to.
Unanswered(c) == calls[c].at = "held"

\* A reply is noted as sent before it is marshalled; if that fails, the call
\* stays without one.
HandleReply(c, marshalled) ==
  /\ calls' = [calls EXCEPT ![c].at = "spent", ![c].replies = IF marshalled THEN @ + 1 ELSE @]
  /\ lost' = IF marshalled THEN lost ELSE lost \union {c}

\* reply and errorReply, in the handler of the call or later.
MethodCallReply ==
  /\ Running
  /\ \E c \in Calls : \E marshalled \in BOOLEAN :
       Unanswered(c) /\ HandleReply(c, marshalled)
  /\ UNCHANGED <<pc, status, cur, bus, fixed, replyVars, join, opVars>>

Made(kind) == serial <= MaxSerial /\ serial' = serial + 1 /\ sent' = sent \union {<<serial, kind>>}

\* method.call: the reply object knows the serial of the message.
MarshalMethodCall == Made("own")

MatchRule == Made("swallowed")
FindService == Made("swallowed")
FindServiceByName == Made("own")
\* advertiseName asks for the name; it advertises it only if that fails.
AdvertiseName == Made("own")

\* A handler may be put under the serial of the call that was made last.
SetOnReply == stash' \in {stash, stash \union {<<serial' - 1, serial>>}}

SendCall ==
  /\ Running /\ bus
  /\ \/ MarshalMethodCall \/ MatchRule \/ FindService \/ FindServiceByName \/ AdvertiseName
  /\ SetOnReply
  /\ UNCHANGED <<pc, status, cur, bus, fixed, callVars, ran, join, opVars>>

\* factoryReset and offboard; they throw an error, which the script may catch.
DeferredOperation ==
  /\ Running
  /\ \E what \in {"offboard", "reset"} :
       op' = [what |-> what, in |-> IF pc = "handler" THEN "message"
                                    ELSE IF pc = "pass" THEN "pass" ELSE "before"]
  /\ UNCHANGED <<pc, status, cur, bus, fixed, callVars, replyVars, join, policy, short>>

Script == MethodCallReply \/ SendCall \/ DeferredOperation

-----------------------------------------------------------------------------
(* The loop                                                                *)

\* Timers, triggers, modules and sessions are served, and About announces.  A
\* stack that has lost entries fails an assertion, where there are assertions.
ServePass ==
  /\ pc = "pass"
  /\ IF short > 0 /\ printed THEN pc' = "ended" /\ status' = "fatal"
     ELSE \/ pc' = "wait" /\ UNCHANGED status
          \/ pc' = "ended" /\ status' = "failed"
  /\ UNCHANGED <<cur, bus, fixed, callVars, replyVars, join, opVars>>

\* AJ_UnmarshalMsg: a timeout, an interrupt or a message nobody knows starts
\* another pass, any other error ends the loop.
NoMessage ==
  /\ pc = "wait"
  /\ \/ pc' = "pass" /\ UNCHANGED status
     \/ pc' = "ended" /\ status' = "read"
  /\ UNCHANGED <<cur, bus, fixed, callVars, replyVars, join, opVars>>

\* One notification for each message; the handler is taken for the object it is
\* a method of, so it is never called, and the stack loses an entry or two.
PolicyNotification ==
  IF policy = 0 THEN UNCHANGED <<policy, short>>
  ELSE policy' = policy - 1 /\ short = 0 /\ short' \in {1, 2}

\* The stack no longer has the AJ object; where assertions are left out, the
\* handler of a reply still runs.
Collapse ==
  /\ pc' = "ended" /\ status' = "fatal"
  /\ UNCHANGED <<cur, callVars, replyVars>>

\* The next notification does not find the AJ object.
PolicyCollapse ==
  /\ pc = "wait" /\ policy > 0 /\ short > 0 /\ Collapse
  /\ policy' = policy - 1 /\ UNCHANGED <<bus, fixed, join, op, short>>

\* A message that the AJ object has nothing to do with, or nobody: the loop goes
\* on after all but four errors.
BusMessage ==
  /\ pc = "wait" /\ PolicyNotification
  /\ pc' = "after" /\ status' \in {"ok", "read", "restartApp"}
  /\ UNCHANGED <<cur, bus, fixed, callVars, replyVars, join, op>>

\* On a console that is locked the status is still AJ_OK when it is looked at.
Answered(port) == port \in {"app", "panel"} \/ ~locked

\* The console answers on its port, the services on theirs; a request for
\* another port is rejected.
SessionDispatcher ==
  /\ pc = "wait" /\ PolicyNotification
  /\ \E port \in Ports : join' = <<port, IF Answered(port) THEN "answered" ELSE "silent">>
  /\ pc' = "after" /\ status' \in {"ok", "read"}
  /\ UNCHANGED <<cur, bus, fixed, callVars, replyVars, op>>

\* A call that no function is registered for.
Reject(c) == [calls EXCEPT ![c] = [at |-> "gone", replies |-> 1]]

Enter(message) == pc' = "handler" /\ cur' = message /\ UNCHANGED status
Skip == pc' = "after" /\ status' = "ok" /\ UNCHANGED cur

\* A call: without the AJ object it is dropped, without a function rejected; if
\* its arguments are not accepted it is dropped; else the script has it.
HandleCall(c) ==
  /\ calls[c].at = "away"
  /\ \/ Skip /\ lost' = lost \union {c} /\ calls' = [calls EXCEPT ![c].at = "gone"]
     \/ Skip /\ calls' = Reject(c) /\ UNCHANGED lost
     \/ Enter(c) /\ calls' = [calls EXCEPT ![c].at = "held"] /\ UNCHANGED lost
  /\ UNCHANGED replyVars

\* The handler of a reply is taken out of the stash before it is called.
TakenOut(s) == {h \in stash : h[1] # s}

\* A reply; some replies the loop keeps to itself.
HandleReplyMessage(s, kind) ==
  /\ sent' = sent \ {<<s, kind>>}
  /\ IF kind = "swallowed" \/ ~\E h \in stash : h[1] = s
     THEN Skip /\ UNCHANGED <<stash, ran>>
     ELSE /\ Enter("other") /\ stash' = TakenOut(s)
          /\ ran' = {<<s, h[2]>> : h \in {g \in stash : g[1] = s}}
  /\ UNCHANGED <<serial, callVars>>

HandleSignal == Enter("other") /\ UNCHANGED <<callVars, replyVars>>

HandleMessage ==
  /\ pc = "wait" /\ PolicyNotification
  /\ \/ short' > 0 /\ Collapse
     \/ short' = 0 /\ ((\E c \in Calls : HandleCall(c)) \/ HandleSignal)
     \/ (short' = 0 \/ ~printed) /\ \E r \in sent : HandleReplyMessage(r[1], r[2])
  /\ UNCHANGED <<bus, fixed, join, op>>

\* The function returns; the script keeps the message object, or not.
HandlerReturns ==
  /\ pc = "handler" /\ pc' = "after" /\ cur' = "other" /\ ran' = {}
  /\ \/ UNCHANGED callVars
     \/ /\ cur \in Calls /\ calls[cur].at = "held"
        /\ calls' = [calls EXCEPT ![cur].at = "gone"] /\ lost' = lost \union {cur}
  /\ UNCHANGED <<status, bus, fixed, serial, sent, stash, join, opVars>>

\* The function throws: a call gets an error reply, if the error is a string, or
\* was made one, and if there was no reply yet.
HandlerThrows ==
  /\ pc = "handler" /\ pc' = "after" /\ cur' = "other" /\ ran' = {}
  /\ IF cur \in Calls /\ Unanswered(cur)
     THEN \E isString \in BOOLEAN :
            IF isString \/ printed THEN \E marshalled \in BOOLEAN : HandleReply(cur, marshalled)
            ELSE calls' = [calls EXCEPT ![cur].at = "gone"] /\ lost' = lost \union {cur}
     ELSE UNCHANGED callVars
  /\ UNCHANGED <<status, bus, fixed, serial, sent, stash, join, opVars>>

\* After a message: a deferred operation is carried out and restarts.
DoDeferredOperation ==
  /\ pc = "after"
  /\ IF status # "ok" THEN pc' = "ended" /\ UNCHANGED <<status, op, bus>>
     ELSE IF op # NoOp
     THEN pc' = "ended" /\ status' = "restart" /\ op' = NoOp /\ bus' = (bus /\ op.what # "offboard")
     ELSE pc' = "pass" /\ UNCHANGED <<status, op, bus>>
  /\ join' = NoJoin
  /\ UNCHANGED <<cur, fixed, callVars, replyVars, policy, short>>

\* The script engine starts anew; only RESTART_APP keeps the connection.
Restart ==
  /\ pc = "ended"
  /\ LET stay == status = "restartApp" IN
     /\ pc' = (IF stay THEN "start" ELSE "attach") /\ bus' = stay
     /\ serial' = (IF stay THEN serial ELSE 1) /\ sent' = IF stay THEN sent ELSE {}
     /\ lost' = lost \union {c \in Calls : calls[c].at = "held"}
     /\ calls' = [c \in Calls |-> IF calls[c].at = "held" THEN [calls[c] EXCEPT !.at = "gone"]
                                  ELSE calls[c]]
  /\ status' = "ok" /\ cur' = "other" /\ stash' = {} /\ ran' = {} /\ short' = 0
  /\ UNCHANGED <<fixed, join, op, policy>>

\* PolicyChangedCallback, while a message is unmarshalled.
QueueNotifPolicyChanged ==
  /\ pc = "wait" /\ policy < MaxPolicy /\ policy' = policy + 1
  /\ UNCHANGED <<pc, status, cur, bus, fixed, callVars, replyVars, join, op, short>>

Next ==
  \/ AttachAllJoyn \/ Onboard \/ MessageLoop \/ Script \/ ServePass \/ NoMessage
  \/ PolicyCollapse \/ BusMessage \/ SessionDispatcher \/ HandleMessage \/ HandlerReturns \/ HandlerThrows
  \/ DoDeferredOperation \/ Restart \/ QueueNotifPolicyChanged

-----------------------------------------------------------------------------
(* Properties                                                              *)

\* No call of another peer has two replies, and one that can no longer have any
\* is known to be lost (HandleReply, HandleCall, HandlerThrows).
RepliedOnce ==
  \A c \in Calls :
    /\ calls[c].replies <= 1
    /\ calls[c].at \in {"spent", "gone"} /\ calls[c].replies = 0 => c \in lost

\* A handler runs with the reply to its own call, also when the script has been
\* started anew on the same connection, and nothing can run it again.
OwnReply ==
  /\ \A r \in ran : r[1] = r[2] /\ r \notin stash
  /\ \A h \in stash : h[2] < serial

\* An operation asked for in a handler of a message is done before the loop
\* waits again, and after offboarding there is no connection.
DeferredDone == pc \in {"pass", "wait"} => op.in # "message" /\ bus

\* Only a locked console leaves a session request unanswered.
JoinsAnswered == join[2] = "silent" => locked /\ join[1] \in {"console", "unbound"}

\* Calls, replies, deferred operations and session requests are settled, in
\* whatever order the messages come and the script acts on them.
CallsSettled == RepliedOnce /\ OwnReply /\ DeferredDone /\ JoinsAnswered

Spec == Init /\ [][Next]_vars
=============================================================================
