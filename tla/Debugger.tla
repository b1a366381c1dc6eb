------------------------------ MODULE Debugger ------------------------------
(***************************************************************************)
(* A debugging session: the script console (src/console/ajs_console.cc)    *)
(* connects, attaches the debugger and sends it commands; the target       *)
(* (src/src/ajs_debugger.c, ajs_console.c) reads them in its message loop, *)
(* or in DebuggerRead while the interpreter has stopped a script.  What    *)
(* the commands say is in the module DebugStream.                          *)
(*                                                                         *)
(* The interpreter, the router and the user are not part of the            *)
(* repository.  The console has one thread that makes calls, and one that  *)
(* the router calls.                                                       *)
(***************************************************************************)
EXTENDS Naturals, Sequences, FiniteSets

CONSTANTS
  Wants,    \* what the user asks the console for
  MaxInbox  \* bound: messages waiting for the target

VARIABLES
  client,   \* the console: "off", "connecting", "ready", "asking", "calling"
  sid,      \* its session: "none", "joining", "joined"
  waiting,  \* it is inside Event::Wait
  want,     \* the command under way
  cur,      \* the id of its call
  late,     \* history: a call of this console was given up after a timeout
  up,       \* the router has a session of console and target
  joined,   \* the router's answer to the join: "none", "ok", "rejected", "failed"
  inbox,    \* messages for the target, in order
  answers,  \* replies for the console
  console,  \* the target has a controller
  dbg,      \* dbgState: "none", or its status "running" or "paused"
  target,   \* its thread: "loop", "script", or in DebuggerRead: from the
            \* message loop "cooperate", for a stopped script "stopped"
  fed,      \* the command in the read buffer of the debugger
  lastMsg,  \* the call that the next reply of the interpreter answers
  pausing,  \* the interpreter stops at the next statement
  watch     \* the watchdog of the target is enabled

clientVars == <<client, sid, waiting, want, cur, late>>
routerVars == <<up, joined>>
readVars == <<fed, lastMsg>>
vars == <<client, sid, waiting, want, cur, late, up, joined, inbox, answers, console, dbg,
          target, fed, lastMsg, pausing, watch>>

None == [kind |-> "none", id |-> 0]
Ids == 1..MaxInbox + 2
Ask(kind, id) == [kind |-> kind, id |-> id]

PausedOnly == {"resume", "step", "locals"}
Commands == PausedOnly \union {"pause", "addBreak", "lineTooLarge", "putEmpty", "detach"}

ASSUME DebuggerAssumption ==
  Wants \subseteq Commands \union {"begin", "end"} /\ MaxInbox \in Nat

Kinds == Commands \union {"begin", "end", "getStatus"}
Messages == {Ask(k, i) : k \in Kinds, i \in Ids} \union {Ask("accept", 0), Ask("lost", 0)}

\* What a reply says: a status, an error, or the result of the command.
ReplyData == {"ok", "error", "busy", "none", "running", "paused"} \union Commands

TypeOK ==
  /\ client \in {"off", "connecting", "ready", "asking", "calling"}
  /\ sid \in {"none", "joining", "joined"} /\ waiting \in BOOLEAN /\ late \in BOOLEAN
  /\ want \in Wants \union {"none"} /\ cur \in Ids \union {0}
  /\ up \in BOOLEAN /\ joined \in {"none", "ok", "rejected", "failed"}
  /\ inbox \in Seq(Messages)
  /\ answers \subseteq [id : Ids, kind : Kinds, data : ReplyData]
  /\ console \in BOOLEAN /\ pausing \in BOOLEAN /\ watch \in BOOLEAN
  /\ dbg \in {"none", "running", "paused"}
  /\ target \in {"loop", "script", "cooperate", "stopped"}
  /\ {fed, lastMsg} \subseteq Messages \union {None}

Init ==
  /\ client = "off" /\ sid = "none" /\ waiting = FALSE /\ want = "none" /\ cur = 0
  /\ late = FALSE /\ up = FALSE /\ joined = "none" /\ inbox = <<>> /\ answers = {}
  /\ console = FALSE /\ dbg = "none" /\ target = "loop" /\ fed = None /\ lastMsg = None
  /\ pausing = FALSE /\ watch = TRUE

-----------------------------------------------------------------------------
(* The console connects                                                    *)

targetVars == <<console, dbg, target, fed, lastMsg, pausing, watch>>

Connect ==
  /\ client = "off"
  /\ client' = "connecting" /\ sid' = "none" /\ waiting' = FALSE /\ late' = FALSE
  /\ UNCHANGED <<want, cur, up, joined, inbox, answers>> /\ UNCHANGED targetVars

\* Event::Wait for a second, again and again.
Wait ==
  /\ client = "connecting" /\ waiting' = ~waiting
  /\ UNCHANGED <<client, sid, want, cur, late, up, joined, inbox, answers>>
  /\ UNCHANGED targetVars

\* Event::Set wakes the thread that waits; nobody remembers it otherwise.
Set(ok) ==
  IF waiting THEN waiting' = FALSE /\ client' = IF ok THEN "ready" ELSE "off"
  ELSE UNCHANGED <<waiting, client>>

\* Mutant: the session stays reserved for the join that was not sent.
KeepReserved == "joining"

\* A join that could not be sent leaves the session free for the next one.
Released == "none"

\* An announcement of the target; -1 for the session prevents a second join.
Announced ==
  /\ client = "connecting" /\ sid = "none" /\ joined = "none" /\ Len(inbox) < MaxInbox
  /\ \/ sid' = "joining" /\ inbox' = Append(inbox, Ask("accept", 0))
        /\ UNCHANGED <<waiting, client>>
     \/ sid' = Released /\ Set(FALSE) /\ UNCHANGED inbox
  /\ UNCHANGED <<want, cur, late, up, joined, answers>> /\ UNCHANGED targetVars

\* A join that failed is tried again with the next announcement; one that was
\* rejected ends Connect.
JoinSessionCB ==
  /\ joined # "none" /\ client = "connecting"
  /\ joined' = "none"
  /\ \/ joined = "ok" /\ sid' = "joined" /\ Set(TRUE)
     \/ joined = "rejected" /\ sid' = "none" /\ Set(FALSE)
     \/ joined = "failed" /\ sid' = "none" /\ UNCHANGED <<waiting, client>>
  /\ UNCHANGED <<want, cur, late, up, inbox, answers>> /\ UNCHANGED targetVars

-----------------------------------------------------------------------------
(* The console makes calls                                                 *)

Used == {inbox[i].id : i \in DOMAIN inbox} \union {fed.id, lastMsg.id, cur}

Call(kind) ==
  /\ Len(inbox) < MaxInbox
  /\ \E id \in Ids \ Used :
       /\ \A other \in Ids \ Used : id <= other
       /\ cur' = id
       /\ inbox' = Append(inbox, Ask(kind, id))

\* Mutant: a command is sent without a look at the status.
AskNobody(w) == FALSE

\* Resume, the steps, GetLocals, and Pause ask for the status first.
AsksStatus(w) == w \in PausedOnly \union {"pause"}

Command ==
  /\ client = "ready"
  /\ \E w \in Wants :
       /\ want' = w
       /\ IF AsksStatus(w) THEN client' = "asking" /\ Call("getStatus")
          ELSE client' = "calling" /\ Call(w)
  /\ UNCHANGED <<sid, waiting, late, up, joined, answers>> /\ UNCHANGED targetVars

Worth(status) == status = "paused" \/ (want = "pause" /\ status = "running")

TakeReply ==
  /\ client \in {"asking", "calling"}
  /\ \E a \in answers :
       /\ a.id = cur
       /\ answers' = answers \ {a}
       /\ IF client = "asking" /\ Worth(a.data)
          THEN client' = "calling" /\ Call(want) /\ UNCHANGED want
          ELSE client' = "ready" /\ want' = "none" /\ cur' = 0 /\ UNCHANGED inbox
  /\ UNCHANGED <<sid, waiting, late, up, joined>> /\ UNCHANGED targetVars

\* The router gives up on a call, and drops its reply; bound: once for a console.
CallTimesOut ==
  /\ client \in {"asking", "calling"} /\ ~late /\ \A a \in answers : a.id # cur
  /\ client' = "ready" /\ late' = TRUE /\ want' = "none" /\ cur' = 0
  /\ UNCHANGED <<sid, waiting, up, joined, inbox, answers>> /\ UNCHANGED targetVars

\* SessionLost and BusDisconnected end the process of the console.
SessionLost ==
  /\ up /\ Len(inbox) < MaxInbox
  /\ up' = FALSE /\ joined' = "none"
  /\ client' = "off" /\ sid' = "none" /\ waiting' = FALSE /\ want' = "none" /\ cur' = 0
  /\ late' = FALSE
  /\ inbox' = Append(inbox, Ask("lost", 0)) /\ answers' = {}
  /\ UNCHANGED targetVars

-----------------------------------------------------------------------------
(* The target                                                              *)

\* A reply that nobody waits for any more is dropped by the router.
Reply(m, data) ==
  answers' = IF m.id = cur THEN answers \union {[id |-> m.id, kind |-> m.kind, data |-> data]}
             ELSE answers

\* Mutant: the answer goes to the call before the last one.
AnswersFirst(m) == IF lastMsg = None THEN m ELSE lastMsg

\* DebugMsgUnmarshal notes the call that the reply of the interpreter is for.
SaveLast(m) == m

DebugCommandAllowed(kind) == dbg = "paused" \/ kind \in Commands \ {"resume"}

Refuse(m) == Reply(m, "busy")

\* Mutant: a command that cannot be encoded is dropped.
Silent(m) == UNCHANGED answers

\* Nothing is sent to the interpreter, and the caller gets an error.
Fail(m) == Reply(m, "error")

\* A command goes into the read buffer, or is answered at once.  An empty value
\* is noted, but neither sent nor answered.  A message for others is dropped.
DebugMsgUnmarshal(m) ==
  \/ /\ ~DebugCommandAllowed(m.kind) /\ UNCHANGED <<fed, lastMsg>>
     /\ IF m.kind = "accept" THEN joined' = "failed" /\ UNCHANGED answers
        ELSE Refuse(m) /\ UNCHANGED joined
  \/ /\ DebugCommandAllowed(m.kind) /\ m.kind = "lineTooLarge"
     /\ Fail(m) /\ UNCHANGED <<joined, fed, lastMsg>>
  \/ /\ DebugCommandAllowed(m.kind) /\ m.kind = "putEmpty"
     /\ lastMsg' = SaveLast(m) /\ UNCHANGED <<joined, answers, fed>>
  \/ /\ DebugCommandAllowed(m.kind) /\ m.kind \in Commands \ {"lineTooLarge", "putEmpty"}
     /\ fed' = m /\ lastMsg' = SaveLast(m) /\ UNCHANGED <<joined, answers>>
  \/ /\ DebugCommandAllowed(m.kind) /\ m.kind \notin Commands
     /\ joined' = IF m.kind = "accept" THEN "failed" ELSE joined
     /\ UNCHANGED <<answers, fed, lastMsg>>

\* Mutant: the watchdog and the interpreter stay as they are.
StopHalf == UNCHANGED <<dbg, watch, pausing>>

\* AJS_StopDebugger frees the state and detaches.
StopDebugger ==
  /\ dbg' = "none" /\ pausing' = FALSE
  /\ watch' = (watch \/ dbg # "none")

\* Where the thread goes on when the debugger is gone.
Leaves == target' = IF target = "stopped" /\ dbg' = "none" THEN "script"
                    ELSE IF target = "cooperate" THEN "loop" ELSE target

\* The message loop: AJS_ConsoleMsgHandler.
LoopTakes(m) ==
  \/ /\ m.kind = "accept"
     /\ IF console THEN joined' = "rejected" /\ UNCHANGED <<console, up>>
        ELSE joined' = "ok" /\ console' = TRUE /\ up' = TRUE
     /\ UNCHANGED <<answers, dbg, target, fed, lastMsg, pausing, watch>>
  \/ /\ m.kind # "accept" /\ ~console
     /\ UNCHANGED <<joined, up, answers>> /\ UNCHANGED targetVars
  \/ /\ m.kind = "lost" /\ console
     /\ console' = FALSE /\ StopDebugger
     /\ UNCHANGED <<joined, up, answers, target, fed, lastMsg>>
  \/ /\ m.kind = "begin" /\ console
     /\ IF dbg = "none"
        THEN dbg' = "running" /\ watch' = FALSE /\ Reply(m, "ok")
        ELSE UNCHANGED <<dbg, watch, answers>>
     /\ UNCHANGED <<joined, up, console, target, fed, lastMsg, pausing>>
  \/ /\ m.kind = "end" /\ console
     /\ Reply(m, "ok") /\ StopDebugger
     /\ UNCHANGED <<joined, up, console, target, fed, lastMsg>>
  \/ /\ m.kind = "getStatus" /\ console
     /\ Reply(m, dbg) /\ UNCHANGED <<joined, up>> /\ UNCHANGED targetVars
  \/ /\ m.kind \in Commands /\ console
     /\ IF dbg = "none" THEN Reply(m, "error") /\ UNCHANGED <<joined, target, fed, lastMsg>>
        ELSE target' = "cooperate" /\ DebugMsgUnmarshal(m)
     /\ UNCHANGED <<up, console, dbg, pausing, watch>>

\* DebuggerRead goes on reading until there is a command for the interpreter.
ReadTakes(m) ==
  \/ /\ m.kind = "lost"
     /\ console' = FALSE /\ StopDebugger /\ Leaves
     /\ UNCHANGED <<joined, answers, fed, lastMsg>>
  \/ /\ m.kind = "end"
     /\ Reply(m, "ok") /\ StopDebugger /\ Leaves
     /\ UNCHANGED <<joined, console, fed, lastMsg>>
  \/ /\ m.kind = "getStatus"
     /\ Reply(m, dbg) /\ UNCHANGED joined /\ UNCHANGED targetVars
  \/ /\ m.kind \notin {"lost", "end", "getStatus"}
     /\ DebugMsgUnmarshal(m)
     /\ UNCHANGED <<console, dbg, target, pausing, watch>>

Take ==
  /\ inbox # <<>> /\ inbox' = Tail(inbox)
  /\ \/ target = "loop" /\ LoopTakes(Head(inbox))
     \/ target \in {"cooperate", "stopped"} /\ fed = None /\ ReadTakes(Head(inbox))
        /\ UNCHANGED up
  /\ UNCHANGED clientVars

-----------------------------------------------------------------------------
(* The interpreter (external) and what DebuggerWrite makes of its messages *)

\* Mutant: any notification of a stop makes the status paused.
TrustState(inScript, st) == IF st = 1 THEN "paused" ELSE "running"

\* The status after a notification; without a function nothing is executing.
StatusOf(inScript, st) == IF ~inScript \/ st = 0 THEN "running" ELSE "paused"

\* It executes the command in the buffer and replies.
DukExecutes ==
  /\ fed # None /\ fed' = None
  /\ Reply(lastMsg, fed.kind) /\ lastMsg' = None
  /\ LET stopped == target = "stopped" IN
     \/ /\ fed.kind = "detach"
        /\ dbg' = "none" /\ pausing' = FALSE /\ Leaves
     \/ /\ fed.kind = "pause"
        /\ dbg' = StatusOf(stopped, 1) /\ pausing' = ~stopped /\ Leaves
     \/ /\ fed.kind \in {"resume", "step"} /\ stopped
        /\ dbg' = StatusOf(stopped, 0) /\ pausing' = (fed.kind = "step") /\ target' = "script"
     \/ /\ fed.kind \notin {"detach", "pause"} /\ ~(fed.kind \in {"resume", "step"} /\ stopped)
        /\ UNCHANGED <<dbg, pausing>> /\ Leaves
  /\ UNCHANGED <<clientVars, routerVars, inbox, console, watch>>

RunScript ==
  /\ target = "loop" /\ target' = "script"
  /\ UNCHANGED <<clientVars, routerVars, inbox, answers, console, dbg, fed, lastMsg, pausing,
                 watch>>

\* At a breakpoint, a debugger statement, after a step or when asked to.
Stop ==
  /\ target = "script" /\ dbg # "none"
  /\ target' = "stopped" /\ dbg' = StatusOf(TRUE, 1) /\ pausing' = FALSE
  /\ UNCHANGED <<clientVars, routerVars, inbox, answers, console, fed, lastMsg, watch>>

ScriptEnds ==
  /\ target = "script" /\ ~pausing /\ target' = "loop"
  /\ UNCHANGED <<clientVars, routerVars, inbox, answers, console, dbg, fed, lastMsg, pausing,
                 watch>>

Duk == DukExecutes \/ Stop \/ ScriptEnds

Next ==
  \/ Connect \/ Wait \/ Announced \/ JoinSessionCB
  \/ Command \/ TakeReply \/ CallTimesOut \/ SessionLost
  \/ Take \/ Duk \/ RunScript

\* The loop reads a message between two functions of the script.
Fairness ==
  SF_vars(Take) /\ WF_vars(Duk) /\ WF_vars(TakeReply) /\ WF_vars(Announced)
  /\ WF_vars(JoinSessionCB)

Spec == Init /\ [][Next]_vars /\ Fairness

-----------------------------------------------------------------------------
(* Properties                                                              *)

\* The status that getStatus reports, and that decides which commands are
\* allowed, is paused exactly while the interpreter has stopped a script: through
\* pauses without a script, steps, resumes, detaching and lost sessions.
StatusTruthful == (dbg = "paused") <=> (target = "stopped")

\* A call gets one answer, and the reply of the interpreter that answers it is
\* the one to its own command: the copy of the message in lastMsg never belongs
\* to another command than the one in the read buffer.
AnswersOwn ==
  /\ fed # None => lastMsg = fed
  /\ \A a, b \in answers : a = b
  /\ \A a \in answers : \A i \in DOMAIN inbox : inbox[i].id # a.id

\* The console asks for the status before a command that needs a stopped script;
\* unless one of its calls timed out and is still on its way, the script is then
\* still stopped and the target does not refuse.
RefusedOnlyLate ==
  \A a \in answers : (a.data = "busy" /\ a.kind # "begin") => late

\* A call is answered while the session lasts, in the message loop and in a
\* stopped script, except an empty value and a second begin, which are not.
CallsAnswered ==
  \A w \in Wants \ {"putEmpty", "begin"} :
    (client \in {"asking", "calling"} /\ want = w) ~> (client \in {"ready", "off"})

\* A script that was stopped when the session of its console was lost goes on.
ScriptResumes == (target = "stopped" /\ ~up) ~> (target # "stopped")

\* Connect comes to an end, unless the event is set between two waits.
ConnectEnds == (client = "connecting") ~> (client # "connecting" \/ sid = "joined")
=============================================================================
