------------------------------- MODULE Engine -------------------------------
(***************************************************************************)
(* The life of the script engine (AJS_Main and Run in src/src/ajs.c), the  *)
(* script console that installs scripts and locks itself out               *)
(* (src/src/ajs_console.c), and what both keep in NVRAM through            *)
(* src/src/ajs_storage_default.c: the script, its name and its size, which *)
(* are written one after the other, and the lockdown bit.                  *)
(*                                                                         *)
(* The power may fail between any two steps, and any write to NVRAM may    *)
(* fail.  A script is written in chunks, as they arrive from the console.  *)
(***************************************************************************)
EXTENDS Integers, Sequences

CONSTANTS
  Scripts,     \* the scripts that are installed
  Good,        \* those that evaluate without an error
  Chunks,      \* for each script, its length
  None,        \* no dataset
  MaxId,       \* bound: console sessions in a behaviour
  MaxInbox,    \* bound: messages on their way to the engine
  MaxCrashes   \* bound: power failures in a behaviour

ASSUME EngineAssumption ==
  /\ Good \subseteq Scripts /\ None \notin Scripts
  /\ Chunks \in [Scripts -> Nat \ {0}]
  /\ MaxId \in Nat /\ MaxInbox \in Nat /\ MaxCrashes \in Nat

VARIABLES
  nv,              \* the datasets in NVRAM
  pc,              \* where the engine is
  job,             \* the script being installed
  lockdown,        \* static: the lockdown bit, "unknown" until it is read
  busAttached,     \* static
  consoleSession,  \* static: the session of the controller, 0 if none
  leftover,        \* the engine holds what a script that failed left behind
  open,            \* the console sessions the bus holds for us
  inbox,           \* messages on their way, the next one first
  lastId,          \* the last session id the bus gave
  crashes,         \* power failures so far
  installed,       \* history: the last script that was installed to the end
  lockAcked,       \* history: the console was told that it is locked out
  torn             \* history: an installation was cut short by a power failure
                   \* or, on the command line, by an error

ram == <<job, lockdown, busAttached, consoleSession, leftover>>
bus == <<open, inbox, lastId>>
history == <<crashes, installed, lockAcked, torn>>
vars == <<nv, pc, ram, bus, history>>

NoData == [of |-> None, chunks |-> 0]
Names == Scripts \union {None}
Ids == 1..MaxId
App == MaxId + 1   \* the id of any session of the application

Steps == {"off", "cmdOpen", "cmdWrite", "cmdSize", "cmdName", "main", "script",
          "eval", "bad", "badName", "run", "loop", "open", "write", "discard",
          "discardName", "reply", "lock"}

Message == [type : {"ask", "lost"}, id : Ids \union {App}] \union
           [type : {"install"}, script : Scripts] \union [type : {"reset", "lock"}]

TypeOK ==
  /\ nv.name \in Names /\ nv.lock \in {"none", "empty", "unlocked", "locked"}
  /\ nv.data = NoData \/ (nv.data.of \in Scripts /\ nv.data.chunks \in 0..Chunks[nv.data.of])
  /\ nv.size \in {0} \union {Chunks[s] : s \in Scripts}   \* 0: no dataset
  /\ pc \in Steps /\ job \in Names
  /\ lockdown \in {"unknown", "unlocked", "locked"}
  /\ busAttached \in BOOLEAN /\ consoleSession \in {0} \union Ids /\ leftover \in BOOLEAN
  /\ open \subseteq Ids /\ inbox \in Seq(Message) /\ Len(inbox) <= MaxInbox
  /\ lastId \in 0..MaxId /\ crashes \in 0..MaxCrashes
  /\ installed \in Names /\ lockAcked \in BOOLEAN /\ torn \in BOOLEAN

Init ==
  /\ nv = [name |-> None, data |-> NoData, size |-> 0, lock |-> "none"]
  /\ pc = "off" /\ job = None /\ lockdown = "unknown" /\ busAttached = FALSE
  /\ consoleSession = 0 /\ leftover = FALSE
  /\ open = {} /\ inbox = <<>> /\ lastId = 0
  /\ crashes = 0 /\ installed = None /\ lockAcked = FALSE /\ torn = FALSE

-----------------------------------------------------------------------------
(* NVRAM                                                                   *)

Full(s) == [of |-> s, chunks |-> Chunks[s]]
Empty(s) == [of |-> s, chunks |-> 0]

\* What AJS_ReadScript makes of the datasets is a script, from its start to its end.
Whole(s) == nv.data = Full(s) /\ nv.size = Chunks[s]

\* A dataset opened for writing that cannot be created may take the old one with it.
Lost(field, nothing) == nv' = nv \/ nv' = [nv EXCEPT ![field] = nothing]

Stored(field, value) == nv' = [nv EXCEPT ![field] = value]

\* Mutant: the script that failed is kept.
KeepScript == nv' = nv

DeleteScript == Stored("data", NoData)

DeleteName == Stored("name", None)

\* Mutant: a chunk is written although nothing remains.
AppendAnyway(s) == nv' = [nv EXCEPT !.data.chunks = @ + 1]

\* AJS_WriteScript, for as long as a part of the length remains.
AppendChunk(s) ==
  nv.data.chunks < Chunks[s] /\ nv' = [nv EXCEPT !.data.chunks = @ + 1]

-----------------------------------------------------------------------------
(* The command line, where there is one, and AJS_Main                      *)

Goto(step) == pc' = step

PowerOn == pc = "off" /\ Goto("main") /\ UNCHANGED <<nv, ram, bus, history>>

\* The program starts with a script to install.
CmdLine ==
  /\ pc = "off" /\ Goto("cmdOpen") /\ job' \in Scripts
  /\ UNCHANGED <<nv, lockdown, busAttached, consoleSession, leftover, bus, history>>

\* AJS_InstallScript gives up where it is when a step fails, and the program ends.
CmdFails == Goto("off") /\ job' = None

CmdOpen ==
  /\ pc = "cmdOpen"
  /\ \/ Stored("data", Empty(job)) /\ Goto("cmdWrite") /\ UNCHANGED job
     \/ Lost("data", NoData) /\ CmdFails
  /\ UNCHANGED <<lockdown, busAttached, consoleSession, leftover, bus, history>>

CmdWrite ==
  /\ pc = "cmdWrite"
  /\ \/ Stored("data", Full(job)) /\ Goto("cmdSize") /\ UNCHANGED <<job, torn>>
     \/ CmdFails /\ torn' = TRUE /\ UNCHANGED nv
  /\ UNCHANGED <<lockdown, busAttached, consoleSession, leftover, bus, crashes,
                 installed, lockAcked>>

CmdSize ==
  /\ pc = "cmdSize"
  /\ \/ /\ Stored("size", Chunks[job]) /\ Goto("cmdName") /\ UNCHANGED job
        /\ torn' = FALSE /\ installed' = job
     \/ Lost("size", 0) /\ CmdFails /\ torn' = TRUE /\ UNCHANGED installed
  /\ UNCHANGED <<lockdown, busAttached, consoleSession, leftover, bus, crashes, lockAcked>>

CmdName ==
  /\ pc = "cmdName"
  /\ \/ Stored("name", job) /\ Goto("main") /\ job' = None
     \/ Lost("name", None) /\ CmdFails
  /\ UNCHANGED <<lockdown, busAttached, consoleSession, leftover, bus, history>>

\* AJS_GetLockdownState, when the static does not know: a bit that was never written is
\* written as unlocked, or is not; one that cannot be read stops AJS_Main.
Main ==
  /\ pc = "main"
  /\ \/ lockdown # "unknown" /\ UNCHANGED <<nv, lockdown>> /\ Goto("script")
     \/ /\ lockdown = "unknown" /\ nv.lock = "none"
        /\ Stored("lock", "unlocked") \/ Lost("lock", "empty")
        /\ lockdown' = "unlocked" /\ Goto("script")
     \/ /\ lockdown = "unknown" /\ nv.lock = "empty"
        /\ UNCHANGED <<nv, lockdown>> /\ Goto("off")
     \/ /\ lockdown = "unknown" /\ nv.lock \in {"unlocked", "locked"}
        /\ lockdown' = nv.lock /\ UNCHANGED nv /\ Goto("script")
  /\ UNCHANGED <<job, busAttached, consoleSession, leftover, bus, history>>

\* With a name, a script and a size, whatever AJS_ReadScript finds is evaluated.
\* Without one of them Run is entered with an engine that holds nothing.
LoadScript ==
  /\ pc = "script"
  /\ Goto(IF nv.name # None /\ nv.data # NoData /\ nv.size # 0 THEN "eval" ELSE "run")
  /\ UNCHANGED <<nv, ram, bus, history>>

\* What is not a whole script may evaluate or not.
Evaluate ==
  /\ pc = "eval"
  /\ \/ /\ \A s \in Scripts : Whole(s) => s \in Good
        /\ Goto("run") /\ UNCHANGED leftover
     \/ /\ \A s \in Scripts : Whole(s) => s \notin Good
        /\ Goto("bad") /\ leftover' = TRUE
  /\ UNCHANGED <<nv, job, lockdown, busAttached, consoleSession, bus, history>>

DeleteBadScript ==
  /\ pc = "bad" /\ DeleteScript /\ Goto("badName") /\ torn' = FALSE
  /\ UNCHANGED <<ram, bus, crashes, installed, lockAcked>>

\* The status RESTART_APP, as RESTART after AJS_ReadScript failed, is overwritten by
\* that of AJS_PropertyStoreInit: the engine goes on into Run.
DeleteBadName ==
  /\ pc = "badName" /\ DeleteName /\ Goto("run")
  /\ UNCHANGED <<ram, bus, history>>

\* Run ends with RESTART_APP: AJS_Main makes a new engine, the bus is kept.
RestartApp ==
  /\ Goto("script") /\ job' = None /\ leftover' = FALSE
  /\ UNCHANGED busAttached

Fresh ==
  /\ job' = None /\ lockdown' = "unknown" /\ busAttached' = FALSE
  /\ consoleSession' = 0 /\ leftover' = FALSE
  /\ open' = {} /\ inbox' = <<>>

\* Mutant: the controller is remembered when the bus is detached.
KeepController == consoleSession' = consoleSession

\* AJS_ConsoleTerminate, unless the console is locked out.
EndConsole == consoleSession' = IF lockdown = "unlocked" THEN 0 ELSE consoleSession

\* Run ends with another status: the console and the bus go, and AJS_Main returns.
\* After RESTART, or on a daemon, it is entered again, otherwise the program ends.
Leave ==
  \/ /\ EndConsole
     /\ job' = None /\ busAttached' = FALSE /\ leftover' = FALSE
     /\ open' = {} /\ inbox' = <<>> /\ UNCHANGED lockdown
     /\ Goto("main")
  \/ Fresh /\ Goto("off")

\* Run: the tables are built and the bus is attached unless it still is.
Run ==
  /\ pc = "run"
  /\ \/ /\ Goto("loop") /\ busAttached' = TRUE
        /\ UNCHANGED <<job, lockdown, consoleSession, leftover, open, inbox>>
     \/ Leave
  /\ UNCHANGED <<nv, lastId, history>>

\* A message cannot be read or delivered, or a restart, a factory reset or offboarding
\* is asked for.
LoopEnds == pc = "loop" /\ Leave /\ UNCHANGED <<nv, lastId, history>>

-----------------------------------------------------------------------------
(* The console, in the message loop                                        *)

Msg == Head(inbox)
Handling(type) == pc = "loop" /\ inbox # <<>> /\ Msg.type = type /\ inbox' = Tail(inbox)

\* The console handles a message if it is not locked out and has a controller.
Attached == lockdown = "unlocked" /\ consoleSession # 0

Ignored == UNCHANGED <<nv, pc, ram, open, history>>

\* Only one controller at a time; a locked console does not answer.
AcceptSession ==
  /\ Handling("ask")
  /\ \/ /\ lockdown = "unlocked" /\ consoleSession = 0
        /\ open' = open \union {Msg.id} /\ consoleSession' = Msg.id
        /\ UNCHANGED <<nv, pc, job, lockdown, busAttached, leftover, history>>
     \/ Ignored
  /\ UNCHANGED lastId

\* Mutant: any session that is lost takes the controller for lost.
AnyLost(id) == TRUE

IsController(id) == id = consoleSession

SessionLost ==
  /\ Handling("lost")
  /\ IF Attached /\ IsController(Msg.id)
     THEN /\ consoleSession' = 0
          /\ UNCHANGED <<nv, pc, job, lockdown, busAttached, leftover, open, history>>
     ELSE Ignored
  /\ UNCHANGED lastId

\* Install: the name is written, whether or not that succeeds, unless it cannot be read.
Install ==
  /\ Handling("install")
  /\ IF ~Attached THEN Ignored
     ELSE /\ job' = Msg.script
          /\ \/ Goto("discard") /\ UNCHANGED nv
             \/ /\ Goto("open") \/ Goto("discard")
                /\ Stored("name", job') \/ Lost("name", None)
          /\ UNCHANGED <<lockdown, busAttached, consoleSession, leftover, open, history>>
  /\ UNCHANGED lastId

\* The console gets an error reply and the loop goes on.
Answer == Goto("loop") /\ job' = None

OpenScript ==
  /\ pc = "open"
  /\ \/ Stored("data", Empty(job)) /\ Goto("write") /\ UNCHANGED job
     \/ Lost("data", NoData) /\ Goto("discard") /\ UNCHANGED job
     \/ DeleteName /\ Answer   \* the script is too long
  /\ UNCHANGED <<lockdown, busAttached, consoleSession, leftover, bus, history>>

\* Mutant: the size is left as it is.
KeepSize(s) == nv' = nv

StoreSize(s) == Stored("size", Chunks[s])

\* Chunks arrive and are written, then the size.
WriteScript ==
  /\ pc = "write"
  /\ \/ AppendChunk(job) /\ UNCHANGED <<pc, installed, torn>>
     \/ /\ nv.data = Full(job) /\ StoreSize(job) /\ Goto("reply")
        /\ installed' = job /\ torn' = FALSE
     \/ /\ nv' = nv \/ (nv.data = Full(job) /\ Lost("size", 0))
        /\ Goto("discard") /\ UNCHANGED <<installed, torn>>
  /\ UNCHANGED <<ram, bus, crashes, lockAcked>>

\* The console is told, and the engine restarts to run the script; if the reply cannot
\* be marshalled it does not restart.
ConfirmScript ==
  /\ pc = "reply"
  /\ \/ RestartApp \/ (Answer /\ UNCHANGED <<busAttached, leftover>>)
  /\ UNCHANGED <<nv, lockdown, consoleSession, bus, history>>

\* ErrorReply of Install.
Discard ==
  /\ pc = "discard" /\ DeleteScript /\ Goto("discardName") /\ torn' = FALSE
  /\ UNCHANGED <<ram, bus, crashes, installed, lockAcked>>

DiscardName ==
  /\ pc = "discardName" /\ DeleteName /\ Answer
  /\ UNCHANGED <<lockdown, busAttached, consoleSession, leftover, bus, history>>

Reset ==
  /\ Handling("reset")
  /\ \/ Attached /\ RestartApp /\ UNCHANGED <<nv, lockdown, consoleSession, open, history>>
     \/ Ignored
  /\ UNCHANGED lastId

\* AJS_LockConsole: the dataset is opened; if that fails the console is told so.
LockConsole ==
  /\ Handling("lock")
  /\ \/ Attached /\ Stored("lock", "empty") /\ Goto("lock")
     \/ Attached /\ Lost("lock", "none") /\ UNCHANGED pc
     \/ ~Attached /\ UNCHANGED <<nv, pc>>
  /\ UNCHANGED <<ram, open, lastId, history>>

\* Mutant: the static is written, before it is set.
LockStatic == Stored("lock", lockdown) \/ nv' = nv

WriteLock == Stored("lock", "locked") \/ nv' = nv

\* The bit is written, or is not, and the static is set.  The console is told, or not,
\* loses its session, and the engine restarts.
SetLock ==
  /\ pc = "lock"
  /\ WriteLock /\ lockdown' = "locked"
  /\ lockAcked' \in {lockAcked, TRUE}
  /\ open' = open \ {consoleSession} /\ consoleSession' = 0
  /\ RestartApp
  /\ UNCHANGED <<inbox, lastId, crashes, installed, torn>>

-----------------------------------------------------------------------------
(* The bus, the controllers and the power                                  *)

Send(m) == busAttached /\ Len(inbox) < MaxInbox /\ inbox' = Append(inbox, m)

BusAsk ==
  /\ lastId < MaxId /\ lastId' = lastId + 1
  /\ Send([type |-> "ask", id |-> lastId'])
  /\ UNCHANGED <<nv, pc, ram, open, history>>

\* A command needs a session of the console.
BusCommand ==
  /\ open # {}
  /\ \/ \E s \in Scripts : Send([type |-> "install", script |-> s])
     \/ \E type \in {"reset", "lock"} : Send([type |-> type])
  /\ UNCHANGED <<nv, pc, ram, open, lastId, history>>

\* A session ends, one of the console or of the application.
BusLose ==
  /\ \E id \in open \union {App} : Send([type |-> "lost", id |-> id]) /\ open' = open \ {id}
  /\ UNCHANGED <<nv, pc, ram, lastId, history>>

PowerFails ==
  /\ pc # "off" /\ crashes < MaxCrashes /\ crashes' = crashes + 1
  /\ Goto("off") /\ Fresh
  /\ torn' = (torn \/ pc \in {"write", "discard", "cmdWrite", "cmdSize"})
  /\ UNCHANGED <<nv, lastId, installed, lockAcked>>

Boot == PowerOn \/ CmdLine \/ CmdOpen \/ CmdWrite \/ CmdSize \/ CmdName \/ Main
        \/ LoadScript \/ Evaluate \/ DeleteBadScript \/ DeleteBadName \/ Run

Console == AcceptSession \/ SessionLost \/ Install \/ OpenScript \/ WriteScript
           \/ ConfirmScript \/ Discard \/ DiscardName \/ Reset \/ LockConsole \/ SetLock

Next == Boot \/ Console \/ LoopEnds \/ BusAsk \/ BusCommand \/ BusLose \/ PowerFails

Spec == Init /\ [][Next]_vars

\* The program runs on a thread of its own; whoever starts it when it has ended does not
\* give it a script to install every time.  Nothing makes the bus, the controllers or the
\* power do anything.
FairSpec == Spec /\ WF_vars(Boot) /\ WF_vars(Console) /\ SF_vars(PowerOn)

-----------------------------------------------------------------------------
(* Properties                                                              *)

\* What the engine evaluates is the last script that was installed to the end, and the
\* whole of it, whatever failed in between: unless an installation was cut short.
EvaluatesInstalled ==
  pc = "eval" /\ ~torn => installed # None /\ Whole(installed)

\* A console that was told of the lockdown is locked out for good: no controller has a
\* session, and no power failure or failed write to NVRAM lets one in again.
LockedForGood == lockAcked => open = {} /\ (pc = "loop" => lockdown = "locked")

\* There is one controller at a time, and the engine knows it: through restarts of the
\* engine that keep the bus, and those that do not.
OneController == open \subseteq {consoleSession} \ {0}

\* The console takes another controller when the one it had is gone, also if it goes
\* while a script is being installed.
ControllerFreed == consoleSession # 0 /\ open = {} ~> consoleSession = 0

\* A script that does not evaluate is not evaluated for ever: it goes, unless it is the
\* lockdown bit that keeps AJS_Main from running at all.
BadScriptGoes ==
  \A s \in Scripts : (pc = "bad" /\ Whole(s)) ~> (~Whole(s) \/ nv.lock = "empty")

\* What AJS_Main says of a script that failed: the engine is restarted before Run.
NothingLeftOver == pc = "loop" => ~leftover
=============================================================================
