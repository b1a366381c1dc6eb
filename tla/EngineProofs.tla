---------------------------- MODULE EngineProofs ----------------------------
(***************************************************************************)
(* Proofs about Engine for all scripts, lengths and bounds.                *)
(*                                                                         *)
(* None of the three properties is inductive.  That the engine knows its   *)
(* controller rests on what is on its way to it: a session that is asked   *)
(* for is new, one that is lost is not open any more.  That a lockdown     *)
(* lasts rests on the dataset, which a power failure leaves, and which is  *)
(* empty before it is written.  That a whole script is evaluated rests on  *)
(* the datasets in every step of an installation.                          *)
(***************************************************************************)
EXTENDS Engine, SequenceTheorems, TLAPS

\* The steps before the lockdown bit is known, and those of an installation.
Booting == {"off", "cmdOpen", "cmdWrite", "cmdSize", "cmdName", "main"}
Installing == {"cmdOpen", "cmdWrite", "cmdSize", "cmdName", "open", "write", "discard",
               "discardName", "reply"}
Writing == {"cmdWrite", "cmdSize", "write", "discard"}

\* NVRAM has a dataset of each name.
Shape == nv \in [name : Names, data : [of : Names, chunks : Nat], size : Nat,
                 lock : {"none", "empty", "unlocked", "locked"}]

JobKnown == pc \in Installing => job \in Scripts

\* The data that is written is that of the script being installed.
DataOfJob ==
  /\ pc \in {"cmdWrite", "write"} => nv.data.of = job
  /\ pc \in {"cmdSize", "reply"} => nv.data = Full(job)

Indices == 1..Len(inbox)
Is(i, type) == inbox[i].type = type

\* Sessions on the bus, or on their way, were given out.
GivenOut ==
  /\ open \subseteq 1..lastId
  /\ \A i \in Indices : Is(i, "ask") => inbox[i].id \in 1..lastId
  /\ \A i \in Indices : Is(i, "lost") => inbox[i].id \in (1..lastId) \union {App}

\* A session that is asked for was never open, and one that was lost is not.
AsksNew ==
  \A i \in Indices : Is(i, "ask") =>
    /\ inbox[i].id \notin open
    /\ \A j \in Indices : j # i /\ (Is(j, "ask") \/ Is(j, "lost")) => inbox[j].id # inbox[i].id

LostClosed == \A i \in Indices : Is(i, "lost") => inbox[i].id \notin open

\* The static knows the lockdown bit from AJS_Main on; once the console was told of it,
\* the dataset can no longer be read as unlocked.
LockKept ==
  /\ pc \notin Booting => lockdown # "unknown"
  /\ pc = "lock" => nv.lock = "empty"
  /\ lockAcked => open = {} /\ lockdown # "unlocked" /\ nv.lock \in {"empty", "locked"}

\* Between installations NVRAM has no script or the one that was installed last.
ScriptKept ==
  /\ ~torn /\ pc \notin Writing => nv.data = NoData \/ (installed # None /\ Whole(installed))
  /\ pc = "eval" => nv.data # NoData

IInv ==
  /\ TypeOK /\ Shape /\ JobKnown /\ DataOfJob
  /\ GivenOut /\ AsksNew /\ LostClosed /\ OneController
  /\ LockKept /\ ScriptKept
-----------------------------------------------------------------------------
(* Messages                                                                *)

\* Handling a message takes the first one.
LEMMA Taken ==
  ASSUME TypeOK, NEW type, Handling(type)
  PROVE  /\ pc = "loop" /\ 1 \in Indices /\ Msg = inbox[1] /\ Is(1, type) /\ Msg \in Message
         /\ inbox' \in Seq(Message) /\ Len(inbox') = Len(inbox) - 1
         /\ \A i \in 1..Len(inbox') : i + 1 \in Indices /\ inbox'[i] = inbox[i + 1]
<1>1. inbox \in Seq(Message) /\ inbox # <<>> /\ inbox' = Tail(inbox) /\ Msg = inbox[1]
  BY DEF TypeOK, Handling, Msg
<1>2. Len(inbox) \in Nat \ {0}
  BY <1>1, EmptySeq
<1>3. Len(inbox') = Len(inbox) - 1 /\ inbox' \in Seq(Message)
  BY <1>1, HeadTailProperties
<1>4. \A i \in 1..Len(inbox') : inbox'[i] = inbox[i + 1]
  BY <1>1, HeadTailProperties
<1> QED  BY <1>1, <1>2, <1>3, <1>4, ElementOfSeq DEF Handling, Indices, Is, Msg

\* Sending one puts it behind the others.
LEMMA Sent ==
  ASSUME TypeOK, NEW m \in Message, Send(m)
  PROVE  /\ inbox' \in Seq(Message) /\ Len(inbox') = Len(inbox) + 1
         /\ Len(inbox') <= MaxInbox /\ Len(inbox) \in Nat
         /\ inbox'[Len(inbox')] = m /\ \A i \in Indices : inbox'[i] = inbox[i]
<1>1. inbox \in Seq(Message) /\ Len(inbox) \in Nat /\ inbox' = Append(inbox, m)
      /\ Len(inbox) < MaxInbox /\ MaxInbox \in Nat
  BY EngineAssumption DEF TypeOK, Send
<1> QED  BY <1>1, AppendProperties DEF Indices

-----------------------------------------------------------------------------
(* Types                                                                   *)

\* What may be in the dataset of the script, and in that of its size.
Datum(d) ==
  d = NoData \/ (d \in [of : Scripts, chunks : Nat] /\ d.chunks \in 0..Chunks[d.of])
Sizes == {0} \union {Chunks[s] : s \in Scripts}

NvTypes == Shape /\ Datum(nv.data) /\ nv.size \in Sizes

\* The part of TypeOK that is not about NVRAM.
RamTypes ==
  /\ pc \in Steps /\ job \in Names
  /\ lockdown \in {"unknown", "unlocked", "locked"}
  /\ busAttached \in BOOLEAN /\ consoleSession \in {0} \union Ids /\ leftover \in BOOLEAN
  /\ installed \in Names /\ lockAcked \in BOOLEAN /\ torn \in BOOLEAN

BusTypes ==
  /\ open \subseteq Ids /\ inbox \in Seq(Message) /\ Len(inbox) <= MaxInbox
  /\ lastId \in 0..MaxId /\ crashes \in 0..MaxCrashes

LEMMA TypesSplit == TypeOK /\ Shape <=> NvTypes /\ RamTypes /\ BusTypes
<1>1. TypeOK /\ Shape => NvTypes /\ RamTypes /\ BusTypes
  <2> SUFFICES ASSUME TypeOK, Shape PROVE NvTypes /\ RamTypes /\ BusTypes
    OBVIOUS
  <2>1. nv.data \in [of : Names, chunks : Nat]
    BY DEF Shape
  <2>2. Datum(nv.data)
    BY <2>1 DEF TypeOK, Datum
  <2> QED  BY <2>2 DEF TypeOK, NvTypes, RamTypes, BusTypes, Sizes
<1>2. NvTypes /\ RamTypes /\ BusTypes => TypeOK /\ Shape
  BY DEF TypeOK, NvTypes, RamTypes, BusTypes, Sizes, Shape, Datum
<1> QED  BY <1>1, <1>2

\* The data that the steps of an installation store.
LEMMA DatumOfScript ==
  ASSUME NEW s \in Scripts
  PROVE  Datum(Full(s)) /\ Datum(Empty(s)) /\ Chunks[s] \in Sizes /\ Datum(NoData)
  BY EngineAssumption DEF Datum, Full, Empty, Sizes

LEMMA DataStored ==
  ASSUME NvTypes, NEW d, Datum(d), Stored("data", d)
  PROVE  /\ NvTypes' /\ nv'.data = d
         /\ nv'.name = nv.name /\ nv'.size = nv.size /\ nv'.lock = nv.lock
<1>1. d \in [of : Names, chunks : Nat]
  BY DEF Datum, NoData, Names
<1> QED  BY <1>1 DEF NvTypes, Shape, Stored

LEMMA NameStored ==
  ASSUME NvTypes, NEW s \in Names, Stored("name", s)
  PROVE  /\ NvTypes' /\ nv'.data = nv.data /\ nv'.size = nv.size /\ nv'.lock = nv.lock
  BY DEF NvTypes, Shape, Stored

LEMMA SizeStored ==
  ASSUME NvTypes, NEW n \in Sizes, Stored("size", n)
  PROVE  /\ NvTypes' /\ nv'.data = nv.data /\ nv'.size = n /\ nv'.lock = nv.lock
  BY EngineAssumption DEF NvTypes, Shape, Stored, Sizes

LEMMA LockStored ==
  ASSUME NvTypes, NEW bit \in {"none", "empty", "unlocked", "locked"}, Stored("lock", bit)
  PROVE  /\ NvTypes' /\ nv'.data = nv.data /\ nv'.size = nv.size /\ nv'.lock = bit
  BY DEF NvTypes, Shape, Stored

\* A write that fails leaves a dataset as it was or stores nothing.
LEMMA LostIsStored ==
  ASSUME NEW field, NEW nothing, Lost(field, nothing)
  PROVE  nv' = nv \/ Stored(field, nothing)
  BY DEF Lost, Stored

\* A chunk is added.
LEMMA ChunkAppended ==
  ASSUME NvTypes, NEW s \in Scripts, nv.data.of = s, AppendChunk(s)
  PROVE  NvTypes' /\ nv'.data.of = s /\ nv'.lock = nv.lock
<1>1. nv.data \in [of : Scripts, chunks : Nat] /\ nv.data.chunks \in 0..Chunks[s]
  BY EngineAssumption DEF NvTypes, Datum, NoData
<1>2. nv' = [nv EXCEPT !.data = [of |-> s, chunks |-> nv.data.chunks + 1]]
  BY <1>1 DEF AppendChunk, NvTypes, Shape
<1>3. Datum([of |-> s, chunks |-> nv.data.chunks + 1])
  BY <1>1, EngineAssumption DEF Datum, AppendChunk
<1> QED  BY <1>2, <1>3, DataStored DEF Stored

\* The session that is asked for next is a new one.
LEMMA AskTaken ==
  ASSUME IInv, Handling("ask")
  PROVE  Msg.id \in Ids /\ Msg.id # 0 /\ Msg.id \in 1..lastId /\ Msg.id \notin open
<1>1. 1 \in Indices /\ Msg = inbox[1] /\ Is(1, "ask")
  BY Taken DEF IInv
<1>2. lastId \in 0..MaxId /\ MaxId \in Nat
  BY EngineAssumption DEF IInv, TypeOK
<1> QED  BY <1>1, <1>2 DEF IInv, GivenOut, AsksNew, Ids

\* The variables outside NVRAM and the bus keep their types.
LEMMA NextRamTypes == IInv /\ [Next]_vars => RamTypes'
<1> SUFFICES ASSUME IInv, [Next]_vars PROVE RamTypes'
  OBVIOUS
<1> USE DEF RamTypes, Steps, Goto, ram, history
<1>0. TypeOK /\ NvTypes /\ RamTypes /\ BusTypes /\ JobKnown /\ GivenOut /\ None \in Names
      /\ (pc \in Installing => job \in Scripts /\ job \in Names)
  BY TypesSplit DEF IInv, Names, JobKnown
<1> USE <1>0 DEF Installing
<1>1. CASE PowerOn
  BY <1>1 DEF PowerOn
<1>2. CASE CmdLine
  BY <1>2 DEF CmdLine, Names
<1>3. CASE CmdOpen
  BY <1>3 DEF CmdOpen, CmdFails
<1>4. CASE CmdWrite
  BY <1>4 DEF CmdWrite, CmdFails
<1>5. CASE CmdSize
  BY <1>5 DEF CmdSize, CmdFails
<1>6. CASE CmdName
  BY <1>6 DEF CmdName, CmdFails
<1>7. CASE Main
  BY <1>7 DEF Main, NvTypes, Shape
<1>8. CASE LoadScript
  BY <1>8 DEF LoadScript
<1>9. CASE Evaluate
  BY <1>9 DEF Evaluate
<1>10. CASE DeleteBadScript \/ DeleteBadName
  BY <1>10 DEF DeleteBadScript, DeleteBadName
<1>11. CASE Run \/ LoopEnds
  BY <1>11 DEF Run, LoopEnds, Leave, EndConsole, Fresh
<1>12. CASE AcceptSession
  BY <1>12, AskTaken DEF AcceptSession, Ignored
<1>13. CASE SessionLost
  BY <1>13 DEF SessionLost, Ignored
<1>14. CASE Install
  BY <1>14, Taken DEF Install, Ignored, Message, Is, Names
<1>15. CASE OpenScript
  BY <1>15 DEF OpenScript, Answer
<1>16. CASE WriteScript
  BY <1>16 DEF WriteScript
<1>17. CASE ConfirmScript
  BY <1>17 DEF ConfirmScript, RestartApp, Answer
<1>18. CASE Discard \/ DiscardName
  BY <1>18 DEF Discard, DiscardName, Answer
<1>19. CASE Reset
  BY <1>19 DEF Reset, RestartApp, Ignored
<1>20. CASE LockConsole
  BY <1>20 DEF LockConsole
<1>21. CASE SetLock
  BY <1>21 DEF SetLock, RestartApp
<1>22. CASE BusAsk \/ BusCommand \/ BusLose
  BY <1>22 DEF BusAsk, BusCommand, BusLose
<1>23. CASE PowerFails
  BY <1>23 DEF PowerFails, Fresh
<1>24. CASE UNCHANGED vars
  BY <1>24 DEF vars, bus
<1> QED  BY <1>1, <1>2, <1>3, <1>4, <1>5, <1>6, <1>7, <1>8, <1>9, <1>10, <1>11, <1>12, <1>13,
         <1>14, <1>15, <1>16, <1>17, <1>18, <1>19, <1>20, <1>21, <1>22, <1>23, <1>24 DEF Next,
         Boot, Console

\* NVRAM keeps its types, and few actions touch the lockdown bit.
OnLock == pc \in {"main", "lock"} \/ (pc = "loop" /\ Msg.type = "lock")

LEMMA NextNvTypes == IInv /\ [Next]_vars => NvTypes' /\ (nv'.lock = nv.lock \/ OnLock)
<1> SUFFICES ASSUME IInv, [Next]_vars PROVE NvTypes' /\ (nv'.lock = nv.lock \/ OnLock)
  OBVIOUS
<1>1. NvTypes /\ None \in Names /\ 0 \in Sizes /\ (nv' = nv => NvTypes')
      /\ Datum(NoData)
      /\ (pc \in Installing => job \in Scripts /\ job \in Names)
      /\ (pc = "write" => nv.data.of = job)
  BY TypesSplit DEF IInv, Names, JobKnown, Sizes, NvTypes, Shape, Datum, DataOfJob
<1>2. job' \in Names
  BY NextRamTypes DEF RamTypes
<1> USE <1>1 DEF Installing
<1>3. CASE PowerOn \/ CmdLine \/ LoadScript \/ Evaluate \/ Run \/ LoopEnds
  BY <1>3 DEF PowerOn, CmdLine, LoadScript, Evaluate, Run, LoopEnds
<1>4. CASE CmdOpen
  BY <1>4, DatumOfScript, DataStored, LostIsStored DEF CmdOpen
<1>5. CASE CmdWrite
  BY <1>5, DatumOfScript, DataStored DEF CmdWrite
<1>6. CASE CmdSize
  BY <1>6, DatumOfScript, SizeStored, LostIsStored DEF CmdSize
<1>7. CASE CmdName
  BY <1>7, NameStored, LostIsStored DEF CmdName
<1>8. CASE Main
  BY <1>8, LockStored, LostIsStored DEF Main, OnLock
<1>9. CASE DeleteBadScript \/ Discard
  BY <1>9, DatumOfScript, DataStored DEF DeleteBadScript, Discard, DeleteScript
<1>10. CASE DeleteBadName \/ DiscardName
  BY <1>10, NameStored DEF DeleteBadName, DiscardName, DeleteName
<1>11. CASE AcceptSession \/ SessionLost \/ ConfirmScript \/ Reset
  BY <1>11 DEF AcceptSession, SessionLost, ConfirmScript, Reset, Ignored
<1>12. CASE Install
  BY <1>12, NameStored, LostIsStored, <1>2 DEF Install, Ignored
<1>13. CASE OpenScript
  BY <1>13, DatumOfScript, DataStored, NameStored, LostIsStored DEF OpenScript, DeleteName
<1>14. CASE WriteScript
  BY <1>14, DatumOfScript, SizeStored, LostIsStored, ChunkAppended DEF WriteScript, StoreSize
<1>15. CASE LockConsole
  BY <1>15, LockStored, LostIsStored DEF LockConsole, Handling, OnLock
<1>16. CASE SetLock
  BY <1>16, LockStored DEF SetLock, WriteLock, OnLock
<1>17. CASE BusAsk \/ BusCommand \/ BusLose \/ PowerFails
  BY <1>17 DEF BusAsk, BusCommand, BusLose, PowerFails
<1>18. CASE UNCHANGED vars
  BY <1>18 DEF vars
<1> QED  BY <1>3, <1>4, <1>5, <1>6, <1>7, <1>8, <1>9, <1>10, <1>11, <1>12, <1>13, <1>14, <1>15,
         <1>16, <1>17, <1>18 DEF Next, Boot, Console

-----------------------------------------------------------------------------
(* The sessions of the console                                             *)

BusInv == BusTypes /\ GivenOut /\ AsksNew /\ LostClosed

\* A message is handled; the session that it asks for may be opened.
LEMMA HandledBus ==
  ASSUME IInv, NEW type, Handling(type), UNCHANGED <<lastId, crashes>>,
         open' = open \/ (type = "ask" /\ open' = open \union {Msg.id})
  PROVE  BusInv'
<1>1. /\ BusTypes /\ GivenOut /\ AsksNew /\ LostClosed /\ Len(inbox) \in Nat /\ MaxInbox \in Nat
  BY TypesSplit, EngineAssumption, LenProperties DEF IInv, BusTypes
<1>2. /\ 1 \in Indices /\ Msg = inbox[1] /\ Is(1, type) /\ inbox' \in Seq(Message)
      /\ Len(inbox') = Len(inbox) - 1 /\ Len(inbox') \in Nat
      /\ \A i \in 1..Len(inbox') : i + 1 \in Indices /\ inbox'[i] = inbox[i + 1]
  BY Taken, LenProperties DEF IInv
<1>3. type = "ask" => Msg.id \in Ids /\ Msg.id \in 1..lastId /\ Msg.id \notin open
  BY AskTaken
<1>4. \A i \in Indices' : /\ i + 1 \in Indices /\ inbox'[i] = inbox[i + 1] /\ i + 1 # 1
  BY <1>2 DEF Indices
<1>5. BusTypes'
  BY <1>1, <1>2, <1>3 DEF BusTypes
<1>6. GivenOut'
  BY <1>1, <1>3, <1>4 DEF GivenOut, Is, App
<1>7. \A i, j \in Indices' : i # j => i + 1 # j + 1
  BY <1>2 DEF Indices
<1>8. AsksNew'
  <2> SUFFICES ASSUME NEW i \in Indices', Is(i, "ask")'
               PROVE  /\ inbox'[i].id \notin open'
                      /\ \A j \in Indices' : j # i /\ (Is(j, "ask") \/ Is(j, "lost"))'
                           => inbox'[j].id # inbox'[i].id
    BY DEF AsksNew
  <2>1. i + 1 \in Indices /\ Is(i + 1, "ask") /\ inbox'[i] = inbox[i + 1]
    BY <1>4 DEF Is
  <2>2. inbox'[i].id \notin open'
    BY <1>1, <1>2, <1>4, <2>1 DEF AsksNew, Is
  <2>3. ASSUME NEW j \in Indices', j # i, (Is(j, "ask") \/ Is(j, "lost"))'
        PROVE  inbox'[j].id # inbox'[i].id
    <3>1. /\ j + 1 \in Indices /\ inbox'[j] = inbox[j + 1] /\ j + 1 # i + 1
          /\ Is(j + 1, "ask") \/ Is(j + 1, "lost")
      BY <1>4, <1>7, <2>3 DEF Is
    <3> QED  BY <1>1, <2>1, <3>1 DEF AsksNew
  <2> QED  BY <2>2, <2>3
<1>9. LostClosed'
  BY <1>1, <1>2, <1>3, <1>4 DEF LostClosed, AsksNew, Is
<1> QED  BY <1>5, <1>6, <1>8, <1>9 DEF BusInv

\* A message is sent: a session that is asked for is new, one that is lost closed.
LEMMA SentBus ==
  ASSUME IInv, NEW m \in Message, Send(m), crashes' = crashes,
         lastId' \in lastId..MaxId, open' \subseteq open,
         m.type = "ask" => lastId' = lastId + 1 /\ m.id = lastId',
         m.type = "lost" => m.id \in open \union {App} /\ m.id \notin open'
  PROVE  BusInv'
<1>1. /\ BusTypes /\ GivenOut /\ AsksNew /\ LostClosed /\ MaxId \in Nat /\ lastId \in 0..MaxId
  BY TypesSplit, EngineAssumption DEF IInv, BusTypes
<1>2. /\ inbox' \in Seq(Message) /\ Len(inbox') = Len(inbox) + 1
      /\ Len(inbox') <= MaxInbox /\ Len(inbox) \in Nat
      /\ inbox'[Len(inbox')] = m /\ \A i \in Indices : inbox'[i] = inbox[i]
  BY Sent DEF IInv
<1>3. \A i \in Indices' : (i \in Indices /\ inbox'[i] = inbox[i])
                          \/ (i = Len(inbox') /\ inbox'[i] = m)
  <2>1. Indices' = 1..Len(inbox) + 1 /\ Indices = 1..Len(inbox)
    BY <1>2 DEF Indices
  <2>2. \A i \in Indices' : i \in Indices \/ i = Len(inbox) + 1
    BY <1>2, <2>1
  <2>3. inbox'[Len(inbox) + 1] = m /\ Len(inbox') = Len(inbox) + 1
    BY <1>2
  <2> QED  BY <1>2, <2>2, <2>3
<1>4. BusTypes'
  BY <1>1, <1>2 DEF BusTypes
<1>5. lastId + 1 \in Nat /\ lastId \in Nat /\ lastId' \in Nat /\ lastId <= lastId'
  BY <1>1
<1>6. \A n \in 1..lastId : n \in 1..lastId' /\ n # lastId + 1 /\ n # App
  BY <1>1, <1>5 DEF App
<1>7. GivenOut'
  <2>1. open' \subseteq 1..lastId'
    BY <1>1, <1>6 DEF GivenOut
  <2>2. ASSUME NEW i \in Indices', Is(i, "ask")' PROVE inbox'[i].id \in 1..lastId'
    BY <1>1, <1>3, <1>5, <1>6, <2>2 DEF GivenOut, Is
  <2>3. ASSUME NEW i \in Indices', Is(i, "lost")'
        PROVE  inbox'[i].id \in (1..lastId') \union {App}
    BY <1>1, <1>3, <1>6, <2>3 DEF GivenOut, Is
  <2> QED  BY <2>1, <2>2, <2>3 DEF GivenOut, App
<1>8. AsksNew'
  <2> SUFFICES ASSUME NEW i \in Indices', Is(i, "ask")'
               PROVE  /\ inbox'[i].id \notin open'
                      /\ \A j \in Indices' : j # i /\ (Is(j, "ask")' \/ Is(j, "lost")')
                           => inbox'[j].id # inbox'[i].id
    BY DEF AsksNew
  <2>1. CASE i \in Indices /\ inbox'[i] = inbox[i]
    <3>1. inbox[i].id \in 1..lastId /\ inbox[i].id \notin open
      BY <1>1, <2>1 DEF GivenOut, AsksNew, Is
    <3>2. ASSUME NEW j \in Indices', j # i, Is(j, "ask")' \/ Is(j, "lost")'
          PROVE  inbox'[j].id # inbox'[i].id
      <4>1. CASE j \in Indices /\ inbox'[j] = inbox[j]
        BY <1>1, <2>1, <3>2, <4>1 DEF AsksNew, Is
      <4>2. CASE inbox'[j] = m
        BY <1>6, <2>1, <3>1, <3>2, <4>2 DEF Is
      <4> QED  BY <1>3, <4>1, <4>2
    <3> QED  BY <2>1, <3>1, <3>2
  <2>2. CASE i = Len(inbox') /\ inbox'[i] = m
    <3>1. m.type = "ask" /\ m.id = lastId + 1
      BY <2>2 DEF Is
    <3>2. m.id \notin open'
      BY <1>1, <1>6, <3>1 DEF GivenOut
    <3>3. ASSUME NEW j \in Indices', j # i, Is(j, "ask")' \/ Is(j, "lost")'
          PROVE  inbox'[j].id # m.id
      <4>1. j \in Indices /\ inbox'[j] = inbox[j]
        BY <1>3, <2>2, <3>3
      <4>2. inbox[j].id \in (1..lastId) \union {App}
        BY <1>1, <3>3, <4>1 DEF GivenOut, Is
      <4>3. lastId + 1 # App
        BY <1>1, <3>1 DEF App
      <4> QED  BY <1>6, <3>1, <4>1, <4>2, <4>3
    <3> QED  BY <2>2, <3>2, <3>3
  <2> QED  BY <1>3, <2>1, <2>2
<1>9. LostClosed'
  BY <1>1, <1>3 DEF LostClosed, Is
<1> QED  BY <1>4, <1>7, <1>8, <1>9 DEF BusInv

\* The bus is detached: nothing is open or on its way.
LEMMA DetachedBus ==
  ASSUME IInv, open' = {}, inbox' = <<>>, lastId' = lastId, crashes' \in 0..MaxCrashes
  PROVE  BusInv'
<1>1. Len(inbox') = 0 /\ inbox' \in Seq(Message) /\ Indices' = {}
  BY EmptySeq DEF Indices
<1> QED  BY <1>1, EngineAssumption DEF IInv, TypeOK, BusInv, BusTypes, GivenOut, AsksNew, LostClosed

\* A step that leaves the bus alone, but for the sessions it closes.
LEMMA ClosedBus ==
  ASSUME IInv, open' \subseteq open, UNCHANGED <<inbox, lastId, crashes>>
  PROVE  BusInv'
<1>1. BusTypes /\ GivenOut /\ AsksNew /\ LostClosed /\ Indices' = Indices
  BY TypesSplit DEF IInv, Indices
<1>2. BusTypes'
  BY <1>1 DEF BusTypes
<1>3. GivenOut'
  BY <1>1 DEF GivenOut, Is, App
<1>4. AsksNew'
  BY <1>1 DEF AsksNew, Is
<1>5. LostClosed'
  BY <1>1 DEF LostClosed, Is
<1> QED  BY <1>2, <1>3, <1>4, <1>5 DEF BusInv

\* The actions that leave the bus alone.
OffBus ==
  PowerOn \/ CmdLine \/ CmdOpen \/ CmdWrite \/ CmdSize \/ CmdName \/ Main \/ LoadScript
  \/ Evaluate \/ DeleteBadScript \/ DeleteBadName \/ OpenScript \/ WriteScript
  \/ ConfirmScript \/ Discard \/ DiscardName

LEMMA OffBusKeeps == OffBus => UNCHANGED <<consoleSession, open, inbox, lastId, crashes>>
BY DEF OffBus, PowerOn, CmdLine, CmdOpen, CmdWrite, CmdSize, CmdName, Main, LoadScript,
       Evaluate, DeleteBadScript, DeleteBadName, OpenScript, WriteScript, ConfirmScript,
       RestartApp, Answer, Discard, DiscardName, ram, bus, history

\* Whatever is sent, opened, lost or cut off, ids on the bus stay new or closed.
LEMMA NextBusInv == IInv /\ [Next]_vars => BusInv'
<1> SUFFICES ASSUME IInv, [Next]_vars PROVE BusInv'
  OBVIOUS
<1> USE DEF ram, bus, history
<1>0. MaxId \in Nat /\ lastId \in 0..MaxId /\ crashes \in 0..MaxCrashes /\ MaxCrashes \in Nat
  BY EngineAssumption DEF IInv, TypeOK
<1>1. CASE OffBus
  BY <1>1, OffBusKeeps, ClosedBus
<1>2. CASE Run \/ LoopEnds
  BY <1>0, <1>2, DetachedBus, ClosedBus DEF Run, LoopEnds, Leave, Fresh
<1>3. CASE AcceptSession
  BY <1>3, HandledBus DEF AcceptSession, Ignored
<1>4. CASE SessionLost
  BY <1>4, HandledBus DEF SessionLost, Ignored
<1>5. CASE Install
  BY <1>5, HandledBus DEF Install, Ignored
<1>6. CASE Reset
  BY <1>6, HandledBus DEF Reset, Ignored
<1>7. CASE LockConsole
  BY <1>7, HandledBus DEF LockConsole
<1>8. CASE SetLock
  BY <1>8, ClosedBus DEF SetLock
<1>9. CASE BusAsk
  <2>1. [type |-> "ask", id |-> lastId'] \in Message /\ lastId' \in lastId..MaxId
    BY <1>0, <1>9 DEF BusAsk, Message, Ids
  <2> QED  BY <1>9, <2>1, SentBus DEF BusAsk
<1>10. CASE BusCommand
  <2>1. /\ \A x \in Scripts : [type |-> "install", script |-> x] \in Message
        /\ \A type \in {"reset", "lock"} : [type |-> type] \in Message
    BY DEF Message
  <2>2. lastId' \in lastId..MaxId
    BY <1>0, <1>10 DEF BusCommand
  <2> QED  BY <1>10, <2>1, <2>2, SentBus DEF BusCommand
<1>11. CASE BusLose
  <2>1. PICK id \in open \union {App} :
          Send([type |-> "lost", id |-> id]) /\ open' = open \ {id}
    BY <1>11 DEF BusLose
  <2>2. [type |-> "lost", id |-> id] \in Message /\ lastId' \in lastId..MaxId
    BY <1>0, <1>11, <2>1 DEF BusLose, Message, IInv, TypeOK
  <2> QED  BY <1>11, <2>1, <2>2, SentBus DEF BusLose
<1>12. CASE PowerFails
  <2>1. crashes' \in 0..MaxCrashes
    BY <1>0, <1>12 DEF PowerFails
  <2> QED  BY <1>12, <2>1, DetachedBus DEF PowerFails, Fresh
<1>13. CASE UNCHANGED vars
  BY <1>13, ClosedBus DEF vars
<1> QED
  BY <1>1, <1>2, <1>3, <1>4, <1>5, <1>6, <1>7, <1>8, <1>9, <1>10, <1>11, <1>12, <1>13
     DEF Next, Boot, Console, OffBus

\* The session that the engine takes for that of its controller is the only one open.
LEMMA NextOneController == IInv /\ [Next]_vars => OneController'
<1> SUFFICES ASSUME IInv, [Next]_vars PROVE OneController'
  OBVIOUS
<1> USE DEF OneController, ram, bus, history
<1>0. OneController
  BY DEF IInv
<1>1. CASE OffBus
  BY <1>0, <1>1, OffBusKeeps
<1>2. CASE Run \/ LoopEnds \/ PowerFails
  BY <1>0, <1>2 DEF Run, LoopEnds, PowerFails, Leave, Fresh
<1>3. CASE AcceptSession
  BY <1>0, <1>3, AskTaken DEF AcceptSession, Ignored
<1>4. CASE SessionLost
  <2>1. Msg.id \notin open
    BY <1>4, Taken DEF SessionLost, IInv, LostClosed
  <2> QED  BY <1>0, <1>4, <2>1 DEF SessionLost, IsController, Ignored
<1>5. CASE Install \/ Reset \/ LockConsole
  BY <1>0, <1>5 DEF Install, Reset, LockConsole, RestartApp, Ignored
<1>6. CASE SetLock
  BY <1>0, <1>6 DEF SetLock
<1>7. CASE BusAsk \/ BusCommand \/ BusLose
  BY <1>0, <1>7 DEF BusAsk, BusCommand, BusLose
<1>8. CASE UNCHANGED vars
  BY <1>0, <1>8 DEF vars
<1> QED  BY <1>1, <1>2, <1>3, <1>4, <1>5, <1>6, <1>7, <1>8 DEF Next, Boot, Console, OffBus

-----------------------------------------------------------------------------
(* The lockdown                                                            *)

\* AJS_Main reads the bit or gives it a value.
LEMMA MainReads ==
  ASSUME IInv, Main
  PROVE  /\ pc' = "script" => lockdown' # "unknown"
         /\ lockAcked => lockdown' # "unlocked" /\ nv'.lock \in {"empty", "locked"}
<1>1. TypeOK /\ LockKept
  BY DEF IInv
<1> QED  BY <1>1 DEF Main, LockKept, TypeOK, Goto

\* The lockdown stays known, and stays in NVRAM once the console was told of it.
LEMMA NextLockKept == IInv /\ [Next]_vars => LockKept'
<1> SUFFICES ASSUME IInv, [Next]_vars PROVE LockKept'
  OBVIOUS
<1> USE DEF LockKept, Booting, Goto, ram, bus, history
<1>0. LockKept /\ OneController /\ TypeOK /\ (OnLock \/ nv'.lock = nv.lock)
  BY NextNvTypes DEF IInv
<1>1. CASE PowerOn \/ CmdLine \/ CmdOpen \/ CmdWrite \/ CmdSize \/ CmdName
  BY <1>0, <1>1 DEF PowerOn, CmdLine, CmdOpen, CmdWrite, CmdSize, CmdName, CmdFails, OnLock
<1>2. CASE Main
  BY <1>0, <1>2, MainReads DEF Main
<1>3. CASE LoadScript \/ Evaluate \/ DeleteBadScript \/ DeleteBadName
  BY <1>0, <1>3 DEF LoadScript, Evaluate, DeleteBadScript, DeleteBadName, OnLock
<1>4. CASE Run \/ LoopEnds \/ PowerFails
  BY <1>0, <1>4 DEF Run, LoopEnds, PowerFails, Leave, Fresh
<1>5. CASE AcceptSession \/ SessionLost \/ Install \/ Reset
  BY <1>0, <1>5 DEF AcceptSession, SessionLost, Install, Reset, Ignored, RestartApp, Attached,
                    Handling, OnLock
<1>6. CASE OpenScript \/ WriteScript \/ ConfirmScript \/ Discard \/ DiscardName
  BY <1>0, <1>6 DEF OpenScript, WriteScript, ConfirmScript, Discard, DiscardName, Answer,
                    RestartApp, OnLock
<1>7. CASE LockConsole
  BY <1>0, <1>7, LockStored, LostIsStored, TypesSplit
     DEF LockConsole, Attached, Handling, IInv
<1>8. CASE SetLock
  <2>1. nv'.lock \in {"empty", "locked"} /\ lockdown' = "locked" /\ open' = {} /\ pc' = "script"
    BY <1>0, <1>8, LockStored, TypesSplit
       DEF SetLock, WriteLock, RestartApp, OneController, IInv
  <2> QED  BY <2>1
<1>9. CASE BusAsk \/ BusCommand \/ BusLose
  <2>1. open' \subseteq open /\ UNCHANGED <<nv, pc, lockdown, lockAcked>>
    BY <1>9 DEF BusAsk, BusCommand, BusLose
  <2> QED  BY <1>0, <2>1
<1>10. CASE UNCHANGED vars
  BY <1>0, <1>10 DEF vars
<1> QED
  BY <1>1, <1>2, <1>3, <1>4, <1>5, <1>6, <1>7, <1>8, <1>9, <1>10 DEF Next, Boot, Console

-----------------------------------------------------------------------------
(* The script                                                              *)

\* During an installation the script, and the data stored of it, are known.
LEMMA NextJob == IInv /\ [Next]_vars => JobKnown' /\ DataOfJob'
<1> SUFFICES ASSUME IInv, [Next]_vars PROVE JobKnown' /\ DataOfJob'
  OBVIOUS
<1> USE DEF JobKnown, DataOfJob, Installing, Goto, ram, bus, history
<1>0. JobKnown /\ DataOfJob /\ NvTypes
  BY TypesSplit DEF IInv
<1>1. CASE PowerOn \/ CmdLine \/ Main \/ LoadScript \/ Evaluate
  BY <1>1 DEF PowerOn, CmdLine, Main, LoadScript, Evaluate
<1>2. CASE CmdOpen
  BY <1>0, <1>2, DataStored, DatumOfScript DEF CmdOpen, CmdFails, Empty
<1>3. CASE CmdWrite
  BY <1>0, <1>3, DataStored, DatumOfScript DEF CmdWrite, CmdFails, Full
<1>4. CASE CmdSize \/ CmdName
  BY <1>0, <1>4 DEF CmdSize, CmdName, CmdFails
<1>5. CASE DeleteBadScript \/ DeleteBadName \/ DiscardName
  BY <1>5 DEF DeleteBadScript, DeleteBadName, DiscardName, Answer
<1>6. CASE Run \/ LoopEnds \/ PowerFails
  BY <1>6 DEF Run, LoopEnds, PowerFails, Leave, Fresh
<1>7. CASE AcceptSession \/ SessionLost \/ Reset \/ LockConsole \/ SetLock
  BY <1>7 DEF AcceptSession, SessionLost, Reset, LockConsole, SetLock, Ignored, RestartApp,
              Handling
<1>8. CASE Install
  <2>1. Msg.script \in Scripts
    BY <1>8, Taken DEF Install, IInv, Is, Message
  <2> QED  BY <1>8, <2>1 DEF Install, Ignored, Handling
<1>9. CASE OpenScript
  BY <1>0, <1>9, DataStored, DatumOfScript DEF OpenScript, Answer, Empty
<1>10. CASE WriteScript
  <2>1. job' = job /\ job \in Scripts /\ nv.data.of = job /\ pc = "write"
    BY <1>0, <1>10 DEF WriteScript
  <2>2. CASE AppendChunk(job) /\ UNCHANGED <<pc, installed, torn>>
    BY <1>0, <2>1, <2>2, ChunkAppended
  <2>3. CASE nv.data = Full(job) /\ StoreSize(job) /\ Goto("reply")
    BY <1>0, <2>1, <2>3, SizeStored, DatumOfScript DEF StoreSize, Full
  <2>4. CASE Goto("discard")
    BY <2>1, <2>4
  <2> QED  BY <1>10, <2>2, <2>3, <2>4 DEF WriteScript
<1>11. CASE ConfirmScript \/ Discard
  BY <1>0, <1>11 DEF ConfirmScript, Discard, RestartApp, Answer
<1>12. CASE BusAsk \/ BusCommand \/ BusLose
  BY <1>0, <1>12 DEF BusAsk, BusCommand, BusLose, Full
<1>13. CASE UNCHANGED vars
  BY <1>0, <1>13 DEF vars, Full
<1> QED
  BY <1>1, <1>2, <1>3, <1>4, <1>5, <1>6, <1>7, <1>8, <1>9, <1>10, <1>11, <1>12, <1>13
     DEF Next, Boot, Console

\* What is in NVRAM stays a script that was installed to the end, or none.
LEMMA NextScriptKept == IInv /\ [Next]_vars => ScriptKept'
<1> SUFFICES ASSUME IInv, [Next]_vars PROVE ScriptKept'
  OBVIOUS
<1> USE DEF ScriptKept, Writing, Goto, ram, bus, history
<1>0. /\ ScriptKept /\ DataOfJob /\ NvTypes
      /\ (pc \in Installing => job \in Scripts /\ job # None)
  BY TypesSplit, EngineAssumption DEF IInv, JobKnown
<1>1. CASE PowerOn \/ CmdLine \/ Main \/ Evaluate
  <2>1. nv'.data = nv.data /\ nv'.size = nv.size
    BY <1>0, <1>1, LockStored, LostIsStored DEF PowerOn, CmdLine, Main, Evaluate
  <2> QED  BY <1>0, <1>1, <2>1 DEF PowerOn, CmdLine, Main, Evaluate, Whole
<1>2. CASE CmdOpen
  <2>1. Datum(NoData)
    BY DEF Datum
  <2>2. CASE nv' = nv
    BY <1>0, <1>2, <2>2 DEF CmdOpen, CmdFails, Whole
  <2>3. CASE Stored("data", NoData)
    BY <1>0, <1>2, <2>1, <2>3, DataStored DEF CmdOpen, CmdFails
  <2>4. CASE Stored("data", Empty(job)) /\ Goto("cmdWrite")
    BY <2>4
  <2> QED  BY <1>2, <2>2, <2>3, <2>4 DEF CmdOpen, Lost, Stored
<1>3. CASE CmdWrite
  BY <1>3 DEF CmdWrite, CmdFails
<1>4. CASE CmdSize
  BY <1>0, <1>4, SizeStored, DatumOfScript DEF CmdSize, CmdFails, Installing, DataOfJob, Whole
<1>5. CASE CmdName
  <2>1. nv'.data = nv.data /\ nv'.size = nv.size
    BY <1>0, <1>5, NameStored, LostIsStored DEF CmdName, Installing, Names
  <2> QED  BY <1>0, <1>5, <2>1 DEF CmdName, CmdFails, Whole
<1>6. CASE LoadScript
  BY <1>0, <1>6 DEF LoadScript, Whole
<1>7. CASE DeleteBadScript \/ Discard
  BY <1>0, <1>7, DataStored DEF DeleteBadScript, Discard, DeleteScript, Datum
<1>8. CASE DeleteBadName \/ DiscardName
  <2>1. nv'.data = nv.data /\ nv'.size = nv.size
    BY <1>0, <1>8, NameStored DEF DeleteBadName, DiscardName, DeleteName, Names
  <2> QED  BY <1>0, <1>8, <2>1 DEF DeleteBadName, DiscardName, Answer, Whole
<1>9. CASE Run \/ LoopEnds
  BY <1>0, <1>9 DEF Run, LoopEnds, Leave, Fresh, Whole
<1>10. CASE AcceptSession \/ SessionLost \/ Reset
  BY <1>0, <1>10 DEF AcceptSession, SessionLost, Reset, Ignored, RestartApp, Handling, Whole
<1>11. CASE Install
  <2>1. job' \in Names /\ None \in Names
    BY NextRamTypes DEF RamTypes, Names
  <2>2. nv'.data = nv.data /\ nv'.size = nv.size
    BY <1>0, <1>11, <2>1, NameStored, LostIsStored DEF Install, Ignored
  <2> QED  BY <1>0, <1>11, <2>2 DEF Install, Ignored, Handling, Whole
<1>12. CASE OpenScript
  BY <1>0, <1>12, DataStored, NameStored, DatumOfScript, LostIsStored
     DEF OpenScript, Answer, DeleteName, Installing, Names, Whole
<1>13. CASE WriteScript
  BY <1>0, <1>13, SizeStored, DatumOfScript DEF WriteScript, StoreSize, Installing, Whole
<1>14. CASE ConfirmScript
  BY <1>0, <1>14 DEF ConfirmScript, RestartApp, Answer, Whole
<1>15. CASE LockConsole \/ SetLock
  <2>1. nv'.data = nv.data /\ nv'.size = nv.size
    BY <1>0, <1>15, LockStored, LostIsStored DEF LockConsole, SetLock, WriteLock
  <2> QED  BY <1>0, <1>15, <2>1 DEF LockConsole, SetLock, RestartApp, Handling, Whole
<1>16. CASE BusAsk \/ BusCommand \/ BusLose
  BY <1>0, <1>16 DEF BusAsk, BusCommand, BusLose, Whole
<1>17. CASE PowerFails
  BY <1>0, <1>17 DEF PowerFails, Fresh, Whole
<1>18. CASE UNCHANGED vars
  BY <1>0, <1>18 DEF vars, Whole
<1> QED
  BY <1>1, <1>2, <1>3, <1>4, <1>5, <1>6, <1>7, <1>8, <1>9, <1>10, <1>11, <1>12, <1>13, <1>14,
     <1>15, <1>16, <1>17, <1>18 DEF Next, Boot, Console

-----------------------------------------------------------------------------
(* The theorems                                                            *)

LEMMA InitIInv == Init => IInv
<1> SUFFICES ASSUME Init PROVE IInv
  OBVIOUS
<1> USE EngineAssumption DEF Init
<1>1. Shape
  BY DEF Shape, Names, NoData
<1>2. inbox \in Seq(Message) /\ Len(inbox) <= MaxInbox
  BY EmptySeq
<1>3. TypeOK
  <2>1. NvTypes
    BY <1>1 DEF NvTypes, Datum, Sizes
  <2>2. RamTypes
    BY DEF RamTypes, Names, Steps
  <2>3. BusTypes
    BY <1>2 DEF BusTypes
  <2> QED  BY <2>1, <2>2, <2>3, TypesSplit
<1>4. Indices = {}
  BY DEF Indices
<1>5. JobKnown /\ DataOfJob /\ GivenOut /\ AsksNew /\ LostClosed /\ OneController
  BY <1>4 DEF JobKnown, DataOfJob, GivenOut, AsksNew, LostClosed, OneController, Installing
<1>6. LockKept /\ ScriptKept
  BY DEF LockKept, ScriptKept, Booting
<1> QED  BY <1>1, <1>3, <1>5, <1>6 DEF IInv

LEMMA NextIInv == IInv /\ [Next]_vars => IInv'
<1> SUFFICES ASSUME IInv, [Next]_vars PROVE IInv'
  OBVIOUS
<1>1. (NvTypes /\ RamTypes /\ BusTypes)' /\ BusInv'
  BY NextNvTypes, NextRamTypes, NextBusInv DEF BusInv
<1>2. (TypeOK /\ Shape)'
  BY <1>1 DEF TypeOK, NvTypes, RamTypes, BusTypes, Sizes, Shape, Datum
<1> QED
  BY <1>1, <1>2, NextOneController, NextLockKept, NextJob, NextScriptKept DEF IInv, BusInv

\* In every step of an installation, and across power failures, what NVRAM, the engine and
\* the bus hold fits together.
THEOREM Invariance == Spec => []IInv
BY InitIInv, NextIInv, PTL DEF Spec

\* The variables of the engine keep their types (AJS_Main, Run, the console).
THEOREM TypeCorrect == Spec => []TypeOK
<1>1. IInv => TypeOK
  BY DEF IInv
<1> QED  BY <1>1, Invariance, PTL

\* What AJS_Main evaluates is the whole of the script that was last installed to the end,
\* whichever writes to NVRAM failed, unless an installation was cut short.
THEOREM InstalledIsEvaluated == Spec => []EvaluatesInstalled
<1>1. IInv => EvaluatesInstalled
  BY DEF IInv, ScriptKept, EvaluatesInstalled, Writing
<1> QED  BY <1>1, Invariance, PTL

\* Once the console was told that it is locked out (LockConsole), no controller has a
\* session and the loop knows the lockdown, through restarts and power failures.
THEOREM LockdownLasts == Spec => []LockedForGood
<1>1. IInv => LockedForGood
  BY DEF IInv, TypeOK, LockKept, LockedForGood, Booting
<1> QED  BY <1>1, Invariance, PTL

\* There is one console session at a time and consoleSession is its id.
THEOREM ControllerIsKnown == Spec => []OneController
<1>1. IInv => OneController
  BY DEF IInv
<1> QED  BY <1>1, Invariance, PTL
=============================================================================
