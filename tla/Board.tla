-------------------------------- MODULE Board --------------------------------
(***************************************************************************)
(* The message loop and the parts around the scripts, next to each other.  *)
(* They share no state that the models have: a behaviour is that of one of *)
(* them, and the variables of the others stay at 0.  A variable of the     *)
(* same name in two parts is one variable here; the stashes of parts other *)
(* than the message loop are "kit".                                        *)
(***************************************************************************)
EXTENDS MessageLoop, Integers, Sequences

CONSTANTS
  Fields, Langs, Tables, MayFail,                \* of PropertyStore
  Props, Vals, Ids,                              \* of ScriptStore
  Objs, MaxTriggers,                             \* of GPIO and IOObjects
  Size, MaxChunk, MaxRead,                       \* of SimUart
  MaxWidgets, MaxPanels, WidgetKinds, MaxValue,  \* of ControlPanel
  Words, MinLen, MaxTable                        \* of ExternalStrings

VARIABLES
  part,                                          \* the part whose behaviour it is
  \* of PropertyStore
  nv, phase, languages, default, told, fresh,
  \* of ScriptStore
  data, kept, forgot,
  \* of GPIO
  callback, trigs, trigId, triggers, trigSet, last, earned, left, edge, slot, watch,
  reset, loop, interrupt,
  \* of SimUart
  uart, uartBuf, uartPos, uartLen, sz, room, ready, next, queue, upset,
  \* of IOObjects
  obj, open, orphans, output,
  \* of ControlPanel
  panels, widgets, objects, session, stale, refused, remote, running, reply,
  \* of ExternalStrings
  sortedWords, str, min, max, found,
  \* of several of them
  kit, list, live, held, thread

Config  == INSTANCE PropertyStore WITH stash <- kit
Store   == INSTANCE ScriptStore
Pins    == INSTANCE GPIO
Uart    == INSTANCE SimUart
Devices == INSTANCE IOObjects
Panel   == INSTANCE ControlPanel WITH stash <- kit
Strings == INSTANCE ExternalStrings

-----------------------------------------------------------------------------
(* What the parts take for granted of their constants                      *)

\* Identifiers are positive, as zero is none.
Identified == Ids \subseteq Nat \ {0}

\* The buffer has a place, and bytes come in finite numbers.
Buffered == Size \in Nat \ {0} /\ MaxChunk \in Nat /\ MaxRead \in Nat

\* Words are of letters, which are numbers, and the empty string is not looked up.
Lettered == Words \subseteq Seq(Nat) /\ MaxTable \in Nat /\ MinLen \in Nat \ {0}

\* Ranges and values fit together, as in the bounds of the runs.
Sized ==
  /\ MaxWidgets \in Nat /\ MaxWidgets >= 1
  /\ MaxPanels \in Nat /\ MaxValue \in Nat /\ MaxValue >= 3

\* There is a slot for a trigger, and the mark of a free one is no object.
Wired == MaxTriggers \in Nat \ {0} /\ Pins!None \notin Objs

\* The program has a property for the current language, and one for the description
\* behind it; languages are the names of the properties of an object, which differ.
Configured ==
  /\ Fields \in Seq(STRING)
  /\ \E d, e \in DOMAIN Fields :
       d < e /\ Fields[d] = "DefaultLanguage" /\ Fields[e] = "Description"
  /\ IsFiniteSet(Langs) /\ "en" \in Langs /\ "none" \notin Langs
  /\ \A t \in Tables : t \in Seq(Langs) /\ \A i, j \in DOMAIN t : t[i] = t[j] => i = j

\* The board is one for which all of them hold.
ASSUME BoardAssumption ==
  Configured /\ Identified /\ Wired /\ Buffered /\ Sized /\ Lettered

-----------------------------------------------------------------------------
(* The variables of the parts                                              *)

configVars == <<nv, phase, languages, default, told, fresh>>
storeVars == <<data, kept, forgot>>
pinsVars ==
  <<callback, trigs, trigId, triggers, trigSet, last, earned, left, edge, slot,
    watch, reset, loop, interrupt>>
uartVars ==
  <<uart, uartBuf, uartPos, uartLen, sz, room, ready, next, queue, upset>>
devicesVars == <<obj, open, orphans, output>>
panelVars ==
  <<panels, widgets, objects, session, stale, refused, remote, running, reply>>
stringsVars == <<sortedWords, str, min, max, found>>
sharedVars == <<kit, list, live, held, thread>>
partVars ==
  <<configVars, storeVars, pinsVars, uartVars, devicesVars, panelVars, stringsVars,
    sharedVars>>

\* The variables of the parts that do not run have no value of a part, and keep it.
IdleInit ==
  /\ part # "config" =>
       /\ nv = 0 /\ phase = 0 /\ languages = 0 /\ default = 0 /\ told = 0
       /\ fresh = 0
  /\ part # "store" =>
       /\ data = 0 /\ kept = 0 /\ forgot = 0
  /\ part # "pins" =>
       /\ callback = 0 /\ trigs = 0 /\ trigId = 0 /\ triggers = 0 /\ trigSet = 0
       /\ last = 0 /\ earned = 0 /\ left = 0 /\ edge = 0 /\ slot = 0 /\ watch = 0
       /\ reset = 0 /\ loop = 0 /\ interrupt = 0
  /\ part # "uart" =>
       /\ uart = 0 /\ uartBuf = 0 /\ uartPos = 0 /\ uartLen = 0 /\ sz = 0
       /\ room = 0 /\ ready = 0 /\ next = 0 /\ queue = 0 /\ upset = 0
  /\ part # "devices" =>
       /\ obj = 0 /\ open = 0 /\ orphans = 0 /\ output = 0
  /\ part # "panel" =>
       /\ panels = 0 /\ widgets = 0 /\ objects = 0 /\ session = 0 /\ stale = 0
       /\ refused = 0 /\ remote = 0 /\ running = 0 /\ reply = 0
  /\ part # "strings" =>
       /\ sortedWords = 0 /\ str = 0 /\ min = 0 /\ max = 0 /\ found = 0
  /\ part \notin {"config", "panel"} => kit = 0
  /\ part \notin {"store", "panel"} => list = 0
  /\ part \notin {"pins", "panel"} => live = 0
  /\ part \notin {"pins", "devices", "panel"} => held = 0
  /\ part \notin {"pins", "uart"} => thread = 0

IdleNext ==
  /\ part # "config" => UNCHANGED configVars
  /\ part # "store" => UNCHANGED storeVars
  /\ part # "pins" => UNCHANGED pinsVars
  /\ part # "uart" => UNCHANGED uartVars
  /\ part # "devices" => UNCHANGED devicesVars
  /\ part # "panel" => UNCHANGED panelVars
  /\ part # "strings" => UNCHANGED stringsVars
  /\ part \notin {"config", "panel"} => kit' = kit
  /\ part \notin {"store", "panel"} => list' = list
  /\ part \notin {"pins", "panel"} => live' = live
  /\ part \notin {"pins", "devices", "panel"} => held' = held
  /\ part \notin {"pins", "uart"} => thread' = thread

-----------------------------------------------------------------------------
PartInit ==
  \/ part = "config" /\ Config!Init
  \/ part = "store" /\ Store!Init
  \/ part = "pins" /\ Pins!Init
  \/ part = "uart" /\ Uart!Init
  \/ part = "devices" /\ Devices!Init
  \/ part = "panel" /\ Panel!Init
  \/ part = "strings" /\ Strings!Init

PartNext ==
  \/ part = "config" /\ Config!Next
  \/ part = "store" /\ Store!Next
  \/ part = "pins" /\ Pins!Next
  \/ part = "uart" /\ Uart!Next
  \/ part = "devices" /\ Devices!Next
  \/ part = "panel" /\ Panel!Next
  \/ part = "strings" /\ Strings!Next

BoardInit ==
  /\ Init
  /\ part = "messages" \/ (~printed /\ ~locked /\ PartInit)
  /\ IdleInit

BoardNext ==
  /\ UNCHANGED part
  /\ (part = "messages" /\ Next) \/ (PartNext /\ UNCHANGED vars)
  /\ IdleNext

boardVars == <<part, vars, partVars>>

BoardSpec == BoardInit /\ [][BoardNext]_boardVars

-----------------------------------------------------------------------------
(* Properties                                                              *)

\* Every variable of the loop and of the part has a value of its type.
TypesOK ==
  /\ TypeOK
  /\ CASE part = "config" -> Config!TypeOK
       [] part = "store" -> Store!TypeOK [] part = "pins" -> Pins!TypeOK
       [] part = "uart" -> Uart!TypeOK [] part = "devices" -> Devices!TypeOK
       [] part = "panel" -> Panel!TypeOK [] OTHER -> TRUE

\* What is stored is what is read: properties of the device in each language, and
\* back at their initial values after a reset (PropertyStore); properties of the
\* script as they were stored last (ScriptStore); and a string that is found in the
\* table of external strings is the one that was looked up (ExternalStrings).
StoresTruthful ==
  /\ part = "config" => Config!ReadsBack /\ Config!ResetRestores
  /\ part = "store" => Store!LoadsOwn
  /\ part = "strings" => Strings!SearchFinds

\* Edges lead to the trigger function of their pin, and nothing else does (GPIO);
\* bytes are read as they were received, though a thread moves them meanwhile
\* (SimUart); every I/O object has its context, and contexts of drivers have an
\* object (IOObjects).
BoardServed ==
  /\ part = "pins" => Pins!TriggersServed
  /\ part = "uart" => Uart!BufferIsQueue
  /\ part = "devices" => Devices!ContextsOwned

\* What a controller sees of a control panel is what the script has made of it.
PanelTruthful == part = "panel" => Panel!PanelTruthful
=============================================================================
