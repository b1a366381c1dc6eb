-------------------------------- MODULE GPIO --------------------------------
(***************************************************************************)
(* Input pins and their triggers (src/src/ajs_io.c) on the GPIO driver of  *)
(* Linux boards (src/src/linux/lininoio/io_gpio.c).  A                     *)
(* thread of the driver waits for edges on the pins that have a trigger,   *)
(* and interrupts the message loop, which calls the functions that the     *)
(* script has set.                                                         *)
(*                                                                         *)
(* A pin object, its GPIO structure and its file descriptor have one name, *)
(* that of the memory: it may be used again after it was freed.            *)
(***************************************************************************)
EXTENDS Integers, FiniteSets

CONSTANTS
  Objs,         \* pin objects
  MaxTriggers   \* MAX_TRIGGERS, 16 in the program

VARIABLES
  live,      \* pin objects there are
  held,      \* objects that the script can still reach itself
  callback,  \* objects with a trigger function
  trigs,     \* the array of the IO object: the object of each trigger
  trigId,    \* of each GPIO
  triggers,  \* of the driver: the GPIO of each trigger
  trigSet,   \* triggers that have fired
  last,      \* the trigger that was served last
  earned,    \* history: triggers that fired when the descriptor of their GPIO was ready
  left,      \* history: triggers that had fired when their GPIO was closed
  edge,      \* pins with an edge that was not read
  thread,    \* "off", "check", "use", "select", "fired", "interrupt"
  slot,      \* where the thread is in its list
  watch,     \* the file descriptors it waits for, or found
  reset,     \* resetFd: the thread was told that the list has changed
  loop,      \* "script", "service", "callback", "wait", "crashed"
  interrupt  \* AJ_Net_Interrupt was called

None == "none"
NoTrigger == -1  \* AJS_IO_PIN_NO_TRIGGER
Slots == 0..MaxTriggers - 1

scriptVars == <<live, held, callback, trigs>>
driverVars == <<trigId, triggers, trigSet, last, earned, left>>
threadVars == <<edge, thread, slot, watch, reset>>
vars == <<scriptVars, driverVars, threadVars, loop, interrupt>>

TypeOK ==
  /\ live \subseteq Objs /\ held \subseteq live /\ callback \subseteq live
  /\ trigs \in [Slots -> Objs \union {None}] /\ triggers \in [Slots -> Objs \union {None}]
  /\ trigId \in [Objs -> Slots \union {NoTrigger}] /\ trigSet \subseteq Slots /\ last \in Slots
  /\ earned \subseteq Slots /\ left \subseteq Slots
  /\ edge \subseteq Objs /\ watch \subseteq Objs /\ slot \in Slots
  /\ thread \in {"off", "check", "use", "select", "fired", "interrupt"}
  /\ loop \in {"script", "service", "callback", "wait", "crashed"}
  /\ reset \in BOOLEAN /\ interrupt \in BOOLEAN

Init ==
  /\ live = {} /\ held = {} /\ callback = {}
  /\ trigs = [i \in Slots |-> None] /\ triggers = [i \in Slots |-> None]
  /\ trigId = [o \in Objs |-> NoTrigger] /\ trigSet = {} /\ last = 0 /\ earned = {} /\ left = {}
  /\ edge = {} /\ thread = "off" /\ slot = 0 /\ watch = {} /\ reset = FALSE
  /\ loop = "script" /\ interrupt = FALSE

Running == loop \in {"script", "callback"}
Referenced == held \union {trigs[i] : i \in Slots}

-----------------------------------------------------------------------------
(* Pin objects                                                             *)

\* The object is made once the target has opened the pin, which may fail.
NativeIoDigitalIn ==
  /\ Running
  /\ \E o \in Objs \ live : live' = live \union {o} /\ held' = held \union {o}
  /\ UNCHANGED <<callback, trigs, driverVars, threadVars, loop, interrupt>>

\* Nothing of the script refers to the object any more.
Drop ==
  /\ Running /\ \E o \in held : held' = held \ {o}
  /\ UNCHANGED <<live, callback, trigs, driverVars, threadVars, loop, interrupt>>

-----------------------------------------------------------------------------
(* Triggers                                                                *)

FreeSlots == {i \in Slots : triggers[i] = None}
FirstFree == CHOOSE i \in FreeSlots : \A j \in FreeSlots : i <= j

\* A trigger takes a slot; one that the GPIO had before is not given up.  The
\* file of the edge may fail, or all slots be taken: then an error is thrown.
PinEnableTrigger(o) ==
  /\ FreeSlots # {}
  /\ triggers' = [triggers EXCEPT ![FirstFree] = o]
  /\ trigId' = [trigId EXCEPT ![o] = FirstFree]
  /\ earned' = earned \ {FirstFree}

\* The thread is started with the first trigger.
InitTriggerThread ==
  IF thread = "off" THEN thread' = "check" /\ slot' = 0 /\ watch' = {}
  ELSE UNCHANGED <<thread, slot, watch>>

\* Mutant: the thread learns of a trigger only when it wakes for another.
LeaveThread == UNCHANGED reset

ResetTriggerThread == reset' = (thread # "off")

SetTriggerCallback ==
  /\ Running
  /\ \E o \in held :
       /\ PinEnableTrigger(o)
       /\ trigs' = [trigs EXCEPT ![FirstFree] = o] /\ callback' = callback \union {o}
  /\ InitTriggerThread /\ ResetTriggerThread
  /\ UNCHANGED <<live, held, trigSet, last, left, edge, loop, interrupt>>

PinDisableTrigger(o) ==
  IF trigId[o] = NoTrigger THEN UNCHANGED <<triggers, trigSet, trigId, earned, left, trigs, reset>>
  ELSE /\ triggers' = [triggers EXCEPT ![trigId[o]] = None]
       /\ trigSet' = trigSet \ {trigId[o]}
       /\ trigId' = [trigId EXCEPT ![o] = NoTrigger]
       /\ earned' = earned \ {trigId[o]} /\ left' = left \ {trigId[o]}
       /\ trigs' = [trigs EXCEPT ![trigId[o]] = None]
       /\ ResetTriggerThread

ClearTriggerCallback ==
  /\ Running
  /\ \E o \in held : PinDisableTrigger(o) /\ callback' = callback \ {o}
  /\ UNCHANGED <<live, held, last, edge, thread, slot, watch, loop, interrupt>>

\* A trigger that has fired is not taken back when its GPIO is closed.
PinClose(closed) ==
  LET of == {trigId[o] : o \in closed} \ {NoTrigger} IN
  /\ live' = live \ closed
  /\ triggers' = [i \in Slots |-> IF i \in of THEN None ELSE triggers[i]]
  /\ trigId' = [o \in Objs |-> IF o \in closed THEN NoTrigger ELSE trigId[o]]
  /\ earned' = earned \ of /\ left' = left \union (trigSet \intersect of)
  /\ edge' = edge \ closed /\ callback' = callback \ closed

\* The finalizer: for a digital pin the driver closes it.
NativePinFinalizer ==
  /\ Running /\ \E o \in live \ Referenced : PinClose({o})
  /\ UNCHANGED <<held, trigs, trigSet, last, thread, slot, watch, reset, loop, interrupt>>

\* The heap is destroyed, with a finalizer for each object; the thread and the
\* state of the driver stay.
Restart ==
  /\ loop = "wait" /\ loop' = "script"
  /\ PinClose(live) /\ held' = {} /\ trigs' = [i \in Slots |-> None]
  /\ UNCHANGED <<trigSet, last, thread, slot, watch, reset, interrupt>>

-----------------------------------------------------------------------------
(* The message loop                                                        *)

\* The search starts at the trigger that was served last, that one included.
PinTrigId ==
  CHOOSE i \in trigSet : \A j \in trigSet :
    (i + MaxTriggers - last) % MaxTriggers <= (j + MaxTriggers - last) % MaxTriggers

\* One trigger: its function is called, if the object has one.
ServiceIO ==
  /\ loop = "service" /\ trigSet # {}
  /\ last' = PinTrigId /\ trigSet' = trigSet \ {PinTrigId}
  /\ earned' = earned \ {PinTrigId} /\ left' = left \ {PinTrigId}
  /\ loop' = IF trigs[PinTrigId] \in callback THEN "callback" ELSE "service"
  /\ UNCHANGED <<scriptVars, trigId, triggers, threadVars, interrupt>>

CallbackReturns ==
  /\ loop = "callback" /\ loop' = "service"
  /\ UNCHANGED <<scriptVars, driverVars, threadVars, interrupt>>

\* Between the installed script, timers and messages, and the wait.
Pass ==
  /\ \/ loop = "script" /\ loop' = "service"
     \/ loop = "service" /\ trigSet = {} /\ loop' = "wait"
  /\ UNCHANGED <<scriptVars, driverVars, threadVars, interrupt>>

\* An interrupt, or a message or a timeout.
Wakes ==
  /\ loop = "wait" /\ loop' = "script" /\ interrupt' = FALSE
  /\ UNCHANGED <<scriptVars, driverVars, threadVars>>

-----------------------------------------------------------------------------
(* The thread of the driver                                                *)

\* External: the level of a pin with a trigger changes.
Edge ==
  /\ loop # "crashed"
  /\ \E o \in {p \in live : trigId[p] # NoTrigger} : edge' = edge \union {o}
  /\ UNCHANGED <<scriptVars, driverVars, thread, slot, watch, reset, loop, interrupt>>

NextSlot ==
  IF slot = MaxTriggers - 1 THEN thread' = "select" /\ slot' = 0
  ELSE thread' = "check" /\ slot' = slot + 1

Crash == loop' = "crashed"

\* The list is read without the lock: each entry is looked at and then used, and
\* the script may have taken it back in between, or freed what it points to.
ListTriggers ==
  /\ loop # "crashed" /\ thread \in {"check", "use"}
  /\ IF thread = "check" THEN
       /\ IF triggers[slot] = None THEN NextSlot ELSE thread' = "use" /\ UNCHANGED slot
       /\ UNCHANGED <<watch, loop>>
     ELSE IF triggers[slot] \in live THEN
       /\ NextSlot /\ watch' = watch \union {triggers[slot]} /\ UNCHANGED loop
     ELSE Crash /\ UNCHANGED <<thread, slot, watch>>
  /\ UNCHANGED <<scriptVars, driverVars, edge, reset, interrupt>>

\* select; a descriptor that was closed since ends the thread, if it was closed
\* before the wait began.
Select ==
  /\ loop # "crashed" /\ thread = "select"
  /\ \/ /\ reset \/ watch \intersect edge # {}
        /\ thread' = "fired" /\ watch' = watch \intersect edge /\ reset' = FALSE
     \/ ~(watch \subseteq live) /\ thread' = "off" /\ watch' = {} /\ reset' = FALSE
  /\ UNCHANGED <<scriptVars, driverVars, edge, slot, loop, interrupt>>

\* With the lock: each trigger whose descriptor is ready has fired; with debouncing
\* one that has not been served yet is left as it is.
Fired ==
  /\ loop # "crashed" /\ thread = "fired" /\ thread' = "interrupt" /\ watch' = {}
  /\ IF \E i \in Slots : triggers[i] # None /\ triggers[i] \notin live
     THEN Crash /\ UNCHANGED <<trigSet, earned, edge>>
     ELSE LET ready == {i \in Slots : triggers[i] \in watch} IN
          /\ trigSet' = trigSet \union ready /\ earned' = earned \union ready
          /\ edge' = edge \ {triggers[i] : i \in ready} /\ UNCHANGED loop
  /\ UNCHANGED <<scriptVars, trigId, triggers, last, left, slot, reset, interrupt>>

Interrupt ==
  /\ loop # "crashed" /\ thread = "interrupt" /\ thread' = "check"
  /\ interrupt' = (interrupt \/ trigSet # {})
  /\ UNCHANGED <<scriptVars, driverVars, edge, slot, watch, reset, loop>>

\* A crash ends the program; the supervisor of the target starts it again.
StartAgain ==
  /\ loop = "crashed" /\ loop' = "script" /\ interrupt' = FALSE
  /\ live' = {} /\ held' = {} /\ callback' = {}
  /\ trigs' = [i \in Slots |-> None] /\ triggers' = trigs' /\ trigId' = [o \in Objs |-> NoTrigger]
  /\ trigSet' = {} /\ last' = 0 /\ earned' = {} /\ left' = {}
  /\ edge' = {} /\ thread' = "off" /\ slot' = 0 /\ watch' = {} /\ reset' = FALSE

Next ==
  \/ NativeIoDigitalIn \/ Drop
  \/ SetTriggerCallback \/ ClearTriggerCallback \/ NativePinFinalizer \/ Restart
  \/ ServiceIO \/ CallbackReturns \/ Pass \/ Wakes
  \/ Edge \/ ListTriggers \/ Select \/ Fired \/ Interrupt \/ StartAgain

Spec == Init /\ [][Next]_vars

-----------------------------------------------------------------------------
(* Properties                                                              *)

\* The loop does not wait while a trigger has fired, unless it will be woken.
NoLostWakeUp ==
  loop = "wait" /\ trigSet # {} /\ ~interrupt => thread = "interrupt"

\* A thread that waits watches each pin with a trigger, or has been told to look.
EveryPinWatched ==
  thread = "select" => \A o \in live : trigId[o] # NoTrigger => o \in watch \/ reset

\* The driver and the script agree on the object of a trigger.
TriggersAgree ==
  \A o \in Objs : trigId[o] # NoTrigger =>
    o \in live /\ o \in callback /\ triggers[trigId[o]] = o /\ trigs[trigId[o]] = o

\* Only a trigger whose descriptor was ready has fired, except one that was left
\* over when its pin was closed.
FiredByEdge == trigSet \subseteq earned \union left

\* Edges are not lost between the thread and the message loop, and reach the
\* object they are of (ListTriggers, Fired, Interrupt, ServiceIO).
TriggersServed == NoLostWakeUp /\ EveryPinWatched /\ TriggersAgree /\ FiredByEdge
=============================================================================
