---------------------------- MODULE ControlPanel ----------------------------
(***************************************************************************)
(* Control panels (src/src/ajs_ctrlpanel.c) and their bus objects          *)
(* (src/src/ajs_cps.c): the widgets a script makes, their values, ranges,  *)
(* choices and buttons, loading them, and what a controller does to them.  *)
(* The control panel service of the thin client library, which has the     *)
(* session and sends the signals, is external.                             *)
(*                                                                         *)
(* Values are whole numbers, doubles counted in halves; a string, a time   *)
(* or a date is a number too.                                              *)
(***************************************************************************)
EXTENDS Integers, Sequences

CONSTANTS
  MaxWidgets,  \* bound: widgets with the panel; below 256, what a message id has room for
  MaxPanels,   \* bound: panels made in one heap
  WidgetKinds, \* of the widgets a script makes
  MaxValue     \* bound: values

VARIABLES
  panels,   \* panels made; the last is the first of the widgets
  held,     \* panels that the script can reach
  live,     \* panels that were not finalized
  widgets,  \* the array of all widgets, which the prototype of widgets keeps
  stash,    \* the array is in the stash
  list,     \* objectList: "null", "live", or "freed": its buffer is gone
  objects,  \* how many widgets are in it
  session,  \* a controller has a session
  stale,    \* history: widgets whose value or metadata changed since the controller knew
  refused,  \* history: widgets of which a setter threw half way
  remote,   \* history: widgets whose value the controller wrote last
  running,  \* the widget whose handler runs, or 0
  reply     \* to the last call of the controller

panelVars == <<panels, held, live, stash>>
busVars == <<list, objects, session>>
history == <<stale, refused, remote>>
callVars == <<running, reply>>
vars == <<panelVars, widgets, busVars, history, callVars>>

Indices == 1..MaxWidgets
Values == 0..MaxValue
PropertyKinds == {"count", "slider", "text", "time"} \intersect WidgetKinds
NoRange == [is |-> "none", min |-> 0, max |-> 0, inc |-> 0]
Ranges == {[is |-> "set", min |-> 1, max |-> 3, inc |-> 2]}
Dangling == [is |-> "dangling", min |-> 0, max |-> 0, inc |-> 0]
Widget ==
  [kind : WidgetKinds \union {"panel"}, signature : {"none", "int", "double", "string", "struct"},
   rep : {"none", "int", "double", "string", "struct"}, value : Values,
   range : Ranges \union {NoRange, Dangling}, choices : {0, 2}, actions : 0..4, buttons : 0..3]

TypeOK ==
  /\ panels \in 0..MaxPanels /\ live \subseteq 1..panels /\ held \subseteq live
  /\ Len(widgets) <= MaxWidgets /\ \A i \in 1..Len(widgets) : widgets[i] \in Widget
  /\ stash \in BOOLEAN /\ session \in BOOLEAN /\ list \in {"null", "live", "freed"}
  /\ objects \in 0..MaxWidgets /\ stale \subseteq {"value", "metadata"} \X Indices
  /\ refused \subseteq Indices /\ remote \subseteq Indices /\ running \in 0..MaxWidgets
  /\ reply \in {"none", "ok", "error", "never"}

Init ==
  /\ panels = 0 /\ held = {} /\ live = {} /\ widgets = << >> /\ stash = TRUE /\ list = "null"
  /\ objects = 0 /\ session = FALSE /\ stale = {} /\ refused = {} /\ remote = {}
  /\ running = 0 /\ reply = "none"

-----------------------------------------------------------------------------
(* Signals                                                                 *)

\* A change is signalled when the panel is loaded and in a session.
SignalChanged(what, i) ==
  stale' = IF list # "null" /\ session THEN stale \ {<<what, i>>}
           ELSE IF session THEN stale \union {<<what, i>>} ELSE stale

SilentChange(changes) == stale' = IF session THEN stale \union changes ELSE stale

-----------------------------------------------------------------------------
(* Making widgets                                                          *)

\* Numbers and switches are written as whole numbers.
SignatureOf(kind) ==
  CASE kind \in {"count", "slider"} -> "int" [] kind = "text" -> "string"
    [] kind = "time" -> "struct" [] OTHER -> "none"

CreateWidget(kind) ==
  [kind |-> kind, signature |-> SignatureOf(kind), rep |-> SignatureOf(kind), value |-> 0,
   range |-> NoRange, choices |-> 0, actions |-> 0, buttons |-> 0]

\* The new panel takes the first place in the array; other widgets stay.
NativeControlPanel ==
  /\ panels < MaxPanels /\ panels' = panels + 1
  /\ held' = held \union {panels'} /\ live' = live \union {panels'}
  /\ widgets' = <<CreateWidget("panel")>> \o SubSeq(widgets, 2, Len(widgets))
  /\ UNCHANGED <<stash, busVars, history, callVars>>

\* The array is found through the prototype; the place in it goes into the path.
AddWidget(kind) ==
  /\ held # {} /\ Len(widgets) < MaxWidgets
  /\ widgets' = Append(widgets, CreateWidget(kind))
  /\ UNCHANGED <<panelVars, busVars, history, callVars>>

NativeLabelWidget == "label" \in WidgetKinds /\ AddWidget("label")
NativePropertyWidget == \E kind \in PropertyKinds : AddWidget(kind)
NativeDialogWidget == "dialog" \in WidgetKinds /\ AddWidget("dialog")
NativeActionWidget == "action" \in WidgetKinds /\ AddWidget("action")
NativeContainerWidget == "container" \in WidgetKinds /\ AddWidget("container")

-----------------------------------------------------------------------------
(* The setters of widgets                                                  *)

\* Mutant: the upper end is not looked at.
ClampLow(x, r) == IF x < r.min THEN r.min ELSE x

Clamp(x, r) == IF x < r.min THEN r.min ELSE IF x > r.max THEN r.max ELSE x

\* A whole number is rounded to the increment; with doubles the rounding comes to
\* adding half an increment.  The increment is not 0: the program does not check.
Rounded(w) ==
  IF w.signature = "int"
  THEN w.range.inc * ((w.value + w.range.inc \div 2) \div w.range.inc)
  ELSE w.value + w.range.inc

\* A value that was written as another type, or a range that is lost, is anything.
FitValueInRange(w) ==
  IF w.range.is = "dangling" THEN Values
  ELSE {Clamp(x, w.range) : x \in IF w.rep = w.signature THEN {Rounded(w)} ELSE Values}

\* The layout says how the value is written, and its signature only for sliders.
Written(w, v) ==
  [w EXCEPT !.value = v, !.rep = IF w.kind = "slider" THEN w.signature ELSE SignatureOf(w.kind)]

NativeValueSetter(i) ==
  \E v \in Values :
    LET w == Written(widgets[i], v) IN
    /\ widgets[i].kind \in PropertyKinds
    /\ \E fit \in IF w.kind = "slider" /\ w.range.is # "none" THEN FitValueInRange(w) ELSE {v} :
         widgets' = [widgets EXCEPT ![i] = [w EXCEPT !.value = fit]]
    /\ SignalChanged("value", i) /\ remote' = remote \ {i} /\ UNCHANGED refused

\* The range cannot be set twice: the error comes when the widget already refers
\* to the new one, whose buffer is lost.  The value is fitted without a signal.
NativeRangeSetter(i) ==
  LET w == widgets[i] IN
  /\ w.kind \in PropertyKinds
  /\ \E r \in Ranges, sig \in {"int", "double"} :
       LET set == [w EXCEPT !.signature = sig, !.range = r] IN
       IF w.range.is = "none"
       THEN /\ \E fit \in FitValueInRange(set) :
                 widgets' = [widgets EXCEPT ![i] = [set EXCEPT !.rep = sig, !.value = fit]]
            /\ remote' = remote \ {i} /\ UNCHANGED refused
       ELSE /\ widgets' = [widgets EXCEPT ![i] = [set EXCEPT !.range = Dangling]]
            /\ refused' = refused \union {i} /\ UNCHANGED remote
  /\ SilentChange({<<"value", i>>, <<"metadata", i>>})

\* Two strings at least; when they were set before the error changes nothing.
NativeChoicesSetter(i) ==
  /\ widgets[i].kind \in PropertyKinds /\ widgets[i].choices = 0
  /\ widgets' = [widgets EXCEPT ![i].choices = 2]
  /\ SilentChange({<<"metadata", i>>}) /\ UNCHANGED <<refused, remote>>

\* The number of actions is set before the array is validated.
NativeButtonsSetter(i) ==
  /\ widgets[i].kind = "dialog"
  /\ \E n \in {0, 1, 3, 4}, valid \in BOOLEAN :
       IF n \in 1..3 /\ valid /\ widgets[i].buttons = 0
       THEN widgets' = [widgets EXCEPT ![i].actions = n, ![i].buttons = n] /\ UNCHANGED refused
       ELSE widgets' = [widgets EXCEPT ![i].actions = n] /\ refused' = refused \union {i}
  /\ SilentChange({<<"metadata", i>>}) /\ UNCHANGED remote

\* The color, label, enabled and writeable setters: what they set is not modelled.
MetadataSetter(i) == SignalChanged("metadata", i) /\ UNCHANGED <<widgets, refused, remote>>

Setter ==
  /\ held # {}
  /\ \E i \in 2..Len(widgets) :
       \/ NativeValueSetter(i) \/ NativeRangeSetter(i) \/ NativeChoicesSetter(i)
       \/ NativeButtonsSetter(i) \/ MetadataSetter(i)
  /\ UNCHANGED <<panelVars, busVars, callVars>>

-----------------------------------------------------------------------------
(* Loading and unloading                                                   *)

\* The new list takes the place of the old one before the service gets it.
AJS_CP_Init(n) ==
  \/ list' = "live" /\ objects' = n
  \/ list' = (IF list = "null" THEN "null" ELSE "freed") /\ UNCHANGED objects

\* All widgets in the array of the stash, in their order; none without it.
NativeLoadControlPanel ==
  /\ held # {}
  /\ AJS_CP_Init(IF stash THEN Len(widgets) ELSE 0)
  /\ UNCHANGED <<panelVars, widgets, session, history, callVars>>

\* The script drops a panel.
Drop ==
  /\ \E p \in held : held' = held \ {p}
  /\ UNCHANGED <<panels, live, stash, widgets, busVars, history, callVars>>

\* Mutant: the pointer to the objects outlives their buffer.
KeepObjects == UNCHANGED <<list, objects>>

AJS_CP_Terminate == list' = "null" /\ objects' = 0

\* A panel that is not in the array any more takes the array and the list with it,
\* though they are those of its successor.
NativeControlPanelFinalizer ==
  /\ \E p \in live \ (held \union {panels}) : live' = live \ {p}
  /\ stash' = FALSE /\ AJS_CP_Terminate
  /\ UNCHANGED <<panels, held, widgets, session, history, callVars>>

\* The heap is destroyed, and the engine shuts the service down.
Restart ==
  /\ running = 0 /\ panels > 0
  /\ panels' = 0 /\ held' = {} /\ live' = {} /\ widgets' = << >> /\ stash' = TRUE
  /\ AJS_CP_Terminate /\ session' = FALSE /\ stale' = {} /\ refused' = {} /\ remote' = {}
  /\ reply' = "none"
  /\ UNCHANGED running

-----------------------------------------------------------------------------
(* The controller                                                          *)

SessionStarts ==
  /\ list = "live" /\ ~session /\ session' = TRUE /\ stale' = {}
  /\ UNCHANGED <<panelVars, widgets, list, objects, refused, remote, callVars>>

SessionLost ==
  /\ session /\ session' = FALSE /\ stale' = {}
  /\ UNCHANGED <<panelVars, widgets, list, objects, refused, remote, callVars>>

Involved(i) == running = 0 /\ list = "live" /\ session /\ i <= objects

\* Get and GetAll, of the value or the metadata.
CPSMessageHandler(i) ==
  /\ Involved(i) /\ \E what \in {"value", "metadata"} : stale' = stale \ {<<what, i>>}
  /\ reply' = "ok"
  /\ UNCHANGED <<panelVars, widgets, busVars, refused, remote, running>>

\* The value is written as the signature says and not fitted in the range.  A value
\* of another type is an error; of a time or date it is then still signalled.
SetWidgetProp(i) ==
  LET w == widgets[i] IN
  /\ Involved(i) /\ w.kind \in PropertyKinds
  /\ \/ reply' = "never" /\ UNCHANGED <<widgets, stale, remote, running>>
     \/ /\ \E v \in Values :
             widgets' = [widgets EXCEPT ![i].value = v, ![i].rep = w.signature]
        /\ stale' = stale \ {<<"value", i>>} /\ remote' = remote \union {i}
        /\ running' = i /\ reply' = "none"
     \/ /\ \E v \in Values :
             widgets' = [widgets EXCEPT ![i].value = IF w.signature = "struct" THEN v ELSE @]
        /\ stale' = IF w.signature = "struct" THEN stale \ {<<"value", i>>} ELSE stale
        /\ reply' = "error" /\ UNCHANGED <<remote, running>>
  /\ UNCHANGED <<panelVars, busVars, refused>>

\* The handler of the widget, or of one of its buttons; nothing, an error.
ExecuteAction(i) ==
  LET w == widgets[i] IN
  /\ Involved(i) /\ w.kind \in {"action", "dialog"}
  /\ \E action \in 0..3 :
       /\ w.kind = "action" => action = 0
       /\ w.kind = "dialog" => action > 0
       /\ IF action <= w.buttons THEN running' = i /\ reply' = "none"
          ELSE reply' = "error" /\ UNCHANGED running
  /\ UNCHANGED <<panelVars, widgets, busVars, history>>

\* The function returns, or throws.
HandlerReturns ==
  /\ running # 0 /\ running' = 0 /\ reply' \in {"ok", "error"}
  /\ UNCHANGED <<panelVars, widgets, busVars, history>>

Controller ==
  \/ SessionStarts \/ SessionLost \/ HandlerReturns
  \/ \E i \in Indices : CPSMessageHandler(i) \/ SetWidgetProp(i) \/ ExecuteAction(i)

Script ==
  \/ NativeControlPanel \/ NativeLabelWidget \/ NativePropertyWidget \/ NativeDialogWidget
  \/ NativeActionWidget \/ NativeContainerWidget \/ Setter \/ NativeLoadControlPanel
  \/ Drop \/ NativeControlPanelFinalizer \/ Restart

Next == Script \/ Controller

Spec == Init /\ [][Next]_vars

-----------------------------------------------------------------------------
(* Properties                                                              *)

\* Every bus object there is leads to a widget of the array in the stash, unless a
\* second load failed (NativeControlPanelFinalizer, NativeLoadControlPanel).
ObjectsBacked == list = "live" /\ objects > 0 => stash /\ objects <= Len(widgets)

\* A slider is read as it was written, whoever wrote it (NativeRangeSetter,
\* SetWidgetProp), and its value is in its range unless the controller wrote it.
SliderValues ==
  \A i \in 1..Len(widgets) :
    LET w == widgets[i] IN
    w.kind = "slider" /\ i \notin refused =>
      /\ w.rep = w.signature
      /\ w.range # NoRange /\ i \notin remote => w.value \in w.range.min..w.range.max

\* In a session the controller knows every value of the bus objects, but for those
\* that were changed by setting a range.
ControllerKnows ==
  list = "live" => \A c \in stale : c[1] = "value" /\ c[2] <= objects => widgets[c[2]].range # NoRange

\* A dialog has as many actions as it has buttons, unless its setter threw.
ActionsBacked ==
  \A i \in 1..Len(widgets) : i \notin refused => widgets[i].actions = widgets[i].buttons

\* What a controller sees of a control panel is what the script has made of it.
PanelTruthful == ObjectsBacked /\ SliderValues /\ ControllerKnows /\ ActionsBacked
=============================================================================
