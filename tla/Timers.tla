------------------------------- MODULE Timers -------------------------------
(***************************************************************************)
(* The script timers of AllJoyn.js (src/src/ajs_timer.c) driven by the     *)
(* message loop (src/src/ajs_msgloop.c): setTimeout, setInterval, the      *)
(* clear and reset calls, AJS_RunTimers one slot and one callback at a     *)
(* time, and the wait for the next message that RunTimers bounds.          *)
(*                                                                         *)
(* Time is an integer number of milliseconds.  Script runs in four places: *)
(* the installed script before the loop starts, a timer callback, a        *)
(* callback of the I/O and session services that run between RunTimers and *)
(* the wait, and a message handler.  In each of them it may call any timer *)
(* function any number of times and may take up to MaxBusy milliseconds.   *)
(***************************************************************************)
EXTENDS Integers, Sequences, FiniteSetsExt

CONSTANTS
  NUM_TIMERS,  \* slots of the table of a new engine
  ADD_TIMERS,  \* slots added when the table is full
  MAX_TIMERS,  \* the table never grows beyond this
  Never,       \* stands for 0xFFFFFFFF, "no deadline"
  Delays,      \* bound: the delays that script asks for
  MaxSalt,     \* bound: timers registered in a behaviour (salt values used)
  MaxResets,   \* bound: reset calls in a behaviour
  MaxBusy,     \* bound: milliseconds spent in one run of script
  MaxIdle      \* bound: milliseconds of a wait without deadline

ASSUME TimersAssumption ==
  /\ NUM_TIMERS \in Nat \ {0} /\ ADD_TIMERS \in Nat \ {0}
  /\ MAX_TIMERS \in Nat /\ NUM_TIMERS <= MAX_TIMERS
  /\ Delays \subseteq Nat
  /\ MaxSalt \in Nat /\ MaxResets \in Nat /\ MaxBusy \in Nat /\ MaxIdle \in Nat
  /\ Never \in Nat /\ \A ms \in Delays : ms < Never \div 2

VARIABLES
  timers,     \* "timerState": a sequence of slots, id 0 in a free one
  funcs,      \* "timerFuncs": slot -> registered function (its salt), 0 if none
  deadline,   \* static deadline, 0 when it has to be recomputed
  currentTO,  \* msgTO of the loop, the longest the next wait may last
  clock,      \* milliseconds since AJS_RunTimers last read the clock
  pc,         \* where the loop is
  pass,       \* the running AJS_RunTimers: slot visited, slots, elapsed, dangling pointer
  spent,      \* milliseconds in the current wait or run of script
  resets,     \* reset calls so far
  issued,     \* history: for each salt, the timer registered under it
  torn        \* history: a slot was visited through a dangling pointer

vars == <<timers, funcs, deadline, currentTO, clock, pc, pass, spent, resets,
          issued, torn>>

Free == [id |-> 0, isInterval |-> FALSE, interval |-> 0, countDown |-> 0]
Slots == DOMAIN timers
Salts == DOMAIN issued
ScriptStates == {"script", "callback", "service", "handler"}
Live(s) == issued[s].status = "live"

TypeOK ==
  /\ timers \in Seq([id : 0..MaxSalt, isInterval : BOOLEAN, interval : Nat, countDown : Nat])
  /\ Len(timers) \in NUM_TIMERS..MAX_TIMERS
  /\ funcs \in [Slots -> 0..Len(issued)]
  /\ deadline \in 0..Never /\ currentTO \in 0..Never
  /\ clock \in Nat /\ spent \in Nat /\ resets \in 0..MaxResets
  /\ pc \in ScriptStates \union {"run", "pass", "wait"}
  /\ pass \in [slot : Nat, n : Nat, elapsed : Nat, dangling : BOOLEAN]
  /\ issued \in Seq([slot : 1..MAX_TIMERS, ms : Nat, isInterval : BOOLEAN,
                     status : {"live", "fired", "cleared"}, age : Nat, credit : Nat,
                     ran : BOOLEAN])
  /\ Len(issued) <= MaxSalt
  /\ torn \in BOOLEAN

NoPass == [slot |-> 0, n |-> 0, elapsed |-> 0, dangling |-> FALSE]

\* AJS_RegisterTimerFuncs on a new engine, then the script runs.
Init ==
  /\ timers = [i \in 1..NUM_TIMERS |-> Free]
  /\ funcs = [i \in 1..NUM_TIMERS |-> 0]
  /\ deadline = 0 /\ currentTO = Never \div 2 /\ clock = 0
  /\ pc = "script" /\ pass = NoPass /\ spent = 0 /\ resets = 0
  /\ issued = <<>> /\ torn = FALSE

-----------------------------------------------------------------------------
(* What script can do                                                      *)

\* The milliseconds a timer started now will be debited although they passed
\* before it existed: those since the clock was read and, in a slot the running
\* pass has yet to visit, those the pass is debiting.
HeadStart(slot) ==
  IF pc = "script" THEN 0
  ELSE clock + (IF pc = "callback" /\ slot \in pass.slot + 1 .. pass.n
                THEN pass.elapsed ELSE 0)

\* Mutant: a table that grows does not keep its slots.
GrownAfresh ==
  IF \E i \in Slots : timers[i].id = 0 THEN timers
  ELSE [i \in 1..Len(timers) + ADD_TIMERS |-> Free]

\* The table with at least one free slot; a full one grows by ADD_TIMERS.
Grown ==
  IF \E i \in Slots : timers[i].id = 0 THEN timers
  ELSE timers \o [i \in 1..ADD_TIMERS |-> Free]

\* Mutant: a slot whose countdown has run down is taken for a free one.
FirstRunDown(t) == Min({i \in DOMAIN t : t[i].countDown = 0})

FirstFree(t) == Min({i \in DOMAIN t : t[i].id = 0})

\* Every change of the table makes the next RunTimers recompute the deadline.
ForgetDeadline == deadline' = 0

\* RegisterTimer: setTimeout and setInterval.  A grown buffer may move; if a
\* pass is running it keeps the pointer to the old one.
SetTimer(ms, isInterval) ==
  LET salt == Len(issued) + 1
      slot == FirstFree(Grown)
  IN
  /\ pc \in ScriptStates
  /\ Len(issued) < MaxSalt
  /\ isInterval => ms > 0
  /\ Len(Grown) <= MAX_TIMERS
  /\ timers' = [Grown EXCEPT ![slot] = [id |-> salt, isInterval |-> isInterval,
                                        interval |-> ms, countDown |-> ms]]
  /\ funcs' = [i \in DOMAIN Grown |-> IF i = slot THEN salt
                                      ELSE IF i \in Slots THEN funcs[i] ELSE 0]
  /\ ForgetDeadline
  /\ issued' = Append(issued, [slot |-> slot, ms |-> ms, isInterval |-> isInterval,
                               status |-> "live", age |-> 0,
                               credit |-> HeadStart(slot), ran |-> FALSE])
  /\ \/ UNCHANGED pass
     \/ /\ pc = "callback" /\ Grown # timers
        /\ pass' = [pass EXCEPT !.dangling = TRUE]
  /\ UNCHANGED <<currentTO, clock, pc, spent, resets, torn>>

\* History keeps no more of a timer's age once its function has run or never will.
Counted(t, status) ==
  [t EXCEPT !.status = status, !.ran = (status # "cleared") \/ @, !.age = 0, !.credit = 0]

\* GetTimer: a handle finds its slot only while the slot still holds its id.
Holds(salt) == timers[issued[salt].slot].id = salt

ClearTimer(salt) ==
  LET slot == issued[salt].slot IN
  /\ pc \in ScriptStates
  /\ Holds(salt)
  /\ timers' = [timers EXCEPT ![slot] = Free]
  /\ funcs' = [funcs EXCEPT ![slot] = 0]
  /\ ForgetDeadline
  /\ issued' = [issued EXCEPT ![salt] = Counted(@, "cleared")]
  /\ UNCHANGED <<currentTO, clock, pc, pass, spent, resets, torn>>

ResetTimer(salt, ms) ==
  LET slot == issued[salt].slot IN
  /\ pc \in ScriptStates
  /\ resets < MaxResets
  /\ Holds(salt)
  /\ timers[slot].isInterval => ms > 0
  /\ timers' = [timers EXCEPT ![slot].interval = ms, ![slot].countDown = ms]
  /\ ForgetDeadline
  /\ resets' = resets + 1
  /\ issued' = [issued EXCEPT ![salt].ms = ms, ![salt].age = 0, ![salt].ran = FALSE,
                              ![salt].credit = HeadStart(slot)]
  /\ UNCHANGED <<funcs, currentTO, clock, pc, pass, spent, torn>>

-----------------------------------------------------------------------------
(* AJS_RunTimers                                                           *)

\* Mutant: the clock is read without being restarted.
KeepClock == clock' = clock

RestartClock == clock' = 0

\* Mutant: a message does not shorten the wait that follows it.
WaitInFull == currentTO

\* What is left of a wait when part of it has passed.
Remaining == currentTO - clock

\* Every call reads the clock and restarts it.  With time left on a known
\* deadline only the wait is shortened; otherwise a pass over the slots begins.
Debit == (clock < currentTO) /\ deadline # 0

RunTimers ==
  /\ pc = "run"
  /\ RestartClock /\ spent' = 0
  /\ IF Debit
     THEN /\ currentTO' = Remaining
          /\ pc' = "service"
          /\ UNCHANGED pass
     ELSE /\ pc' = "pass"
          /\ pass' = [slot |-> 1, n |-> Len(timers), elapsed |-> clock, dangling |-> FALSE]
          /\ UNCHANGED currentTO
  /\ UNCHANGED <<timers, funcs, deadline, resets, issued, torn>>

\* Mutant: an interval that is hopelessly late is not given up.
DeltaUnchecked(timer) == pass.elapsed - deadline

\* How far an interval is behind its schedule, an unsigned difference.
Delta(timer) ==
  LET delta == (pass.elapsed - deadline) % (Never + 1)
  IN  IF delta > timer.interval THEN 0 ELSE delta

\* The function of a slot is called, or nothing when there is none to call.
Call(slot) ==
  IF funcs[slot] = 0
  THEN pc' = "pass" /\ pass' = [pass EXCEPT !.slot = slot + 1] /\ UNCHANGED spent
  ELSE pc' = "callback" /\ spent' = 0 /\ UNCHANGED pass

\* What history keeps of a call: a one-shot is over, an interval goes on.
Called(slot) ==
  IF funcs[slot] = 0 THEN issued
  ELSE LET salt == funcs[slot] IN
       [issued EXCEPT ![salt] = Counted(@, IF @.isInterval THEN "live" ELSE "fired")]

Due(slot) == timers[slot].id # 0 /\ timers[slot].countDown <= pass.elapsed

FireInterval(slot) ==
  /\ Due(slot) /\ timers[slot].isInterval
  /\ timers' = [timers EXCEPT ![slot].countDown = timers[slot].interval - Delta(timers[slot])]
  /\ UNCHANGED funcs
  /\ Call(slot)

\* Mutant: a one-shot keeps its slot and its function when it runs.
FireAndKeep(slot) ==
  Due(slot) /\ ~timers[slot].isInterval /\ UNCHANGED <<timers, funcs>> /\ Call(slot)

\* A one-shot gives up its slot and its function before the function runs.
FireOneShot(slot) ==
  /\ Due(slot) /\ ~timers[slot].isInterval
  /\ timers' = [timers EXCEPT ![slot] = Free]
  /\ funcs' = [funcs EXCEPT ![slot] = 0]
  /\ Call(slot)

VisitSlot ==
  LET slot == pass.slot IN
  /\ pc = "pass" /\ slot <= pass.n /\ ~pass.dangling
  /\ \/ FireInterval(slot) /\ issued' = Called(slot)
     \/ FireOneShot(slot) /\ issued' = Called(slot)
     \/ /\ ~Due(slot)
        /\ timers' = IF timers[slot].id = 0 THEN timers
                     ELSE [timers EXCEPT ![slot].countDown = @ - pass.elapsed]
        /\ pass' = [pass EXCEPT !.slot = slot + 1]
        /\ UNCHANGED <<funcs, pc, spent, issued>>
  /\ UNCHANGED <<deadline, currentTO, clock, resets, torn>>

\* A slot read through a dangling pointer holds anything: it may look free or not
\* due, a due interval, or a due one-shot.  What is written to it is lost; the
\* function comes from the live array.
VisitDangling ==
  LET slot == pass.slot IN
  /\ pc = "pass" /\ slot <= pass.n /\ pass.dangling
  /\ torn' = TRUE
  /\ \/ /\ pass' = [pass EXCEPT !.slot = slot + 1]
        /\ UNCHANGED <<pc, spent, funcs, issued>>
     \/ Call(slot) /\ issued' = Called(slot) /\ UNCHANGED funcs
     \/ Call(slot) /\ issued' = Called(slot) /\ funcs' = [funcs EXCEPT ![slot] = 0]
  /\ UNCHANGED <<timers, deadline, currentTO, clock, resets>>

CountDowns(slots) == {timers[i].countDown : i \in {j \in slots : timers[j].id # 0}}

\* Mutant: the slots added during the pass are not looked at.
DeadlineOfPass == Min({Never} \union CountDowns(1..pass.n))

\* The deadline, computed from a table that is fetched again.
NextDeadline == Min({Never} \union CountDowns(Slots))

EndPass ==
  /\ pc = "pass" /\ pass.slot > pass.n
  /\ deadline' = NextDeadline /\ currentTO' = NextDeadline
  /\ pc' = "service" /\ pass' = NoPass
  /\ UNCHANGED <<timers, funcs, clock, spent, resets, issued, torn>>

-----------------------------------------------------------------------------
(* The rest of the loop                                                    *)

\* Script returns: the loop starts (and starts its clock), goes on with the
\* pass, waits for a message, or comes around.
Return ==
  /\ pc \in ScriptStates
  /\ pc' = CASE pc = "callback" -> "pass"
             [] pc = "service"  -> "wait"
             [] OTHER           -> "run"
  /\ pass' = IF pc = "callback" THEN [pass EXCEPT !.slot = @ + 1] ELSE pass
  /\ clock' = IF pc = "script" THEN 0 ELSE clock
  /\ spent' = 0
  /\ UNCHANGED <<timers, funcs, deadline, currentTO, resets, issued, torn>>

\* AJ_UnmarshalMsg returns: with a message for script, or (timeout, interruption,
\* a message that no script sees) with nothing to run.
WakeUp ==
  /\ pc = "wait"
  /\ pc' \in {"handler", "run"}
  /\ spent' = 0
  /\ UNCHANGED <<timers, funcs, deadline, currentTO, clock, pass, resets, issued, torn>>

Older(t) == IF t.status = "live" /\ ~t.ran /\ t.age < t.ms THEN [t EXCEPT !.age = @ + 1] ELSE t

\* A millisecond passes in script or in a wait, which never outlasts its timeout.
Tick ==
  /\ \/ pc \in ScriptStates /\ spent < MaxBusy
     \/ pc = "wait" /\ spent < currentTO /\ spent < MaxIdle
  /\ spent' = spent + 1
  /\ clock' = IF pc = "script" THEN clock ELSE clock + 1
  /\ issued' = [s \in Salts |-> Older(issued[s])]
  /\ UNCHANGED <<timers, funcs, deadline, currentTO, pc, pass, resets, torn>>

Script ==
  \/ \E ms \in Delays, isInterval \in BOOLEAN : SetTimer(ms, isInterval)
  \/ \E salt \in Salts : ClearTimer(salt)
  \/ \E salt \in Salts, ms \in Delays : ResetTimer(salt, ms)

Loop == RunTimers \/ VisitSlot \/ VisitDangling \/ EndPass \/ Return \/ WakeUp

Next == Script \/ Loop \/ Tick

Spec == Init /\ [][Next]_vars

\* The loop runs on a thread of its own and takes every step it can.  Messages
\* reach it for ever: the router answers the probes of the link monitor that
\* AJ_SetBusLinkTimeout starts.  Time passes, whatever the loop does meanwhile.
FairSpec == Spec /\ WF_vars(Loop) /\ SF_vars(Tick)

-----------------------------------------------------------------------------
(* Properties                                                              *)

\* ajs_timer.c keeps a timer in two places: unless a pass went on with the
\* buffer that a callback made it give up, the timers that have neither run out
\* nor been cleared are exactly those with a slot and with their own function
\* in the same place, however script re-used a slot from within a callback.
NoTimerLost ==
  ~torn => \A s \in Salts :
    Live(s) <=> (timers[issued[s].slot].id = s /\ funcs[issued[s].slot] = s)

\* A timer is early by no more than the time that had passed, at setTimeout or
\* setInterval, since the loop last read its clock: the first call of every
\* function comes when its age and that head start make up its delay.
EarlyByHeadStart ==
  [][~torn' => \A s \in Salts :
       issued'[s].ran /\ ~issued[s].ran => issued[s].age + issued[s].credit >= issued[s].ms]_vars

\* The function that a pass calls belongs to a timer that has neither run out nor
\* been cleared: no one-shot runs twice and none runs after clearTimeout, also when
\* a callback clears or replaces a timer in a slot the pass has still to visit.
OverIsOver ==
  [][pc = "pass" /\ pc' = "callback" /\ ~torn' => Live(funcs[pass.slot])]_vars

\* While the loop waits without having run script after AJS_RunTimers, the wait
\* ends no later than the countdown of any timer: a known deadline is never late.
WaitWithinCountDown ==
  pc = "wait" /\ deadline # 0 =>
    \A i \in Slots : timers[i].id # 0 => currentTO <= timers[i].countDown

\* A message that shortens the wait does not debit the timers, so one may run
\* late, but it runs: no message traffic puts a timer off for ever.
EveryTimerRuns ==
  \A s \in 1..MaxSalt :
    (s \in Salts /\ Live(s) /\ ~issued[s].ran)
      ~> (torn \/ s \notin Salts \/ ~Live(s) \/ issued[s].ran)

\* What the loop says of AJS_RunTimers (ajs_msgloop.c): the timeout for the wait
\* accounts for any new timer registered since the call before.
NoOversleep ==
  pc = "wait" => \A i \in Slots : timers[i].id # 0 => currentTO <= timers[i].countDown
=============================================================================
