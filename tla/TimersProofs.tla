---------------------------- MODULE TimersProofs ----------------------------
(***************************************************************************)
(* Proofs about Timers for all tables, delays and bounds.                  *)
(*                                                                         *)
(* The four properties are not inductive.  That no timer is lost needs     *)
(* each slot to name the timer that names the slot; that a known deadline  *)
(* is never late needs to be said of the whole loop but the pass, in which *)
(* it is the one before; that a timer is early by its head start needs an  *)
(* account of what each slot was debited and of what it is still to be     *)
(* debited, for the time read when the pass began and since.               *)
(***************************************************************************)
EXTENDS Timers, SequenceTheorems, WellFoundedInduction, TLAPS

SlotInfo == [id : 0..MaxSalt, isInterval : BOOLEAN, interval : Nat, countDown : Nat]

Issue == [slot : 1..MAX_TIMERS, ms : Nat, isInterval : BOOLEAN,
          status : {"live", "fired", "cleared"}, age : Nat, credit : Nat, ran : BOOLEAN]

\* The slots of a pass are in the table, which only grows; the clock starts with the loop.
PassInTable ==
  /\ pc \in {"pass", "callback"} => pass.slot >= 1 /\ pass.n <= Len(timers)
  /\ pc = "callback" => pass.slot <= pass.n
  /\ pc = "script" => clock = 0

\* Every timer was given a slot, and every slot holds a timer that was issued.
Known ==
  /\ \A s \in Salts : issued[s].slot \in Slots
  /\ \A i \in Slots : timers[i].id \in 0..Len(issued)

\* Slots and timers name each other, unless a slot was visited through a dangling pointer.
Paired ==
  /\ \A i \in Slots : timers[i].id # 0 =>
       LET t == issued[timers[i].id]
       IN  /\ Live(timers[i].id) /\ t.slot = i /\ funcs[i] = timers[i].id
           /\ t.isInterval = timers[i].isInterval
  /\ \A i \in Slots : timers[i].id = 0 => funcs[i] = 0
  /\ \A s \in Salts : Live(s) => timers[issued[s].slot].id = s

\* Outside a pass, a known deadline keeps the wait within the countdown of every timer.
DeadlineKept ==
  pc \notin {"pass", "callback"} /\ deadline # 0 =>
    \A i \in Slots : timers[i].id # 0 => currentTO <= timers[i].countDown

\* The pass is still to visit a slot and to debit it.
ToVisit(i) ==
  \/ pc = "pass" /\ i \in pass.slot .. pass.n
  \/ pc = "callback" /\ i \in pass.slot + 1 .. pass.n

\* What the slot will be debited for the time that has passed up to now.
Owed(i) == clock + (IF ToVisit(i) THEN pass.elapsed ELSE 0)

\* The delay of a timer is made up by its countdown, its age and its head start, also
\* when it is debited what it owes.
Accounted(s) ==
  LET t == issued[s] IN
  \/ t.ms - timers[t.slot].countDown + Owed(t.slot) <= t.age + t.credit
  \/ t.ms <= t.age

\* A timer whose function has not run was debited no more than its age and head start.
Debited == \A s \in Salts : Live(s) /\ ~issued[s].ran => Accounted(s)

IInv ==
  /\ TypeOK /\ PassInTable /\ Known
  /\ ~torn => Paired /\ Debited
  /\ DeadlineKept

-----------------------------------------------------------------------------
(* The table                                                               *)

\* The least of a set of natural numbers.
LEMMA MinIsLeast ==
  ASSUME NEW S \in SUBSET Nat, S # {}
  PROVE  Min(S) \in S /\ \A n \in S : Min(S) <= n
<1>1. PICK m \in S : \A n \in S : ~(<<n, m>> \in OpToRel(<, Nat))
  BY NatLessThanWellFounded, WFMin, Zenon
<1>2. \A n \in S : <<n, m>> \in Nat \X Nat /\ <<n, m>>[1] = n /\ <<n, m>>[2] = m
  OBVIOUS
<1>3. \A n \in S : ~(n < m)
  BY <1>1, <1>2, Zenon DEF OpToRel
<1>4. m \in Nat /\ \A n \in S : n \in Nat
  OBVIOUS
<1>5. \A n \in S : m <= n
  BY <1>3, <1>4
<1> QED  BY <1>5 DEF Min

LEMMA Basics ==
  ASSUME TypeOK
  PROVE  /\ timers \in Seq(SlotInfo) /\ Len(timers) \in Nat /\ Slots = 1..Len(timers)
         /\ Len(timers) \in NUM_TIMERS..MAX_TIMERS
         /\ \A i \in Slots : timers[i] \in SlotInfo
         /\ issued \in Seq(Issue) /\ Len(issued) \in Nat /\ Salts = 1..Len(issued)
         /\ \A s \in Salts : issued[s] \in Issue
         /\ Free \in SlotInfo
<1>1. timers \in Seq(SlotInfo) /\ issued \in Seq(Issue)
  BY DEF TypeOK, SlotInfo, Issue
<1>2. Len(timers) \in NUM_TIMERS..MAX_TIMERS
  BY DEF TypeOK
<1>3. Free \in SlotInfo
  BY TimersAssumption DEF Free, SlotInfo
<1> QED  BY <1>1, <1>2, <1>3, ElementOfSeq, LenProperties DEF Slots, Salts

\* The table in which a timer is put: the old one, or one with free slots added.
LEMMA GrownTable ==
  ASSUME TypeOK
  PROVE  /\ Grown \in Seq(SlotInfo) /\ Len(Grown) \in Nat /\ Len(Grown) >= Len(timers)
         /\ DOMAIN Grown = 1..Len(Grown)
         /\ \A i \in 1..Len(Grown) : Grown[i] = IF i \in Slots THEN timers[i] ELSE Free
         /\ FirstFree(Grown) \in 1..Len(Grown) /\ Grown[FirstFree(Grown)].id = 0
<1> DEFINE added == [i \in 1..ADD_TIMERS |-> Free]
<1>1. added \in Seq(SlotInfo) /\ Len(added) = ADD_TIMERS /\ ADD_TIMERS \in Nat \ {0}
  BY Basics, TimersAssumption
<1>2. Free.id = 0
  BY DEF Free
<1>3. CASE \E i \in Slots : timers[i].id = 0
  <2>1. Grown = timers
    BY <1>3 DEF Grown
  <2> DEFINE S == {i \in DOMAIN Grown : Grown[i].id = 0}
  <2>2. S \in SUBSET Nat /\ S # {}
    BY <1>3, <2>1, Basics
  <2>3. FirstFree(Grown) \in S
    BY <2>2, MinIsLeast DEF FirstFree
  <2> QED  BY <2>1, <2>3, Basics
<1>4. CASE ~\E i \in Slots : timers[i].id = 0
  <2>1. Grown = timers \o added
    BY <1>4 DEF Grown
  <2>2. /\ Grown \in Seq(SlotInfo) /\ Len(Grown) = Len(timers) + ADD_TIMERS
        /\ \A i \in 1..Len(Grown) :
             Grown[i] = IF i <= Len(timers) THEN timers[i] ELSE added[i - Len(timers)]
    BY <1>1, <2>1, Basics, ConcatProperties
  <2> HIDE DEF added
  <2>3. /\ DOMAIN Grown = 1..Len(Grown)
        /\ \A i \in 1..Len(Grown) : Grown[i] = IF i \in Slots THEN timers[i] ELSE Free
    BY <1>1, <2>2, Basics DEF added
  <2> DEFINE S == {i \in DOMAIN Grown : Grown[i].id = 0}
  <2>4. Len(Grown) \in S
    BY <1>1, <1>2, <2>2, <2>3, Basics
  <2>5. S \in SUBSET Nat /\ S # {}
    BY <2>3, <2>4
  <2>6. FirstFree(Grown) \in S
    BY <2>5, MinIsLeast DEF FirstFree
  <2> QED  BY <1>1, <2>2, <2>3, <2>6, Basics
<1> QED  BY <1>3, <1>4

\* The deadline is no later than any countdown.
LEMMA DeadlineIsLeast ==
  ASSUME TypeOK
  PROVE  /\ NextDeadline \in 0..Never
         /\ \A i \in Slots : timers[i].id # 0 => NextDeadline <= timers[i].countDown
<1> DEFINE S == {Never} \union CountDowns(Slots)
<1>1. S \in SUBSET Nat /\ S # {}
  BY Basics, TimersAssumption DEF CountDowns, SlotInfo
<1>2. Min(S) \in Nat /\ \A n \in S : Min(S) <= n
  BY <1>1, MinIsLeast
<1>3. \A i \in Slots : timers[i].id # 0 => timers[i].countDown \in S
  BY DEF CountDowns
<1>4. NextDeadline = Min(S) /\ Never \in S
  BY DEF NextDeadline
<1> HIDE DEF S
<1>5. NextDeadline \in Nat /\ \A n \in S : NextDeadline <= n
  BY <1>2, <1>4
<1>6. NextDeadline <= Never /\ Never \in Nat
  BY <1>4, <1>5, TimersAssumption
<1>7. \A i \in Slots : timers[i].id # 0 => NextDeadline <= timers[i].countDown
  BY <1>3, <1>5
<1> QED  BY <1>5, <1>6, <1>7

-----------------------------------------------------------------------------
(* What the steps change                                                   *)

\* One slot of the table is replaced.
LEMMA OneSlot ==
  ASSUME TypeOK, NEW i \in Slots, NEW e \in SlotInfo, timers' = [timers EXCEPT ![i] = e]
  PROVE  /\ timers' \in Seq(SlotInfo) /\ Len(timers') = Len(timers) /\ Slots' = Slots
         /\ timers'[i] = e /\ \A j \in Slots : j # i => timers'[j] = timers[j]
<1>1. timers \in Seq(SlotInfo) /\ i \in 1..Len(timers) /\ Slots = 1..Len(timers)
  BY Basics
<1>2. timers' \in Seq(SlotInfo) /\ Len(timers') = Len(timers)
  BY <1>1, ExceptSeq
<1>3. Slots' = 1..Len(timers')
  BY <1>2, LenProperties DEF Slots
<1> QED  BY <1>1, <1>2, <1>3, ExceptSeq

\* The history of one timer is replaced.
LEMMA OneIssue ==
  ASSUME TypeOK, NEW s \in Salts, NEW t \in Issue, issued' = [issued EXCEPT ![s] = t]
  PROVE  /\ issued' \in Seq(Issue) /\ Len(issued') = Len(issued) /\ Salts' = Salts
         /\ issued'[s] = t /\ \A r \in Salts : r # s => issued'[r] = issued[r]
<1>1. issued \in Seq(Issue) /\ s \in 1..Len(issued) /\ Salts = 1..Len(issued)
  BY Basics
<1>2. issued' \in Seq(Issue) /\ Len(issued') = Len(issued)
  BY <1>1, ExceptSeq
<1>3. Salts' = 1..Len(issued')
  BY <1>2, LenProperties DEF Salts
<1> QED  BY <1>1, <1>2, <1>3, ExceptSeq

\* The parts of TypeOK: the table, the history, and the loop.
TableOK ==
  /\ timers \in Seq(SlotInfo) /\ Len(timers) \in NUM_TIMERS..MAX_TIMERS
  /\ funcs \in [Slots -> 0..Len(issued)]
HistoryOK == issued \in Seq(Issue) /\ Len(issued) <= MaxSalt
LoopOK ==
  /\ deadline \in 0..Never /\ currentTO \in 0..Never
  /\ clock \in Nat /\ spent \in Nat /\ resets \in 0..MaxResets
  /\ pc \in ScriptStates \union {"run", "pass", "wait"}
  /\ pass \in [slot : Nat, n : Nat, elapsed : Nat, dangling : BOOLEAN]
  /\ torn \in BOOLEAN

LEMMA TypesSplit == TypeOK <=> TableOK /\ HistoryOK /\ LoopOK
  BY DEF TypeOK, TableOK, HistoryOK, LoopOK, SlotInfo, Issue

Sound == TypeOK /\ PassInTable /\ Known

\* A new timer is put in a slot that was free, or that was added.
Placed(slot, ms, isInterval) ==
  /\ timers' \in Seq(SlotInfo) /\ Len(timers') \in Len(timers)..MAX_TIMERS
  /\ Slots' = 1..Len(timers')
  /\ slot \in Slots => timers[slot].id = 0
  /\ timers'[slot] = [id |-> Len(issued) + 1, isInterval |-> isInterval,
                      interval |-> ms, countDown |-> ms]
  /\ \A i \in Slots' : i # slot => timers'[i] = IF i \in Slots THEN timers[i] ELSE Free
  /\ funcs' = [i \in Slots' |-> IF i = slot THEN Len(issued) + 1
                                ELSE IF i \in Slots THEN funcs[i] ELSE 0]
  /\ issued' \in Seq(Issue) /\ Len(issued') = Len(issued) + 1 /\ Len(issued') <= MaxSalt
  /\ Salts' = 1..Len(issued')
  /\ issued'[Len(issued) + 1] =
       [slot |-> slot, ms |-> ms, isInterval |-> isInterval, status |-> "live", age |-> 0,
        credit |-> HeadStart(slot), ran |-> FALSE]
  /\ \A s \in Salts : issued'[s] = issued[s]

LEMMA SetTimerDoes ==
  ASSUME Sound, NEW ms \in Delays, NEW isInterval \in BOOLEAN, SetTimer(ms, isInterval)
  PROVE  \E slot \in 1..Len(timers') : Placed(slot, ms, isInterval)
<1> DEFINE slot == FirstFree(Grown)
           salt == Len(issued) + 1
           e == [id |-> salt, isInterval |-> isInterval, interval |-> ms, countDown |-> ms]
           t == [slot |-> slot, ms |-> ms, isInterval |-> isInterval, status |-> "live",
                 age |-> 0, credit |-> HeadStart(slot), ran |-> FALSE]
<1>1. TypeOK /\ ms \in Nat /\ MaxSalt \in Nat /\ MAX_TIMERS \in Nat
  BY TimersAssumption DEF Sound
<1>2. /\ Grown \in Seq(SlotInfo) /\ slot \in 1..Len(Grown) /\ Grown[slot].id = 0
      /\ Len(Grown) \in Len(timers)..MAX_TIMERS /\ DOMAIN Grown = 1..Len(Grown)
      /\ \A i \in 1..Len(Grown) : Grown[i] = IF i \in Slots THEN timers[i] ELSE Free
  BY <1>1, GrownTable, Basics DEF SetTimer
<1>3. salt \in 1..MaxSalt
  BY <1>1, Basics DEF SetTimer
<1>4. HeadStart(slot) \in Nat
  BY <1>1 DEF HeadStart, TypeOK
<1>5. e \in SlotInfo /\ t \in Issue
  <2>1. slot \in 1..MAX_TIMERS /\ salt \in 0..MaxSalt
    BY <1>1, <1>2, <1>3
  <2> HIDE DEF slot, salt
  <2> QED  BY <1>1, <1>4, <2>1 DEF SlotInfo, Issue
<1>6. timers' = [Grown EXCEPT ![slot] = e] /\ issued' = Append(issued, t)
  BY DEF SetTimer
<1>7. funcs' = [i \in DOMAIN Grown |-> IF i = slot THEN salt
                                       ELSE IF i \in Slots THEN funcs[i] ELSE 0]
  BY DEF SetTimer
<1> HIDE DEF slot, e, t
<1>8. /\ timers' \in Seq(SlotInfo) /\ Len(timers') = Len(Grown) /\ timers'[slot] = e
      /\ \A i \in 1..Len(Grown) : i # slot => timers'[i] = Grown[i]
  BY <1>2, <1>5, <1>6, ExceptSeq
<1>9. Slots' = 1..Len(timers')
  BY <1>8, LenProperties DEF Slots
<1>10. /\ issued' \in Seq(Issue) /\ Len(issued') = salt /\ issued'[salt] = t
       /\ \A s \in Salts : issued'[s] = issued[s]
  BY <1>1, <1>5, <1>6, Basics, AppendProperties
<1>11. Salts' = 1..Len(issued')
  BY <1>10, LenProperties DEF Salts
<1>12. slot \in Slots => timers[slot].id = 0
  BY <1>2
<1>13. \A i \in Slots' : i # slot => timers'[i] = IF i \in Slots THEN timers[i] ELSE Free
  BY <1>2, <1>8, <1>9
<1>14. funcs' = [i \in Slots' |-> IF i = slot THEN salt
                                  ELSE IF i \in Slots THEN funcs[i] ELSE 0]
  BY <1>2, <1>7, <1>8, <1>9
<1>15. slot \in 1..Len(timers') /\ Len(timers') \in Len(timers)..MAX_TIMERS
  BY <1>2, <1>8
<1>16. salt <= MaxSalt
  BY <1>3
<1> QED
  BY <1>8, <1>9, <1>10, <1>11, <1>12, <1>13, <1>14, <1>15, <1>16
     DEF e, t, Placed

\* A timer that is cleared gives up its slot.
LEMMA ClearTimerDoes ==
  ASSUME Sound, NEW salt \in Salts, ClearTimer(salt)
  PROVE  LET slot == issued[salt].slot IN
    /\ slot \in Slots /\ timers[slot].id = salt
    /\ timers' \in Seq(SlotInfo) /\ Len(timers') = Len(timers) /\ Slots' = Slots
    /\ timers'[slot] = Free /\ \A j \in Slots : j # slot => timers'[j] = timers[j]
    /\ issued' \in Seq(Issue) /\ Len(issued') = Len(issued) /\ Salts' = Salts
    /\ issued'[salt] = Counted(issued[salt], "cleared")
    /\ issued'[salt].slot = slot /\ issued'[salt].status = "cleared"
    /\ \A r \in Salts : r # salt => issued'[r] = issued[r]
<1> DEFINE slot == issued[salt].slot
<1>1. TypeOK /\ slot \in Slots
  BY DEF Sound, Known
<1>2. Counted(issued[salt], "cleared") \in Issue
  BY <1>1, Basics DEF Counted, Issue
<1>3. timers' = [timers EXCEPT ![slot] = Free] /\ timers[slot].id = salt
      /\ issued' = [issued EXCEPT ![salt] = Counted(issued[salt], "cleared")]
  BY DEF ClearTimer, Holds
<1>4. Free \in SlotInfo
  BY <1>1, Basics
<1> HIDE DEF slot
<1>5. /\ timers' \in Seq(SlotInfo) /\ Len(timers') = Len(timers) /\ Slots' = Slots
      /\ timers'[slot] = Free /\ \A j \in Slots : j # slot => timers'[j] = timers[j]
  BY <1>1, <1>3, <1>4, OneSlot
<1>6. /\ issued' \in Seq(Issue) /\ Len(issued') = Len(issued) /\ Salts' = Salts
      /\ issued'[salt] = Counted(issued[salt], "cleared")
      /\ \A r \in Salts : r # salt => issued'[r] = issued[r]
  BY <1>1, <1>2, <1>3, OneIssue
<1>7. /\ Counted(issued[salt], "cleared").slot = issued[salt].slot
      /\ Counted(issued[salt], "cleared").status = "cleared"
  BY <1>1, Basics DEF Counted, Issue
<1> QED  BY <1>1, <1>3, <1>5, <1>6, <1>7 DEF slot

\* One that is reset counts down from its new delay.
LEMMA ResetTimerDoes ==
  ASSUME Sound, NEW salt \in Salts, NEW ms \in Delays, ResetTimer(salt, ms)
  PROVE  LET slot == issued[salt].slot IN
    /\ slot \in Slots /\ timers[slot].id = salt
    /\ timers' \in Seq(SlotInfo) /\ Len(timers') = Len(timers) /\ Slots' = Slots
    /\ timers'[slot].id = salt /\ timers'[slot].isInterval = timers[slot].isInterval
    /\ timers'[slot].countDown = ms
    /\ \A j \in Slots : j # slot => timers'[j] = timers[j]
    /\ issued' \in Seq(Issue) /\ Len(issued') = Len(issued) /\ Salts' = Salts
    /\ issued'[salt].slot = slot /\ issued'[salt].isInterval = issued[salt].isInterval
    /\ issued'[salt].status = issued[salt].status
    /\ issued'[salt].ms = ms /\ issued'[salt].age = 0
    /\ issued'[salt].credit = HeadStart(slot) /\ ~issued'[salt].ran
    /\ \A r \in Salts : r # salt => issued'[r] = issued[r]
<1> DEFINE slot == issued[salt].slot
           e == [timers[slot] EXCEPT !.interval = ms, !.countDown = ms]
           t == [issued[salt] EXCEPT !.ms = ms, !.age = 0, !.ran = FALSE,
                                     !.credit = HeadStart(slot)]
<1>1. TypeOK /\ slot \in Slots /\ ms \in Nat
  BY TimersAssumption DEF Sound, Known
<1>2. HeadStart(slot) \in Nat
  BY <1>1 DEF HeadStart, TypeOK
<1>3. t \in Issue /\ e \in SlotInfo
  BY <1>1, <1>2, Basics DEF Issue, SlotInfo
<1>4. timers' = [timers EXCEPT ![slot] = e] /\ timers[slot].id = salt
  BY DEF ResetTimer, Holds
<1>5. issued' = [issued EXCEPT ![salt] = t]
  BY DEF ResetTimer
<1>8. timers[slot] \in SlotInfo /\ issued[salt] \in Issue
  BY <1>1, Basics
<1>9. e.id = salt /\ e.isInterval = timers[slot].isInterval /\ e.countDown = ms
  BY <1>4, <1>8 DEF SlotInfo
<1>10. /\ t.slot = slot /\ t.isInterval = issued[salt].isInterval
       /\ t.status = issued[salt].status /\ t.ms = ms /\ t.age = 0
       /\ t.credit = HeadStart(slot) /\ ~t.ran
  BY <1>8 DEF Issue
<1> HIDE DEF slot, e, t
<1>6. /\ timers' \in Seq(SlotInfo) /\ Len(timers') = Len(timers) /\ Slots' = Slots
      /\ timers'[slot] = e /\ \A j \in Slots : j # slot => timers'[j] = timers[j]
  BY <1>1, <1>3, <1>4, OneSlot
<1>7. /\ issued' \in Seq(Issue) /\ Len(issued') = Len(issued) /\ Salts' = Salts
      /\ issued'[salt] = t
      /\ \A r \in Salts : r # salt => issued'[r] = issued[r]
  BY <1>1, <1>3, <1>5, OneIssue
<1> QED  BY <1>1, <1>4, <1>6, <1>7, <1>9, <1>10 DEF slot

\* What becomes of the timer whose function is called.
Over(t) == Counted(t, IF t.isInterval THEN "live" ELSE "fired")

\* A pass visits a slot: nothing is due, an interval goes on, or a one-shot gives it up.
LEMMA PassSlot ==
  ASSUME Sound, pc = "pass", pass.slot <= pass.n
  PROVE  pass.slot \in Slots
<1>1. TypeOK /\ pass.slot \in Nat /\ pass.n \in Nat
  BY DEF Sound, TypeOK
<1>2. pass.slot >= 1 /\ pass.n <= Len(timers)
  BY DEF Sound, PassInTable
<1> QED  BY <1>1, <1>2, Basics

LEMMA VisitSlotDoes ==
  ASSUME Sound, VisitSlot
  PROVE  LET slot == pass.slot IN
    /\ slot \in Slots
    /\ timers' \in Seq(SlotInfo) /\ Len(timers') = Len(timers) /\ Slots' = Slots
    /\ \A j \in Slots : j # slot => timers'[j] = timers[j]
    /\ \/ /\ ~Due(slot)
          /\ timers[slot].id = 0 => timers'[slot] = timers[slot]
          /\ timers[slot].id # 0 =>
               /\ timers'[slot].id = timers[slot].id
               /\ timers'[slot].isInterval = timers[slot].isInterval
               /\ timers'[slot].countDown = timers[slot].countDown - pass.elapsed
          /\ pass' = [pass EXCEPT !.slot = slot + 1]
          /\ UNCHANGED <<funcs, issued, pc, spent>>
       \/ /\ Due(slot) /\ issued' = Called(slot) /\ Call(slot)
          /\ \/ /\ timers[slot].isInterval /\ UNCHANGED funcs
                /\ timers'[slot].id = timers[slot].id
                /\ timers'[slot].isInterval = timers[slot].isInterval
             \/ /\ ~timers[slot].isInterval /\ funcs' = [funcs EXCEPT ![slot] = 0]
                /\ timers'[slot] = Free
<1> DEFINE slot == pass.slot
<1>1. TypeOK /\ slot \in Slots /\ timers[slot] \in SlotInfo
  BY PassSlot, Basics DEF Sound, VisitSlot
<1>2. pass \in [slot : Nat, n : Nat, elapsed : Nat, dangling : BOOLEAN]
      /\ deadline \in 0..Never /\ Never \in Nat
  BY <1>1, TimersAssumption DEF TypeOK
<1>3. CASE ~Due(slot) /\ pass' = [pass EXCEPT !.slot = slot + 1]
           /\ UNCHANGED <<funcs, issued, pc, spent>>
           /\ timers' = IF timers[slot].id = 0 THEN timers
                        ELSE [timers EXCEPT ![slot].countDown = @ - pass.elapsed]
  <2>1. CASE timers[slot].id = 0
    <3>1. timers' = timers /\ Slots' = Slots
      BY <1>3, <2>1 DEF Slots
    <3> QED  BY <1>1, <1>3, <2>1, <3>1, Basics
  <2>2. CASE timers[slot].id # 0
    <3> DEFINE e == [timers[slot] EXCEPT !.countDown = @ - pass.elapsed]
    <3>1. e \in SlotInfo
      BY <1>1, <1>2, <1>3, <2>2 DEF SlotInfo, Due
    <3>2. timers' = [timers EXCEPT ![slot] = e]
      BY <1>3, <2>2
    <3> HIDE DEF e
    <3>3. /\ timers' \in Seq(SlotInfo) /\ Len(timers') = Len(timers) /\ Slots' = Slots
          /\ timers'[slot] = e /\ \A j \in Slots : j # slot => timers'[j] = timers[j]
      BY <1>1, <3>1, <3>2, OneSlot
    <3>4. /\ e.id = timers[slot].id /\ e.isInterval = timers[slot].isInterval
          /\ e.countDown = timers[slot].countDown - pass.elapsed
      BY <1>1 DEF e, SlotInfo
    <3> QED  BY <1>1, <1>3, <2>2, <3>3, <3>4
  <2> QED  BY <2>1, <2>2
<1>4. CASE FireInterval(slot) /\ issued' = Called(slot)
  <2> DEFINE e == [timers[slot] EXCEPT
                     !.countDown = timers[slot].interval - Delta(timers[slot])]
  <2>1. (pass.elapsed - deadline) % (Never + 1) \in Nat
    BY <1>2
  <2>2. Delta(timers[slot]) \in Nat /\ Delta(timers[slot]) <= timers[slot].interval
    BY <1>1, <2>1 DEF Delta, SlotInfo
  <2>3. e \in SlotInfo
    BY <1>1, <2>2 DEF SlotInfo
  <2>4. timers' = [timers EXCEPT ![slot] = e]
    BY <1>4 DEF FireInterval
  <2> HIDE DEF e
  <2>5. /\ timers' \in Seq(SlotInfo) /\ Len(timers') = Len(timers) /\ Slots' = Slots
        /\ timers'[slot] = e /\ \A j \in Slots : j # slot => timers'[j] = timers[j]
    BY <1>1, <2>3, <2>4, OneSlot
  <2>6. e.id = timers[slot].id /\ e.isInterval = timers[slot].isInterval
    BY <1>1 DEF e, SlotInfo
  <2> QED  BY <1>1, <1>4, <2>5, <2>6 DEF FireInterval
<1>5. CASE FireOneShot(slot) /\ issued' = Called(slot)
  <2>1. /\ timers' \in Seq(SlotInfo) /\ Len(timers') = Len(timers) /\ Slots' = Slots
        /\ timers'[slot] = Free /\ \A j \in Slots : j # slot => timers'[j] = timers[j]
    BY <1>1, <1>5, OneSlot, Basics DEF FireOneShot
  <2> QED  BY <1>1, <1>5, <2>1 DEF FireOneShot
<1> QED  BY <1>3, <1>4, <1>5 DEF VisitSlot

\* What history keeps of a call.
LEMMA CalledDoes ==
  ASSUME Sound, NEW slot \in Slots, issued' = Called(slot)
  PROVE  /\ issued' \in Seq(Issue) /\ Len(issued') = Len(issued) /\ Salts' = Salts
         /\ \A s \in Salts : issued'[s] = IF s = funcs[slot] THEN Over(issued[s]) ELSE issued[s]
<1>1. TypeOK /\ funcs[slot] \in 0..Len(issued) /\ Salts = 1..Len(issued)
  BY Basics DEF Sound, TypeOK
<1>2. CASE funcs[slot] = 0
  BY <1>1, <1>2, Basics DEF Called, Salts
<1>3. CASE funcs[slot] # 0
  <2>1. funcs[slot] \in Salts
    BY <1>1, <1>3
  <2>2. Over(issued[funcs[slot]]) \in Issue
    <3> DEFINE t == issued[funcs[slot]]
    <3>1. t \in Issue
      BY <1>1, <2>1, Basics
    <3> HIDE DEF t
    <3>2. Counted(t, "live") \in Issue
      BY <3>1 DEF Counted, Issue
    <3>3. Counted(t, "fired") \in Issue
      BY <3>1 DEF Counted, Issue
    <3>4. Over(t) \in Issue
      BY <3>2, <3>3 DEF Over
    <3> QED  BY <3>4 DEF t
  <2>3. issued' = [issued EXCEPT ![funcs[slot]] = Over(issued[funcs[slot]])]
    BY <1>3 DEF Called, Over
  <2> DEFINE t == Over(issued[funcs[slot]])
  <2> HIDE DEF t
  <2>4. /\ issued' \in Seq(Issue) /\ Len(issued') = Len(issued) /\ Salts' = Salts
        /\ issued'[funcs[slot]] = t
        /\ \A r \in Salts : r # funcs[slot] => issued'[r] = issued[r]
    BY <1>1, <2>1, <2>2, <2>3, OneIssue DEF t
  <2> QED  BY <2>4 DEF t
<1> QED  BY <1>2, <1>3

\* A call leaves every timer its slot, its delay and its kind.
LEMMA CalledKeeps ==
  ASSUME Sound, NEW slot \in Slots, issued' = Called(slot)
  PROVE  \A s \in Salts : issued'[s].slot = issued[s].slot
<1> SUFFICES ASSUME NEW s \in Salts PROVE issued'[s].slot = issued[s].slot
  OBVIOUS
<1>1. issued[s] \in Issue
  BY Basics DEF Sound
<1>2. Over(issued[s]).slot = issued[s].slot
  BY <1>1 DEF Over, Counted, Issue
<1> QED  BY <1>2, CalledDoes

LEMMA HistoryKept ==
  ASSUME Sound, issued' = issued
  PROVE  issued' \in Seq(Issue) /\ Len(issued') = Len(issued) /\ Salts' = Salts
  BY Basics DEF Sound, Salts

\* Every timer grows older.
LEMMA TickDoes ==
  ASSUME Sound, Tick
  PROVE  /\ issued' \in Seq(Issue) /\ Len(issued') = Len(issued) /\ Salts' = Salts
         /\ \A s \in Salts : issued'[s] = Older(issued[s])
<1>1. issued' = [s \in 1..Len(issued) |-> Older(issued[s])] /\ Salts = 1..Len(issued)
      /\ Len(issued) \in Nat
  BY Basics DEF Sound, Tick
<1>2. \A s \in Salts : Older(issued[s]) \in Issue
  <2> SUFFICES ASSUME NEW t \in Issue PROVE Older(t) \in Issue
    BY Basics DEF Sound
  <2>1. [t EXCEPT !.age = @ + 1] \in Issue
    BY DEF Issue
  <2> QED  BY <2>1 DEF Older
<1>3. issued' \in Seq(Issue) /\ Len(issued') = Len(issued)
  BY <1>1, <1>2
<1> QED  BY <1>1, <1>3, LenProperties DEF Salts

-----------------------------------------------------------------------------
(* Types                                                                   *)

\* The loop keeps its variables, and a pass its place in the table.
LEMMA NextLoopOK == Sound /\ [Next]_vars => LoopOK' /\ (pc' = "script" => clock' = 0)
<1> SUFFICES ASSUME Sound, [Next]_vars PROVE LoopOK' /\ (pc' = "script" => clock' = 0)
  OBVIOUS
<1> USE DEF LoopOK
<1>0. LoopOK /\ (pc = "script" => clock = 0) /\ Never \in Nat
  BY TypesSplit, TimersAssumption DEF Sound, PassInTable
<1>1. ASSUME NEW ms \in Delays, NEW isInterval \in BOOLEAN, SetTimer(ms, isInterval)
      PROVE  LoopOK' /\ (pc' = "script" => clock' = 0)
  <2>1. /\ deadline' = 0 /\ UNCHANGED <<currentTO, clock, pc, spent, resets, torn>>
        /\ pass' = pass \/ pass' = [pass EXCEPT !.dangling = TRUE]
    BY <1>1 DEF SetTimer, ForgetDeadline
  <2>2. pass' \in [slot : Nat, n : Nat, elapsed : Nat, dangling : BOOLEAN]
    <3>1. CASE pass' = pass
      BY <1>0, <3>1
    <3>2. CASE pass' = [pass EXCEPT !.dangling = TRUE]
      BY <1>0, <3>2
    <3> QED  BY <2>1, <3>1, <3>2
  <2> QED  BY <1>0, <2>1, <2>2
<1>2. ASSUME NEW salt \in Salts, ClearTimer(salt)
      PROVE  LoopOK' /\ (pc' = "script" => clock' = 0)
  BY <1>0, <1>2 DEF ClearTimer, ForgetDeadline
<1>3. ASSUME NEW salt \in Salts, NEW ms \in Delays, ResetTimer(salt, ms)
      PROVE  LoopOK' /\ (pc' = "script" => clock' = 0)
  BY <1>0, <1>3, TimersAssumption DEF ResetTimer, ForgetDeadline
<1>4. CASE RunTimers
  <2>1. Debit => currentTO - clock \in 0..Never
    BY <1>0 DEF Debit
  <2>2. CASE Debit
    BY <1>0, <1>4, <2>1, <2>2 DEF RunTimers, RestartClock, Remaining, ScriptStates
  <2>3. CASE ~Debit
    <3>1. Len(timers) \in Nat
      BY Basics DEF Sound
    <3>2. pass' = [slot |-> 1, n |-> Len(timers), elapsed |-> clock, dangling |-> FALSE]
          /\ pc' = "pass" /\ clock' = 0 /\ spent' = 0
          /\ UNCHANGED <<currentTO, deadline, resets, torn>>
      BY <1>4, <2>3 DEF RunTimers, RestartClock
    <3> QED  BY <1>0, <3>1, <3>2 DEF ScriptStates
  <2> QED  BY <2>2, <2>3
<1>5. CASE VisitSlot
  BY <1>0, <1>5 DEF VisitSlot, FireInterval, FireOneShot, Call, ScriptStates
<1>6. CASE VisitDangling
  BY <1>0, <1>6 DEF VisitDangling, Call, ScriptStates
<1>7. CASE EndPass
  BY <1>0, <1>7, DeadlineIsLeast DEF EndPass, Sound, ScriptStates, NoPass
<1>8. CASE Return
  BY <1>0, <1>8 DEF Return, ScriptStates
<1>9. CASE WakeUp \/ Tick
  BY <1>0, <1>9 DEF WakeUp, Tick, ScriptStates
<1>10. CASE UNCHANGED vars
  BY <1>0, <1>10 DEF vars
<1> QED
  BY <1>1, <1>2, <1>3, <1>4, <1>5, <1>6, <1>7, <1>8, <1>9, <1>10 DEF Next, Script, Loop

\* The table and the history stay as long as one another's numbers need them.
LEMMA TablesKept ==
  ASSUME Sound, timers' \in Seq(SlotInfo), Len(timers') = Len(timers), Slots' = Slots,
         funcs' \in [Slots -> 0..Len(issued)],
         issued' \in Seq(Issue), Len(issued') = Len(issued), Salts' = Salts,
         \A i \in Slots : timers'[i].id \in {0, timers[i].id},
         \A s \in Salts : issued'[s].slot = issued[s].slot
  PROVE  TableOK' /\ HistoryOK' /\ Known'
<1>1. TableOK /\ HistoryOK /\ Known /\ Len(issued) \in Nat
  BY TypesSplit, Basics DEF Sound
<1>2. TableOK'
  BY <1>1 DEF TableOK
<1>3. HistoryOK'
  BY <1>1 DEF HistoryOK
<1>4. Known'
  BY <1>1 DEF Known
<1> QED  BY <1>2, <1>3, <1>4

LEMMA NextTables == Sound /\ [Next]_vars => TableOK' /\ HistoryOK' /\ Known'
<1> SUFFICES ASSUME Sound, [Next]_vars PROVE TableOK' /\ HistoryOK' /\ Known'
  OBVIOUS
<1>0. /\ TypeOK /\ TableOK /\ HistoryOK /\ Known
      /\ Slots = 1..Len(timers) /\ Salts = 1..Len(issued)
      /\ Len(timers) \in Nat /\ Len(issued) \in Nat /\ MAX_TIMERS \in Nat
  BY TypesSplit, Basics, TimersAssumption DEF Sound
<1>0a. funcs \in [Slots -> 0..Len(issued)] /\ 0 \in 0..Len(issued)
  BY <1>0 DEF TableOK
<1>1. ASSUME NEW ms \in Delays, NEW isInterval \in BOOLEAN, SetTimer(ms, isInterval)
      PROVE  TableOK' /\ HistoryOK' /\ Known'
  <2>1. PICK slot \in 1..Len(timers') : Placed(slot, ms, isInterval)
    BY <1>1, SetTimerDoes
  <2>2. TableOK'
    <3>1. Len(issued') = Len(issued) + 1 /\ \A i \in Slots : funcs[i] \in 0..Len(issued)
      BY <1>0, <2>1 DEF Placed, TableOK
    <3>2. funcs' \in [Slots' -> 0..Len(issued')]
      <4>1. \A i \in Slots : funcs[i] \in 0..Len(issued')
        BY <1>0, <3>1
      <4>2. Len(issued) + 1 \in 0..Len(issued') /\ 0 \in 0..Len(issued')
        BY <1>0, <3>1
      <4> QED  BY <2>1, <4>1, <4>2 DEF Placed
    <3>3. Len(timers') \in NUM_TIMERS..MAX_TIMERS
      BY <1>0, <2>1, TimersAssumption DEF Placed, TableOK
    <3> QED  BY <2>1, <3>2, <3>3 DEF Placed, TableOK
  <2>3. HistoryOK'
    BY <1>0, <2>1 DEF Placed, HistoryOK
  <2>4. ASSUME NEW s \in Salts' PROVE issued'[s].slot \in Slots'
    BY <1>0, <2>1, <2>4 DEF Placed, Known
  <2>5. ASSUME NEW i \in Slots' PROVE timers'[i].id \in 0..Len(issued')
    <3>1. CASE i = slot
      BY <1>0, <2>1, <2>5, <3>1 DEF Placed
    <3>2. CASE i # slot
      BY <1>0, <2>1, <2>5, <3>2 DEF Placed, Known, Free
    <3> QED  BY <3>1, <3>2
  <2> QED  BY <2>2, <2>3, <2>4, <2>5 DEF Known
<1>2. ASSUME NEW salt \in Salts, ClearTimer(salt)
      PROVE  TableOK' /\ HistoryOK' /\ Known'
  <2>1. funcs' = [funcs EXCEPT ![issued[salt].slot] = 0]
    BY <1>2 DEF ClearTimer
  <2>2. funcs' \in [Slots -> 0..Len(issued)]
    BY <1>0a, <2>1
  <2>3. \A i \in Slots : timers'[i].id \in {0, timers[i].id}
    BY <1>0, <1>2, ClearTimerDoes DEF Free
  <2>5. \A s \in Salts : issued'[s].slot = issued[s].slot
    BY <1>2, ClearTimerDoes
  <2> QED  BY <1>2, <2>2, <2>3, <2>5, ClearTimerDoes, TablesKept
<1>3. ASSUME NEW salt \in Salts, NEW ms \in Delays, ResetTimer(salt, ms)
      PROVE  TableOK' /\ HistoryOK' /\ Known'
  <2>1. funcs' \in [Slots -> 0..Len(issued)]
    BY <1>0, <1>3 DEF ResetTimer, TableOK
  <2>3. \A i \in Slots : timers'[i].id \in {0, timers[i].id}
    BY <1>3, ResetTimerDoes
  <2>5. \A s \in Salts : issued'[s].slot = issued[s].slot
    BY <1>3, ResetTimerDoes
  <2> QED  BY <1>3, <2>1, <2>3, <2>5, ResetTimerDoes, TablesKept
<1>4. CASE VisitSlot
  <2>1. funcs' \in [Slots -> 0..Len(issued)]
    <3>1. funcs' = funcs \/ funcs' = [funcs EXCEPT ![pass.slot] = 0]
      BY <1>4, VisitSlotDoes
    <3> QED  BY <1>0a, <3>1
  <2>2. \A i \in Slots : timers'[i].id \in {0, timers[i].id}
    BY <1>4, VisitSlotDoes DEF Free
  <2>3. /\ issued' \in Seq(Issue) /\ Len(issued') = Len(issued) /\ Salts' = Salts
        /\ \A s \in Salts : issued'[s].slot = issued[s].slot
    BY <1>0, <1>4, VisitSlotDoes, CalledDoes, CalledKeeps, HistoryKept
  <2> QED  BY <1>4, <2>1, <2>2, <2>3, VisitSlotDoes, TablesKept
<1>5. CASE VisitDangling
  <2>1. pass.slot \in Slots
    BY <1>0, <1>5, PassSlot DEF VisitDangling
  <2>2. funcs' \in [Slots -> 0..Len(issued)]
    BY <1>0, <1>5 DEF VisitDangling, TableOK
  <2>3. /\ issued' \in Seq(Issue) /\ Len(issued') = Len(issued) /\ Salts' = Salts
        /\ \A s \in Salts : issued'[s].slot = issued[s].slot
    BY <1>0, <1>5, <2>1, CalledDoes, CalledKeeps, HistoryKept DEF VisitDangling
  <2>4. timers' = timers
    BY <1>5 DEF VisitDangling
  <2> QED  BY <1>0, <2>2, <2>3, <2>4, TablesKept DEF TableOK, Slots
<1>6. CASE RunTimers \/ EndPass \/ Return \/ WakeUp
  BY <1>0, <1>6 DEF RunTimers, EndPass, Return, WakeUp, Slots, Salts, TableOK, HistoryOK, Known
<1>7. CASE Tick
  <2>1. \A s \in Salts : issued'[s].slot = issued[s].slot
    BY <1>7, TickDoes, Basics, <1>0 DEF Older, Issue
  <2>2. timers' = timers /\ funcs' = funcs
    BY <1>7 DEF Tick
  <2> QED  BY <1>0, <1>7, <2>1, <2>2, TickDoes, TablesKept DEF TableOK, Slots
<1>8. CASE UNCHANGED vars
  BY <1>0, <1>8 DEF vars, Slots, Salts, TableOK, HistoryOK, Known
<1> QED
  BY <1>1, <1>2, <1>3, <1>4, <1>5, <1>6, <1>7, <1>8 DEF Next, Script, Loop

LEMMA NextPass == Sound /\ [Next]_vars => PassInTable'
<1> SUFFICES ASSUME Sound, [Next]_vars PROVE PassInTable'
  OBVIOUS
<1> USE DEF PassInTable
<1>0. LoopOK /\ PassInTable /\ Len(timers) \in Nat /\ Len(timers') \in Nat /\ LoopOK'
      /\ (pc' = "script" => clock' = 0)
  BY TypesSplit, Basics, NextTables, NextLoopOK, LenProperties DEF Sound, TableOK
<1>1. ASSUME NEW ms \in Delays, NEW isInterval \in BOOLEAN, SetTimer(ms, isInterval)
      PROVE  PassInTable'
  <2>1. Len(timers') >= Len(timers)
    <3>1. PICK slot \in 1..Len(timers') : Placed(slot, ms, isInterval)
      BY <1>1, SetTimerDoes
    <3> QED  BY <1>0, <3>1 DEF Placed
  <2>3. pc' = pc /\ clock' = clock
    BY <1>1 DEF SetTimer
  <2>2. pass'.slot = pass.slot /\ pass'.n = pass.n
    BY <1>0, <1>1 DEF SetTimer, LoopOK
  <2>4. pass.n \in Nat /\ pass.slot \in Nat
    BY <1>0 DEF LoopOK
  <2> QED  BY <1>0, <2>1, <2>2, <2>3, <2>4
<1>2. ASSUME NEW salt \in Salts, ClearTimer(salt)
      PROVE  PassInTable'
  BY <1>0, <1>2, ClearTimerDoes DEF ClearTimer
<1>3. ASSUME NEW salt \in Salts, NEW ms \in Delays, ResetTimer(salt, ms)
      PROVE  PassInTable'
  BY <1>0, <1>3, ResetTimerDoes DEF ResetTimer
<1>4. CASE RunTimers
  BY <1>0, <1>4, Basics DEF RunTimers, LoopOK, Sound
<1>5. CASE VisitSlot
  <2>1. Len(timers') = Len(timers)
    BY <1>5, VisitSlotDoes
  <2>2. \/ pc' = "pass" /\ pass' = [pass EXCEPT !.slot = pass.slot + 1]
        \/ pc' = "callback" /\ pass' = pass
    BY <1>5 DEF VisitSlot, FireInterval, FireOneShot, Call
  <2> QED  BY <1>0, <1>5, <2>1, <2>2 DEF VisitSlot, LoopOK
<1>6. CASE VisitDangling
  <2>1. timers' = timers
    BY <1>6 DEF VisitDangling
  <2>2. \/ pc' = "pass" /\ pass' = [pass EXCEPT !.slot = pass.slot + 1]
        \/ pc' = "callback" /\ pass' = pass
    BY <1>6 DEF VisitDangling, Call
  <2>3. pc' # "script" /\ pass'.n = pass.n
        /\ \/ pc' = "pass" /\ pass'.slot = pass.slot + 1
           \/ pc' = "callback" /\ pass'.slot = pass.slot
    BY <1>0, <2>2 DEF LoopOK
  <2>4. pc = "pass" /\ pass.slot <= pass.n /\ pass.slot \in Nat
    BY <1>0, <1>6 DEF VisitDangling, LoopOK
  <2> QED  BY <1>0, <2>1, <2>3, <2>4
<1>7. CASE EndPass \/ Return \/ WakeUp \/ Tick
  <2>1. Len(timers') = Len(timers)
    BY <1>7 DEF EndPass, Return, WakeUp, Tick
  <2>2. CASE EndPass \/ WakeUp \/ Tick
    BY <1>0, <2>1, <2>2 DEF EndPass, WakeUp, Tick
  <2>3. CASE Return
    BY <1>0, <2>1, <2>3 DEF Return, LoopOK
  <2> QED  BY <1>7, <2>2, <2>3
<1>8. CASE UNCHANGED vars
  BY <1>0, <1>8 DEF vars
<1> QED
  BY <1>1, <1>2, <1>3, <1>4, <1>5, <1>6, <1>7, <1>8 DEF Next, Script, Loop

LEMMA NextSound == Sound /\ [Next]_vars => Sound'
<1> SUFFICES ASSUME Sound, [Next]_vars PROVE Sound'
  OBVIOUS
<1>1. TypeOK'
  BY NextTables, NextLoopOK DEF TypeOK, TableOK, HistoryOK, LoopOK, SlotInfo, Issue
<1> QED  BY <1>1, NextTables, NextPass DEF Sound

-----------------------------------------------------------------------------
(* No timer is lost                                                        *)

LEMMA PairedKept ==
  ASSUME Known, Paired, Slots' = Slots, Salts' = Salts, funcs' = funcs,
         \A i \in Slots : /\ timers'[i].id = timers[i].id
                         /\ timers'[i].isInterval = timers[i].isInterval,
         \A s \in Salts : /\ issued'[s].slot = issued[s].slot
                         /\ issued'[s].isInterval = issued[s].isInterval
                         /\ issued'[s].status = issued[s].status,
         Salts = 1..Len(issued), Len(issued) \in Nat
  PROVE  Paired'
<1>1. ASSUME NEW i \in Slots, timers[i].id # 0 PROVE timers[i].id \in Salts
  BY <1>1 DEF Known
<1>2. ASSUME NEW s \in Salts PROVE issued[s].slot \in Slots
  BY DEF Known
<1> QED  BY <1>1, <1>2 DEF Paired, Live

\* A timer that is over gives up its slot.
LEMMA PairedWithout ==
  ASSUME Known, Paired, NEW i \in Slots, NEW s \in Salts, timers[i].id = s, s # 0,
         Slots' = Slots, Salts' = Salts, timers'[i] = Free,
         funcs \in [Slots -> Int], funcs' = [funcs EXCEPT ![i] = 0],
         \A j \in Slots : j # i => timers'[j] = timers[j],
         issued'[s].status # "live",
         \A r \in Salts : r # s => issued'[r] = issued[r],
         Salts = 1..Len(issued), Len(issued) \in Nat
  PROVE  Paired'
<1> USE DEF Paired, Live, Free
<1>1. issued[s].slot = i
  OBVIOUS
<1>2. ASSUME NEW j \in Slots, timers'[j].id # 0
      PROVE  /\ j # i /\ timers'[j] = timers[j] /\ timers[j].id \in Salts /\ timers[j].id # s
             /\ issued'[timers[j].id] = issued[timers[j].id]
  <2>1. j # i /\ timers'[j] = timers[j]
    BY <1>2
  <2>2. timers[j].id \in Salts
    BY <1>2, <2>1 DEF Known
  <2>3. timers[j].id # s
    BY <1>1, <1>2, <2>1
  <2> QED  BY <2>1, <2>2, <2>3
<1>3. ASSUME NEW j \in Slots, timers'[j].id # 0
      PROVE  LET t == issued'[timers'[j].id]
             IN  /\ Live(timers[j].id)' /\ t.slot = j /\ funcs'[j] = timers'[j].id
                 /\ t.isInterval = timers'[j].isInterval
  BY <1>2, <1>3
<1>4. ASSUME NEW j \in Slots, timers'[j].id = 0 PROVE funcs'[j] = 0
  BY <1>4
<1>5. ASSUME NEW r \in Salts, Live(r)' PROVE timers'[issued'[r].slot].id = r
  <2>1. r # s /\ issued'[r] = issued[r] /\ timers[issued[r].slot].id = r
    BY <1>5
  <2>2. issued[r].slot \in Slots /\ issued[r].slot # i
    BY <2>1 DEF Known
  <2> QED  BY <2>1, <2>2
<1> QED  BY <1>3, <1>4, <1>5

LEMMA NextPaired == Sound /\ (~torn => Paired) /\ [Next]_vars => (~torn' => Paired')
<1> SUFFICES ASSUME Sound, ~torn => Paired, [Next]_vars, ~torn' PROVE Paired'
  OBVIOUS
<1> USE DEF Paired, Live
<1>0. /\ TypeOK /\ Known /\ Slots = 1..Len(timers) /\ Salts = 1..Len(issued)
      /\ Len(timers) \in Nat /\ Len(issued) \in Nat
      /\ funcs \in [Slots -> 0..Len(issued)]
  BY Basics DEF Sound, TypeOK
<1>1. Paired
  BY DEF Next, Script, Loop, SetTimer, ClearTimer, ResetTimer, RunTimers, VisitSlot,
         VisitDangling, EndPass, Return, WakeUp, Tick, vars
<1>2. ASSUME NEW ms \in Delays, NEW isInterval \in BOOLEAN, SetTimer(ms, isInterval)
      PROVE  Paired'
  <2>1. PICK slot \in 1..Len(timers') : Placed(slot, ms, isInterval)
    BY <1>2, SetTimerDoes
  <2>2. ASSUME NEW i \in Slots', timers'[i].id # 0
        PROVE  LET t == issued'[timers'[i].id]
               IN  /\ Live(timers[i].id)' /\ t.slot = i /\ funcs'[i] = timers'[i].id
                   /\ t.isInterval = timers'[i].isInterval
    BY <1>0, <1>1, <2>1, <2>2 DEF Placed, Known, Free
  <2>3. ASSUME NEW i \in Slots', timers'[i].id = 0 PROVE funcs'[i] = 0
    BY <1>0, <1>1, <2>1, <2>3 DEF Placed, Free
  <2>4. ASSUME NEW s \in Salts', Live(s)' PROVE timers'[issued'[s].slot].id = s
    <3>1. CASE s = Len(issued) + 1
      BY <2>1, <3>1 DEF Placed
    <3>2. CASE s # Len(issued) + 1
      <4>1. s \in Salts /\ issued'[s] = issued[s]
        BY <1>0, <2>1, <2>4, <3>2 DEF Placed
      <4>2. issued[s].slot \in Slots /\ timers[issued[s].slot].id = s /\ s # 0
        BY <1>0, <1>1, <2>4, <4>1 DEF Known
      <4>3. issued[s].slot # slot /\ issued[s].slot \in Slots'
        BY <1>0, <2>1, <4>2 DEF Placed
      <4> QED  BY <2>1, <4>1, <4>2, <4>3 DEF Placed
    <3> QED  BY <3>1, <3>2
  <2> QED  BY <2>2, <2>3, <2>4
<1>3. ASSUME NEW salt \in Salts, ClearTimer(salt)
      PROVE  Paired'
  <2>1. funcs' = [funcs EXCEPT ![issued[salt].slot] = 0]
    BY <1>3 DEF ClearTimer
  <2>2. issued[salt].slot \in Slots /\ salt # 0
    BY <1>0, <1>3, ClearTimerDoes
  <2>3. funcs \in [Slots -> Int]
    BY <1>0
  <2> HIDE DEF Paired
  <2>4. /\ timers[issued[salt].slot].id = salt /\ timers'[issued[salt].slot] = Free
        /\ Slots' = Slots /\ Salts' = Salts /\ issued'[salt].status # "live"
        /\ \A j \in Slots : j # issued[salt].slot => timers'[j] = timers[j]
        /\ \A r \in Salts : r # salt => issued'[r] = issued[r]
    BY <1>3, ClearTimerDoes
  <2> QED  BY <1>0, <1>1, <2>1, <2>2, <2>3, <2>4, PairedWithout
<1>4. ASSUME NEW salt \in Salts, NEW ms \in Delays, ResetTimer(salt, ms)
      PROVE  Paired'
  <2>1. funcs' = funcs
    BY <1>4 DEF ResetTimer
  <2> HIDE DEF Paired
  <2>2. /\ Slots' = Slots /\ Salts' = Salts
        /\ \A i \in Slots : /\ timers'[i].id = timers[i].id
                           /\ timers'[i].isInterval = timers[i].isInterval
        /\ \A s \in Salts : /\ issued'[s].slot = issued[s].slot
                           /\ issued'[s].isInterval = issued[s].isInterval
                           /\ issued'[s].status = issued[s].status
    BY <1>4, ResetTimerDoes
  <2> QED  BY <1>0, <1>1, <2>1, <2>2, PairedKept
<1>5. CASE VisitSlot
  <2> DEFINE slot == pass.slot
  <2>1. CASE ~Due(slot)
    <3> HIDE DEF Paired
    <3>1. issued' = issued /\ funcs' = funcs /\ Salts' = Salts
      BY <1>5, <2>1, VisitSlotDoes DEF Salts
    <3> QED  BY <1>0, <1>1, <1>5, <2>1, <3>1, VisitSlotDoes, PairedKept
  <2>2. CASE Due(slot)
    <3>1. slot \in Slots /\ timers[slot].id = funcs[slot] /\ funcs[slot] \in Salts
          /\ funcs[slot] # 0 /\ issued' = Called(slot)
      BY <1>0, <1>1, <1>5, <2>2, VisitSlotDoes DEF Due, Known
    <3>2. /\ issued'[funcs[slot]] = Over(issued[funcs[slot]]) /\ Salts' = Salts
          /\ \A s \in Salts : s # funcs[slot] => issued'[s] = issued[s]
      BY <3>1, CalledDoes
    <3>3. /\ Over(issued[funcs[slot]]).status =
               IF issued[funcs[slot]].isInterval THEN "live" ELSE "fired"
          /\ Over(issued[funcs[slot]]).isInterval = issued[funcs[slot]].isInterval
          /\ Over(issued[funcs[slot]]).slot = issued[funcs[slot]].slot
      BY <1>0, <3>1, Basics DEF Over, Counted, Issue
    <3>4. issued[funcs[slot]].isInterval = timers[slot].isInterval /\ Live(funcs[slot])
      BY <1>1, <3>1
    <3>5. CASE timers[slot].isInterval
      <4>1. /\ timers'[slot].id = timers[slot].id /\ funcs' = funcs /\ Slots' = Slots
            /\ timers'[slot].isInterval = timers[slot].isInterval
            /\ \A j \in Slots : j # slot => timers'[j] = timers[j]
        BY <1>5, <2>2, <3>5, VisitSlotDoes
      <4>2. issued'[funcs[slot]].status = "live" /\ issued[funcs[slot]].status = "live"
        BY <3>2, <3>3, <3>4, <3>5
      <4> HIDE DEF Paired
      <4> QED  BY <1>0, <1>1, <3>2, <3>3, <4>1, <4>2, PairedKept
    <3>6. CASE ~timers[slot].isInterval
      <4>1. /\ timers'[slot] = Free /\ funcs' = [funcs EXCEPT ![slot] = 0] /\ Slots' = Slots
            /\ \A j \in Slots : j # slot => timers'[j] = timers[j]
        BY <1>5, <2>2, <3>6, VisitSlotDoes
      <4>2. issued'[funcs[slot]].status # "live"
        BY <3>2, <3>3, <3>4, <3>6
      <4>3. funcs \in [Slots -> Int]
        BY <1>0
      <4> HIDE DEF Paired
      <4> QED  BY <1>0, <1>1, <3>1, <3>2, <4>1, <4>2, <4>3, PairedWithout
    <3> QED  BY <3>5, <3>6
  <2> QED  BY <2>1, <2>2
<1>6. CASE RunTimers \/ EndPass \/ Return \/ WakeUp \/ UNCHANGED vars
  BY <1>1, <1>6 DEF RunTimers, EndPass, Return, WakeUp, vars, Slots, Salts
<1>7. CASE Tick
  <2>1. \A s \in Salts : /\ issued'[s].status = issued[s].status
                         /\ issued'[s].slot = issued[s].slot
                         /\ issued'[s].isInterval = issued[s].isInterval
    <3>1. \A t \in Issue : /\ Older(t).status = t.status /\ Older(t).slot = t.slot
                            /\ Older(t).isInterval = t.isInterval
      BY DEF Older, Issue
    <3> QED  BY <1>0, <1>7, <3>1, TickDoes, Basics
  <2> HIDE DEF Paired
  <2>2. timers' = timers /\ funcs' = funcs /\ Slots' = Slots /\ Salts' = Salts
    BY <1>7, TickDoes DEF Tick, Slots
  <2> QED  BY <1>0, <1>1, <2>1, <2>2, PairedKept
<1>8. ~VisitDangling
  BY DEF VisitDangling
<1> QED
  BY <1>2, <1>3, <1>4, <1>5, <1>6, <1>7, <1>8 DEF Next, Script, Loop

-----------------------------------------------------------------------------
(* A known deadline is never late                                          *)

LEMMA NextDeadlineKept == Sound /\ DeadlineKept /\ [Next]_vars => DeadlineKept'
<1> SUFFICES ASSUME Sound, DeadlineKept, [Next]_vars PROVE DeadlineKept'
  OBVIOUS
<1> USE DEF DeadlineKept
<1>1. CASE Script
  <2>1. deadline' = 0
    BY <1>1 DEF Script, SetTimer, ClearTimer, ResetTimer, ForgetDeadline
  <2> QED  BY <2>1
<1>2. CASE RunTimers
  <2>1. timers' = timers /\ deadline' = deadline /\ Slots' = Slots /\ pc = "run"
    BY <1>2 DEF RunTimers, Slots
  <2>2. clock \in Nat /\ currentTO \in Nat /\ \A i \in Slots : timers[i].countDown \in Nat
    <3>1. clock \in Nat /\ currentTO \in 0..Never /\ Never \in Nat
      BY TimersAssumption DEF Sound, TypeOK
    <3>2. \A i \in Slots : timers[i].countDown \in Nat
      BY Basics DEF Sound, SlotInfo
    <3> QED  BY <3>1, <3>2
  <2>3. CASE Debit
    <3>1. currentTO' = currentTO - clock
      BY <1>2, <2>3 DEF RunTimers, Remaining
    <3> QED  BY <2>1, <2>2, <3>1
  <2>4. CASE ~Debit
    BY <1>2, <2>4 DEF RunTimers
  <2> QED  BY <2>3, <2>4
<1>3. CASE VisitSlot \/ VisitDangling
  BY <1>3 DEF VisitSlot, VisitDangling, FireInterval, FireOneShot, Call
<1>4. CASE EndPass
  BY <1>4, DeadlineIsLeast DEF EndPass, Slots, Sound
<1>5. CASE Return \/ WakeUp \/ Tick \/ UNCHANGED vars
  BY <1>5 DEF Return, WakeUp, Tick, vars, Slots, ScriptStates
<1> QED  BY <1>1, <1>2, <1>3, <1>4, <1>5 DEF Next, Loop

-----------------------------------------------------------------------------
(* How early a timer may run                                               *)

LEMMA NextDebited ==
  Sound /\ (~torn => Paired /\ Debited) /\ [Next]_vars => (~torn' => Debited')
<1> SUFFICES ASSUME Sound, ~torn => Paired /\ Debited, [Next]_vars, ~torn' PROVE Debited'
  OBVIOUS
<1>0. /\ TypeOK /\ Known /\ Slots = 1..Len(timers) /\ Salts = 1..Len(issued)
      /\ Len(timers) \in Nat /\ Len(issued) \in Nat
      /\ clock \in Nat /\ pass.elapsed \in Nat /\ pass.slot \in Nat /\ pass.n \in Nat
      /\ \A i \in Slots : timers[i].countDown \in Nat
      /\ \A s \in Salts : issued[s] \in Issue
      /\ \A s \in Salts : /\ issued[s].slot \in Slots /\ issued[s].ms \in Nat
                         /\ issued[s].age \in Nat /\ issued[s].credit \in Nat
  BY Basics DEF Sound, TypeOK, Known, SlotInfo, Issue
<1>1. Paired /\ Debited
  BY DEF Next, Script, Loop, SetTimer, ClearTimer, ResetTimer, RunTimers, VisitSlot,
         VisitDangling, EndPass, Return, WakeUp, Tick, vars
<1>2. \A i \in Slots : Owed(i) \in Nat
  BY <1>0 DEF Owed
  \* It is enough that what is still to be debited does not grow.
<1>3. ASSUME NEW s \in Salts, Live(s), ~issued[s].ran, issued'[s] = issued[s],
             NEW i \in Slots, i = issued[s].slot, timers'[i] = timers[i],
             Owed(i)' \in Nat, Owed(i)' <= Owed(i)
      PROVE  Accounted(s)'
  <2> DEFINE t == issued[s]
             owed == Owed(i)
             cd == timers[i].countDown
  <2>1. /\ t.ms \in Nat /\ t.age \in Nat /\ t.credit \in Nat /\ cd \in Nat /\ owed \in Nat
    BY <1>0, <1>2
  <2>2. t.ms - cd + owed <= t.age + t.credit \/ t.ms <= t.age
    BY <1>1, <1>3 DEF Debited, Accounted
  <2>3. t.ms - cd + Owed(i)' <= t.age + t.credit \/ t.ms <= t.age
    <3> HIDE DEF t, cd
    <3> QED  BY <1>3, <2>1, <2>2
  <2> QED  BY <1>3, <2>3 DEF Accounted
<1>3a. ASSUME timers' = timers, issued' = issued, Salts' = Salts,
              \A i \in Slots : Owed(i)' \in Nat /\ Owed(i)' <= Owed(i)
       PROVE  Debited'
  <2>1. ASSUME NEW s \in Salts, Live(s), ~issued[s].ran PROVE Accounted(s)'
    <3>1. PICK i \in Slots : i = issued[s].slot
      BY <1>0
    <3> QED  BY <1>3, <1>3a, <2>1, <3>1
  <2> QED  BY <1>3a, <2>1 DEF Debited, Live
<1>4. ASSUME NEW ms \in Delays, NEW isInterval \in BOOLEAN, SetTimer(ms, isInterval)
      PROVE  Debited'
  <2>1. PICK slot \in 1..Len(timers') : Placed(slot, ms, isInterval)
    BY <1>4, SetTimerDoes
  <2>2. pc \in ScriptStates /\ pc' = pc /\ clock' = clock /\ pass'.slot = pass.slot
        /\ pass'.n = pass.n /\ pass'.elapsed = pass.elapsed
    BY <1>0, <1>4 DEF SetTimer, Sound, TypeOK
  <2>3. \A i \in Nat : Owed(i)' = Owed(i)
    BY <2>2 DEF Owed, ToVisit
  <2>4. Owed(slot)' = HeadStart(slot)
    BY <1>0, <2>1, <2>2 DEF Owed, ToVisit, HeadStart, ScriptStates, Sound, PassInTable
  <2>5. ASSUME NEW s \in Salts', Live(s)', ~issued'[s].ran PROVE Accounted(s)'
    <3>1. CASE s = Len(issued) + 1
      <4>1. issued'[s].ms = ms /\ issued'[s].slot = slot /\ issued'[s].age = 0
            /\ issued'[s].credit = HeadStart(slot) /\ timers'[slot].countDown = ms
        BY <2>1, <3>1 DEF Placed
      <4>2. Owed(slot)' \in Nat /\ ms \in Nat
        BY <1>0, <2>1, <2>3, TimersAssumption DEF Owed
      <4> QED  BY <2>4, <4>1, <4>2 DEF Accounted
    <3>2. CASE s # Len(issued) + 1
      <4>1. s \in Salts /\ issued'[s] = issued[s]
        BY <1>0, <2>1, <2>5, <3>2 DEF Placed
      <4>2. issued[s].slot \in Slots /\ timers[issued[s].slot].id = s /\ s # 0 /\ Live(s)
        <5>1. s # 0 /\ issued[s].slot \in Slots
          BY <1>0, <4>1
        <5>2. Live(s)
          BY <2>5, <4>1 DEF Live
        <5> QED  BY <1>1, <4>1, <5>1, <5>2 DEF Paired
      <4>3. timers'[issued[s].slot] = timers[issued[s].slot]
        <5>1. issued[s].slot # slot /\ issued[s].slot \in Slots'
          <6>1. slot \in Slots => timers[slot].id = 0
            BY <2>1 DEF Placed
          <6>2. Slots' = 1..Len(timers') /\ Len(timers') \in Len(timers)..MAX_TIMERS
            BY <2>1 DEF Placed
          <6> QED  BY <1>0, <4>2, <6>1, <6>2
        <5> QED  BY <2>1, <4>2, <5>1 DEF Placed
      <4>4. PICK i \in Slots : i = issued[s].slot
        BY <4>2
      <4>5. Owed(i)' \in Nat /\ Owed(i)' <= Owed(i)
        BY <1>0, <1>2, <2>3
      <4> QED  BY <1>3, <2>5, <4>1, <4>2, <4>3, <4>4, <4>5
    <3> QED  BY <3>1, <3>2
  <2> QED  BY <2>5 DEF Debited
<1>5. ASSUME NEW salt \in Salts, ClearTimer(salt)
      PROVE  Debited'
  <2>1. \A i \in Slots : Owed(i)' = Owed(i)
    BY <1>5 DEF ClearTimer, Owed, ToVisit
  <2>2. ASSUME NEW s \in Salts', Live(s)', ~issued'[s].ran PROVE Accounted(s)'
    <3>1. s \in Salts /\ s # salt /\ issued'[s] = issued[s]
      BY <1>5, <2>2, ClearTimerDoes DEF Live
    <3>2. Live(s) /\ issued[s].slot \in Slots /\ timers[issued[s].slot].id = s
      BY <1>0, <1>1, <2>2, <3>1 DEF Live, Paired
    <3>3. timers'[issued[s].slot] = timers[issued[s].slot]
      BY <1>5, <3>1, <3>2, ClearTimerDoes
    <3> QED  BY <1>2, <1>3, <2>1, <2>2, <3>1, <3>2, <3>3
  <2> QED  BY <2>2 DEF Debited
<1>6. ASSUME NEW salt \in Salts, NEW ms \in Delays, ResetTimer(salt, ms)
      PROVE  Debited'
  <2> DEFINE slot == issued[salt].slot
  <2>1. pc \in ScriptStates /\ UNCHANGED <<pc, pass, clock>>
    BY <1>6 DEF ResetTimer
  <2>2. \A i \in Slots : Owed(i)' = Owed(i)
    BY <2>1 DEF Owed, ToVisit
  <2>3. slot \in Slots /\ Owed(slot) = HeadStart(slot)
    BY <1>0, <2>1 DEF Owed, ToVisit, HeadStart, ScriptStates, Sound, PassInTable
  <2>4. ASSUME NEW s \in Salts', Live(s)', ~issued'[s].ran PROVE Accounted(s)'
    <3>1. CASE s = salt
      <4>1. issued'[s].ms = ms /\ issued'[s].slot = slot /\ issued'[s].age = 0
            /\ issued'[s].credit = HeadStart(slot) /\ timers'[slot].countDown = ms
        BY <1>6, <3>1, ResetTimerDoes
      <4>2. PICK i \in Slots : i = slot
        BY <2>3
      <4>3. Owed(i)' = HeadStart(slot) /\ HeadStart(slot) \in Nat /\ ms \in Nat
        BY <1>2, <2>2, <2>3, <4>2, TimersAssumption
      <4>4. issued'[s].ms - timers'[i].countDown + Owed(i)' <= issued'[s].age + issued'[s].credit
        BY <4>1, <4>2, <4>3
      <4> QED  BY <4>1, <4>2, <4>4 DEF Accounted
    <3>2. CASE s # salt
      <4>1. s \in Salts /\ issued'[s] = issued[s]
        BY <1>6, <2>4, <3>2, ResetTimerDoes
      <4>2. issued[s].slot \in Slots /\ timers[issued[s].slot].id = s /\ Live(s)
        BY <1>0, <1>1, <2>4, <4>1 DEF Paired, Live
      <4>3. timers'[issued[s].slot] = timers[issued[s].slot]
        BY <1>6, <3>2, <4>2, ResetTimerDoes
      <4> QED  BY <1>2, <1>3, <2>2, <2>4, <4>1, <4>2, <4>3
    <3> QED  BY <3>1, <3>2
  <2> QED  BY <2>4 DEF Debited
<1>7. CASE RunTimers
  <2>1. timers' = timers /\ issued' = issued /\ Salts' = Salts
    BY <1>7 DEF RunTimers, Salts
  <2>2. \A i \in Slots : Owed(i) = clock
    BY <1>0, <1>7 DEF RunTimers, Owed, ToVisit
  <2>3. \A i \in Slots : Owed(i)' \in {0, clock}
    BY <1>0, <1>7 DEF RunTimers, RestartClock, Owed, ToVisit
  <2>4. \A i \in Slots : Owed(i)' \in Nat /\ Owed(i)' <= Owed(i)
    BY <1>0, <2>2, <2>3
  <2> QED  BY <1>3a, <2>1, <2>4
<1>8. CASE VisitSlot
  <2> DEFINE slot == pass.slot
  <2>1. \A i \in Slots \ {slot} : Owed(i)' = Owed(i)
    <3>1. clock' = clock /\ pc = "pass"
      BY <1>8 DEF VisitSlot
    <3>2. \/ pc' = "pass" /\ pass' = [pass EXCEPT !.slot = slot + 1]
          \/ pc' = "callback" /\ pass' = pass
      BY <1>8 DEF VisitSlot, FireInterval, FireOneShot, Call
    <3>3. pass'.n = pass.n /\ pass'.elapsed = pass.elapsed
          /\ \/ pc' = "pass" /\ pass'.slot = slot + 1
             \/ pc' = "callback" /\ pass'.slot = slot
      BY <1>0, <3>2 DEF Sound, TypeOK
    <3> QED  BY <1>0, <3>1, <3>3 DEF Owed, ToVisit
  <2>2. \A j \in Slots : j # slot => timers'[j] = timers[j]
    BY <1>8, VisitSlotDoes
  <2>3. slot \in Slots
    BY <1>8, VisitSlotDoes
  \* The timers in the other slots.
  <2>4. ASSUME NEW s \in Salts, Live(s), ~issued[s].ran, issued'[s] = issued[s],
               timers[slot].id # s
        PROVE  Accounted(s)'
    <3>1. issued[s].slot # slot /\ issued[s].slot \in Slots
      BY <1>0, <1>1, <2>4 DEF Paired
    <3> QED  BY <1>2, <1>3, <2>1, <2>2, <2>4, <3>1
  <2>5. CASE ~Due(slot)
    <3>1. issued' = issued /\ Salts' = Salts
      BY <1>8, <2>5, VisitSlotDoes DEF Salts
    <3>2. ASSUME NEW s \in Salts, Live(s), ~issued[s].ran, timers[slot].id = s
          PROVE  Accounted(s)'
      <4>0. s # 0
        BY <1>0
      <4>1. s # 0 /\ issued[s].slot = slot
        BY <1>1, <2>3, <3>2, <4>0 DEF Paired
      <4>2. timers'[slot].countDown = timers[slot].countDown - pass.elapsed
        BY <1>8, <2>5, <3>2, <4>1, VisitSlotDoes
      <4>3. pc = "pass" /\ pc' = "pass" /\ clock' = clock /\ pass'.slot = slot + 1
        BY <1>0, <1>8, <2>5 DEF VisitSlot, FireInterval, FireOneShot, Sound, TypeOK
      <4>4. slot \in pass.slot .. pass.n
        BY <1>0, <1>8 DEF VisitSlot
      <4>5. PICK i \in Slots : i = slot
        BY <2>3
      <4>6. Owed(slot) = clock + pass.elapsed /\ Owed(i)' = clock
        BY <1>0, <4>3, <4>4, <4>5 DEF Owed, ToVisit
      <4>7. Accounted(s)
        BY <1>1, <3>2 DEF Debited
      <4>8. /\ issued[s].ms \in Nat /\ issued[s].age \in Nat /\ issued[s].credit \in Nat
            /\ timers[i].countDown \in Nat
        BY <1>0
      <4>9. \/ issued[s].ms - timers'[i].countDown + Owed(i)' <= issued[s].age + issued[s].credit
            \/ issued[s].ms <= issued[s].age
        <5>1. \/ issued[s].ms - timers[i].countDown + (clock + pass.elapsed)
                   <= issued[s].age + issued[s].credit
              \/ issued[s].ms <= issued[s].age
          BY <4>1, <4>5, <4>6, <4>7 DEF Accounted
        <5>2. timers'[i].countDown = timers[i].countDown - pass.elapsed /\ Owed(i)' = clock
          BY <4>2, <4>5, <4>6
        <5>3. clock \in Nat /\ pass.elapsed \in Nat
          BY <1>0
        <5> QED  BY <4>8, <5>1, <5>2, <5>3
      <4> QED  BY <3>1, <4>1, <4>5, <4>9 DEF Accounted
    <3> QED  BY <2>4, <3>1, <3>2 DEF Debited, Live
  <2>6. CASE Due(slot)
    <3>1. timers[slot].id # 0 /\ funcs[slot] = timers[slot].id /\ issued' = Called(slot)
      BY <1>1, <1>8, <2>3, <2>6, VisitSlotDoes DEF Due, Paired
    <3>2. Salts' = Salts
          /\ \A s \in Salts : issued'[s] = IF s = timers[slot].id THEN Over(issued[s])
                                                                ELSE issued[s]
      BY <2>3, <3>1, CalledDoes
    <3>3. \A s \in Salts : Over(issued[s]).ran
      BY <1>0 DEF Over, Counted, Issue
    <3> QED  BY <2>4, <3>2, <3>3 DEF Debited, Live
  <2> QED  BY <2>5, <2>6
<1>9. CASE EndPass
  <2>1. timers' = timers /\ issued' = issued /\ Salts' = Salts
    BY <1>9 DEF EndPass, Salts
  <2>2. \A i \in Slots : Owed(i)' = Owed(i)
    BY <1>0, <1>9 DEF EndPass, Owed, ToVisit
  <2>3. \A i \in Slots : Owed(i)' \in Nat /\ Owed(i)' <= Owed(i)
    BY <1>2, <2>2
  <2> QED  BY <1>3a, <2>1, <2>3
<1>10. CASE Return
  <2>1. timers' = timers /\ issued' = issued /\ Salts' = Salts
    BY <1>10 DEF Return, Salts
  <2>2. clock' \in Nat /\ clock' <= clock
    BY <1>0, <1>10 DEF Return
  <2>3. \A i \in Slots : ToVisit(i)' <=> ToVisit(i)
    BY <1>0, <1>10 DEF Return, ToVisit, ScriptStates, Sound, TypeOK
  <2>4. pass'.elapsed = pass.elapsed
    BY <1>0, <1>10 DEF Return, Sound, TypeOK
  <2>5. \A i \in Slots : Owed(i)' \in Nat /\ Owed(i)' <= Owed(i)
    <3> SUFFICES ASSUME NEW i \in Slots PROVE Owed(i)' \in Nat /\ Owed(i)' <= Owed(i)
      OBVIOUS
    <3>1. CASE ToVisit(i)
      <4>1. Owed(i) = clock + pass.elapsed /\ Owed(i)' = clock' + pass'.elapsed
        BY <2>3, <3>1 DEF Owed
      <4>2. clock \in Nat /\ pass.elapsed \in Nat
        BY <1>0
      <4> QED  BY <2>2, <2>4, <4>1, <4>2
    <3>2. CASE ~ToVisit(i)
      <4>1. clock \in Nat
        BY <1>0
      <4>2. Owed(i) = clock
        BY <3>2, <4>1 DEF Owed
      <4>3. PICK c \in Nat : c = clock'
        BY <2>2
      <4>4. Owed(i)' = c + 0
        BY <2>3, <3>2, <4>3, Zenon DEF Owed
      <4>5. c <= clock
        BY <2>2, <4>1, <4>3
      <4>6. c + 0 = c
        OBVIOUS
      <4> QED  BY <4>1, <4>2, <4>4, <4>5, <4>6
    <3> QED  BY <3>1, <3>2
  <2> QED  BY <1>3a, <2>1, <2>5
<1>11. CASE WakeUp \/ UNCHANGED vars
  <2>1. timers' = timers /\ issued' = issued /\ Salts' = Salts
    BY <1>11 DEF WakeUp, vars, Salts
  <2>2. \A i \in Slots : Owed(i)' = Owed(i)
    BY <1>0, <1>11 DEF WakeUp, vars, Owed, ToVisit
  <2>3. \A i \in Slots : Owed(i)' \in Nat /\ Owed(i)' <= Owed(i)
    BY <1>2, <2>2
  <2> QED  BY <1>3a, <2>1, <2>3
<1>12. CASE Tick
  <2>1. timers' = timers /\ UNCHANGED <<pc, pass>> /\ clock' \in {clock, clock + 1}
    BY <1>12 DEF Tick
  <2>2. ASSUME NEW i \in Slots PROVE Owed(i)' \in Nat /\ Owed(i)' <= Owed(i) + 1
    <3>1. ToVisit(i)' <=> ToVisit(i)
      BY <2>1 DEF ToVisit
    <3>2. \/ Owed(i)' = Owed(i)
          \/ Owed(i)' = clock + 1 + IF ToVisit(i) THEN pass.elapsed ELSE 0
      BY <2>1, <3>1, Zenon DEF Owed
    <3>3. clock \in Nat /\ pass.elapsed \in Nat
      BY <1>0
    <3>4. CASE ToVisit(i)
      BY <3>2, <3>3, <3>4 DEF Owed
    <3>5. CASE ~ToVisit(i)
      BY <3>2, <3>3, <3>5 DEF Owed
    <3> QED  BY <3>4, <3>5
  <2>3. ASSUME NEW s \in Salts, Live(s)', ~issued'[s].ran PROVE Accounted(s)'
    <3> DEFINE t == issued[s]
    <3>1. t \in Issue /\ issued'[s] = Older(t)
      BY <1>0, <1>12, TickDoes
    <3>2. Live(s) /\ ~t.ran
      BY <2>3, <3>1 DEF Older, Issue, Live
    <3>3. CASE t.age < t.ms
      <4>1. /\ issued'[s].slot = t.slot /\ issued'[s].ms = t.ms
            /\ issued'[s].age = t.age + 1 /\ issued'[s].credit = t.credit
        BY <3>1, <3>2, <3>3 DEF Older, Issue, Live
      <4>2. Accounted(s)
        BY <1>1, <3>2 DEF Debited
      <4>3. PICK i \in Slots : i = t.slot
        BY <1>0
      <4>4. t.ms - timers[i].countDown + Owed(i)' <= t.age + 1 + t.credit
        <5>1. t.ms \in Nat /\ t.age \in Nat /\ t.credit \in Nat /\ timers[i].countDown \in Nat
              /\ Owed(i) \in Nat
          BY <1>0, <1>2
        <5>2. t.ms - timers[i].countDown + Owed(i) <= t.age + t.credit
          BY <3>3, <4>2, <4>3, <5>1 DEF Accounted
        <5> HIDE DEF t
        <5> QED  BY <2>2, <5>1, <5>2
      <4> QED  BY <2>1, <4>1, <4>3, <4>4 DEF Accounted
    <3>4. CASE ~(t.age < t.ms)
      <4>1. issued'[s] = t
        BY <3>1, <3>4 DEF Older
      <4>2. t.ms <= t.age
        BY <1>0, <3>4
      <4> QED  BY <4>1, <4>2 DEF Accounted
    <3> QED  BY <3>3, <3>4
  <2>4. Salts' = Salts
    BY <1>12, TickDoes
  <2> QED  BY <2>3, <2>4 DEF Debited
<1>13. ~VisitDangling
  BY DEF VisitDangling
<1> QED
  BY <1>4, <1>5, <1>6, <1>7, <1>8, <1>9, <1>10, <1>11, <1>12, <1>13 DEF Next, Script, Loop

-----------------------------------------------------------------------------
(* The theorems                                                            *)

LEMMA InitIInv == Init => IInv
<1> SUFFICES ASSUME Init PROVE IInv
  OBVIOUS
<1>1. Free \in SlotInfo /\ Free.id = 0
  BY TimersAssumption DEF Free, SlotInfo
<1>2. timers \in Seq(SlotInfo) /\ Len(timers) = NUM_TIMERS /\ Slots = 1..NUM_TIMERS
  BY <1>1, TimersAssumption DEF Init, Slots
<1>3. issued \in Seq(Issue) /\ Len(issued) = 0 /\ Salts = {}
  BY EmptySeq DEF Init, Salts
<1>4. TypeOK
  <2>1. TableOK
    BY <1>2, <1>3, TimersAssumption DEF Init, TableOK
  <2>2. HistoryOK
    BY <1>3, TimersAssumption DEF HistoryOK
  <2>3. Never \in Nat /\ MaxResets \in Nat /\ Never \div 2 \in 0..Never
    BY TimersAssumption
  <2>4. pass \in [slot : Nat, n : Nat, elapsed : Nat, dangling : BOOLEAN]
    BY DEF Init, NoPass
  <2>5. deadline \in 0..Never /\ currentTO \in 0..Never /\ resets \in 0..MaxResets
    <3>1. currentTO = Never \div 2
      BY DEF Init
    <3>2. deadline = 0 /\ resets = 0
      BY DEF Init
    <3> QED  BY <2>3, <3>1, <3>2
  <2>6. LoopOK
    BY <2>4, <2>5 DEF Init, LoopOK, ScriptStates
  <2> QED  BY <2>1, <2>2, <2>6, TypesSplit
<1>5. PassInTable /\ Known /\ Paired /\ Debited /\ DeadlineKept
  BY <1>1, <1>2, <1>3 DEF Init, PassInTable, Known, Paired, Debited, DeadlineKept
<1> QED  BY <1>4, <1>5 DEF IInv

LEMMA NextIInv == IInv /\ [Next]_vars => IInv'
  BY NextSound, NextPaired, NextDebited, NextDeadlineKept DEF IInv, Sound

\* Whatever script does from within callbacks, the slots and the timers of the table name
\* each other, and a slot accounts for what it was debited (RegisterTimer, AJS_RunTimers).
THEOREM Invariance == Spec => []IInv
BY InitIInv, NextIInv, PTL DEF Spec

\* The variables of the timers keep their types, and the table its size.
THEOREM TypeCorrect == Spec => []TypeOK
<1>1. IInv => TypeOK
  BY DEF IInv
<1> QED  BY <1>1, Invariance, PTL

\* The timers that have neither run out nor been cleared are those with a slot and with
\* their own function in the same place of timerFuncs.
THEOREM TimersKept == Spec => []NoTimerLost
<1>1. IInv => NoTimerLost
  <2> SUFFICES ASSUME IInv, ~torn, NEW s \in Salts
               PROVE  Live(s) <=> (timers[issued[s].slot].id = s /\ funcs[issued[s].slot] = s)
    BY DEF NoTimerLost
  <2>1. Paired /\ issued[s].slot \in Slots /\ s # 0
    BY Basics DEF IInv, Known
  <2> QED  BY <2>1 DEF Paired
<1> QED  BY <1>1, Invariance, PTL

\* A wait that follows a known deadline ends before any countdown does (AJS_RunTimers).
THEOREM WaitsEnd == Spec => []WaitWithinCountDown
<1>1. IInv => WaitWithinCountDown
  BY DEF IInv, DeadlineKept, WaitWithinCountDown
<1> QED  BY <1>1, Invariance, PTL

\* A pass calls the function of a timer that is not over.
THEOREM OnlyLiveTimersRun == Spec => OverIsOver
<1>1. IInv /\ [Next]_vars
        => [pc = "pass" /\ pc' = "callback" /\ ~torn' => Live(funcs[pass.slot])]_vars
  <2> SUFFICES ASSUME IInv, [Next]_vars, pc = "pass", pc' = "callback", ~torn'
               PROVE  Live(funcs[pass.slot])
    OBVIOUS
  <2>1. VisitSlot
    BY DEF Next, Script, Loop, SetTimer, ClearTimer, ResetTimer, RunTimers, VisitDangling,
           EndPass, Return, WakeUp, Tick, vars, ScriptStates
  <2>2. Sound /\ Paired
    BY <2>1 DEF IInv, Sound, VisitSlot
  <2>3. pass.slot \in Slots /\ Due(pass.slot)
    BY <2>1, <2>2, VisitSlotDoes
  <2> QED  BY <2>2, <2>3 DEF Paired, Due
<1> QED  BY <1>1, Invariance, PTL DEF Spec, OverIsOver

\* No function is called for the first time before its timer's age and head start make
\* up its delay.
THEOREM NoTimerTooEarly == Spec => EarlyByHeadStart
<1> DEFINE Early == ~torn' => \A s \in Salts :
      issued'[s].ran /\ ~issued[s].ran => issued[s].age + issued[s].credit >= issued[s].ms
<1>1. IInv /\ [Next]_vars => [Early]_vars
  <2> SUFFICES ASSUME IInv, [Next]_vars, ~torn', NEW s \in Salts,
                      issued'[s].ran, ~issued[s].ran
               PROVE  issued[s].age + issued[s].credit >= issued[s].ms
    OBVIOUS
  <2>1. Sound /\ TypeOK /\ issued[s] \in Issue
    BY Basics DEF IInv, Sound
  \* Only a call makes a function one that has run.
  <2>2. VisitSlot
    <3>1. ASSUME NEW ms \in Delays, NEW isInterval \in BOOLEAN, SetTimer(ms, isInterval)
          PROVE  issued'[s] = issued[s]
      BY <2>1, <3>1, SetTimerDoes DEF Placed
    <3>2. ASSUME NEW salt \in Salts, ClearTimer(salt)
          PROVE  issued'[s].ran = issued[s].ran
      <4>1. Counted(issued[s], "cleared").ran = issued[s].ran
        BY <2>1 DEF Counted, Issue
      <4> QED  BY <2>1, <3>2, <4>1, ClearTimerDoes
    <3>3. ASSUME NEW salt \in Salts, NEW ms \in Delays, ResetTimer(salt, ms)
          PROVE  ~issued'[s].ran
      BY <2>1, <3>3, ResetTimerDoes
    <3>4. Tick => issued'[s].ran = issued[s].ran
      <4>1. Older(issued[s]).ran = issued[s].ran
        BY <2>1 DEF Older, Issue
      <4> QED  BY <2>1, <4>1, TickDoes
    <3> QED
      BY <3>1, <3>2, <3>3, <3>4
         DEF Next, Script, Loop, RunTimers, VisitDangling, EndPass, Return, WakeUp, vars
  <2>3. Paired /\ Debited
    BY <2>2 DEF IInv, VisitSlot
  <2> DEFINE slot == pass.slot
             t == issued[s]
  <2>4. slot \in Slots /\ Due(slot) /\ issued' = Called(slot)
    BY <2>1, <2>2, VisitSlotDoes
  <2>5. s = funcs[slot]
    BY <2>1, <2>4, CalledDoes
  <2>6. timers[slot].id = s /\ t.slot = slot /\ Live(s)
    BY <2>1, <2>3, <2>4, <2>5, Basics DEF Paired, Due
  <2>7. Accounted(s)
    BY <2>3, <2>6 DEF Debited
  <2>8. pc = "pass" /\ slot \in pass.slot .. pass.n /\ clock \in Nat /\ pass.elapsed \in Nat
    BY <2>1, <2>2 DEF VisitSlot, TypeOK
  <2>9. Owed(slot) = clock + pass.elapsed /\ timers[slot].countDown <= pass.elapsed
    BY <2>4, <2>8 DEF Owed, ToVisit, Due
  <2>10. /\ t.ms \in Nat /\ t.age \in Nat /\ t.credit \in Nat
         /\ timers[slot].countDown \in Nat
    BY <2>1, <2>4, Basics DEF Issue, SlotInfo
  <2>11. t.ms - timers[slot].countDown + Owed(slot) <= t.age + t.credit \/ t.ms <= t.age
    BY <2>6, <2>7 DEF Accounted
  <2> HIDE DEF slot, t
  <2> QED  BY <2>8, <2>9, <2>10, <2>11 DEF t
<1> QED  BY <1>1, Invariance, PTL DEF Spec, EarlyByHeadStart

=============================================================================
