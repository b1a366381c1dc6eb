--------------------------- MODULE SessionsProofs ---------------------------
(***************************************************************************)
(* Proofs about Sessions for all remotes and bounds.                       *)
(*                                                                         *)
(* The three properties are not inductive.  That no session leaks needs an *)
(* entry to have a join call or a session, never both, and the messages of *)
(* the bus to be about numbers that are no longer, or not yet, in use.     *)
(* That the count of an entry is exact needs no object to be of an entry   *)
(* that is still to come; that the script is told once needs each status   *)
(* AUTHENTICATED to be paid for by an authentication that succeeded.       *)
(***************************************************************************)
EXTENDS Sessions, SequenceTheorems, FiniteSetTheorems, TLAPS

Message ==
  [type : {"announce"}, peer : Peers, parses : BOOLEAN]
    \union [type : {"found"}, peer : Names]
    \union [type : {"reply"}, serial : Serials, id : Serials]
    \union [type : {"accept"}, peer : Peers, id : Serials]
    \union [type : {"lost"}, id : Serials]

Indices == 1..Len(inbox)
Is(i, type) == inbox[i].type = type

\* The numbers by which an entry knows its join call and its session.
NumbersOf(p) == {sessions[p].replySerial, sessions[p].sessionId}

\* Numbers are given out one after the other, to join calls and to sessions.
NumbersGiven ==
  /\ DOMAIN calls \subseteq 1..serial /\ DOMAIN live \subseteq 1..serial
  /\ DOMAIN calls \intersect DOMAIN live = {}
  /\ \A p \in Listed : NumbersOf(p) \subseteq 0..serial /\ sessions[p].inbound <= serial

\* A reply is about a call that was answered, and a session lost is gone.  One that a
\* remote opens is not known yet, and came after those accepted before.
Settled(m) ==
  /\ m.type = "reply" =>
       /\ m.serial \in 1..serial /\ m.serial \notin DOMAIN calls
       /\ m.id = m.serial \/ (m.id = 0 /\ m.serial \notin DOMAIN live)
  /\ m.type = "lost" => m.id \in 1..serial /\ m.id \notin DOMAIN calls \union DOMAIN live
  /\ m.type = "accept" =>
       /\ m.id \in 1..serial /\ m.id \notin DOMAIN calls \union DOMAIN live
       /\ \A p \in Listed : m.id \notin NumbersOf(p) /\ sessions[p].inbound < m.id

\* Two messages that are on their way at a time, m before n or after it.
Distinct(m, n) ==
  m.type = "accept" =>
    /\ n.type = "reply" => n.serial # m.id
    /\ n.type = "lost" => n.id # m.id

InboxSettled ==
  /\ inbox \in Seq(Message)
  /\ \A i \in Indices : Settled(inbox[i])
  /\ \A i, j \in Indices : Distinct(inbox[i], inbox[j])
  /\ \A i, j \in Indices : i < j /\ Is(i, "accept") /\ Is(j, "accept")
       => inbox[i].id < inbox[j].id

\* The call that led to a session was answered; only sessions that both sides opened
\* leave an entry with a join call and a session.
EntriesSettled ==
  \A p \in Listed :
    /\ sessions[p].sessionId \notin DOMAIN calls
    /\ sessions[p].replySerial # 0 /\ sessions[p].sessionId # 0 => Flawed("crossed", p)

\* Objects are of an entry that there was.
ObjsKnown == \A o \in Objs :
  /\ objs[o].peer = None <=> objs[o].in = "free"
  /\ objs[o].peer \in Remotes => objs[o].gen <= gen[objs[o].peer]

\* An authenticated peer is still to be told of.
Owed(p) == IF auth[p] = "AUTHENTICATED" THEN 1 ELSE 0
CallsOwed == \A p \in Remotes : called[p] + Owed(p) <= granted[p]

\* The counter of an entry is 16 bits wide.
Small == MaxObjs + MaxSerial < Width

IInv ==
  /\ TypeOK /\ NumbersGiven /\ InboxSettled /\ EntriesSettled /\ SessionsTracked
  /\ ObjsKnown /\ (Small => RefCountExact) /\ CallsOwed
-----------------------------------------------------------------------------
(* Tables and messages                                                     *)

LEMMA PutDoes ==
  ASSUME NEW f, NEW k, NEW v
  PROVE  /\ DOMAIN Put(f, k, v) = DOMAIN f \union {k} /\ Put(f, k, v)[k] = v
         /\ \A x \in DOMAIN f \ {k} : Put(f, k, v)[x] = f[x]
  BY DEF Put

LEMMA DropDoes ==
  ASSUME NEW f, NEW S
  PROVE  /\ DOMAIN Drop(f, S) = DOMAIN f \ S
         /\ \A x \in DOMAIN f \ S : Drop(f, S)[x] = f[x]
  BY DEF Drop

\* Handling a message takes the first one.
LEMMA Taken ==
  ASSUME InboxSettled, NEW type, Handling(type)
  PROVE  /\ 1 \in Indices /\ Msg = inbox[1] /\ Is(1, type) /\ Msg.type = type
         /\ Msg \in Message /\ Settled(Msg)
         /\ inbox' \in Seq(Message) /\ Len(inbox') = Len(inbox) - 1 /\ Len(inbox) \in Nat
         /\ \A i \in 1..Len(inbox') : i + 1 \in Indices /\ inbox'[i] = inbox[i + 1]
<1>1. inbox \in Seq(Message) /\ inbox # <<>> /\ inbox' = Tail(inbox) /\ Msg = inbox[1]
      /\ Msg.type = type
  BY DEF InboxSettled, Handling, Msg
<1>2. Len(inbox) \in Nat \ {0}
  BY <1>1, EmptySeq
<1>3. Len(inbox') = Len(inbox) - 1 /\ inbox' \in Seq(Message)
  BY <1>1, HeadTailProperties
<1>4. \A i \in 1..Len(inbox') : inbox'[i] = inbox[i + 1]
  BY <1>1, HeadTailProperties
<1>5. 1 \in Indices /\ Msg \in Message
  BY <1>1, <1>2, ElementOfSeq DEF Indices
<1>6. Settled(Msg)
  BY <1>1, <1>5 DEF InboxSettled
<1> QED  BY <1>1, <1>2, <1>3, <1>4, <1>5, <1>6 DEF Indices, Is

\* Sending one puts it behind the others.
LEMMA Sent ==
  ASSUME InboxSettled, NEW m \in Message, Send(m)
  PROVE  /\ inbox' \in Seq(Message) /\ Len(inbox') = Len(inbox) + 1
         /\ Len(inbox') <= MaxInbox /\ Len(inbox) \in Nat
         /\ inbox'[Len(inbox')] = m /\ \A i \in Indices : inbox'[i] = inbox[i]
<1>1. inbox \in Seq(Message) /\ Len(inbox) \in Nat /\ inbox' = Append(inbox, m)
      /\ Len(inbox) < MaxInbox /\ MaxInbox \in Nat
  BY SessionsAssumption DEF InboxSettled, Send
<1> QED  BY <1>1, AppendProperties DEF Indices

\* What a message of each kind carries.
LEMMA Carries ==
  ASSUME NEW m \in Message
  PROVE  /\ m.type = "announce" => m.peer \in Peers /\ m.parses \in BOOLEAN
         /\ m.type = "found" => m.peer \in Names
         /\ m.type = "reply" => m.serial \in Serials /\ m.id \in Serials
         /\ m.type = "accept" => m.peer \in Peers /\ m.id \in Serials
         /\ m.type = "lost" => m.id \in Serials
  BY DEF Message

-----------------------------------------------------------------------------
(* The table of sessions                                                   *)

\* At most the entry of p changes.
Only(p) ==
  /\ Listed' \ {p} = Listed \ {p} /\ \A q \in Listed \ {p} : sessions'[q] = sessions[q]

LEMMA WidthIs == Width \in Nat \ {0} /\ 0 \in UInt16 /\ \A n \in Int : n % Width \in UInt16
<1>1. Width \in Nat \ {0}
  BY DEF Width
<1> QED  BY <1>1 DEF UInt16

LEMMA EntryKnown ==
  ASSUME TypeOK, NumbersGiven, NEW p \in Remotes
  PROVE  /\ Entry(p) \in SessionInfo /\ Entry(p).inbound <= serial
         /\ Entry(p).replySerial \in 0..serial /\ Entry(p).sessionId \in 0..serial
         /\ serial \in Nat /\ serial \in Serials /\ GenOf(p) \in Nat /\ gen[p] <= GenOf(p)
<1>1. serial \in Nat /\ serial \in Serials /\ 0 \in Serials /\ gen[p] \in Nat
  BY SessionsAssumption DEF TypeOK, Serials
<1>2. CASE p \in Listed
  BY <1>1, <1>2 DEF TypeOK, NumbersGiven, NumbersOf, Entry, GenOf
<1>3. CASE p \notin Listed
  <2>1. NewEntry \in SessionInfo /\ NewEntry.inbound = 0 /\ NewEntry.replySerial = 0
        /\ NewEntry.sessionId = 0
    BY <1>1, WidthIs DEF NewEntry, SessionInfo
  <2>2. Entry(p) = NewEntry /\ GenOf(p) = gen[p] + 1
    BY <1>3 DEF Entry, GenOf
  <2> QED  BY <1>1, <2>1, <2>2
<1> QED  BY <1>2, <1>3

LEMMA CountedDoes ==
  ASSUME NEW e \in SessionInfo, NEW n \in Nat
  PROVE  /\ Counted(e, n) \in SessionInfo /\ Counted(e, n).refCount = (e.refCount + n) % Width
         /\ Counted(e, n).replySerial = e.replySerial /\ Counted(e, n).sessionId = e.sessionId
         /\ Counted(e, n).inbound = e.inbound
<1>1. e.refCount \in UInt16
  BY DEF SessionInfo
<1>2. (e.refCount + n) % Width \in UInt16
  <2>1. e.refCount + n \in Int
    BY <1>1 DEF UInt16
  <2> QED  BY <2>1, WidthIs
<1>3. ASSUME NEW c \in UInt16
      PROVE  LET f == [e EXCEPT !.refCount = c] IN
             /\ f \in SessionInfo /\ f.refCount = c /\ f.replySerial = e.replySerial
             /\ f.sessionId = e.sessionId /\ f.inbound = e.inbound
  BY DEF SessionInfo
<1> QED  BY <1>2, <1>3 DEF Counted

\* Putting an entry for p, or deleting it, changes no other.
LEMMA OnlyPut ==
  ASSUME NEW p, NEW e, sessions' = Put(sessions, p, e)
  PROVE  Only(p) /\ Listed' = Listed \union {p} /\ sessions'[p] = e
<1>1. /\ DOMAIN sessions' = DOMAIN sessions \union {p} /\ sessions'[p] = e
      /\ \A x \in DOMAIN sessions \ {p} : sessions'[x] = sessions[x]
  BY DEF Put
<1> QED  BY <1>1 DEF Only, Listed

LEMMA OnlyDrop ==
  ASSUME NEW p, sessions' = Drop(sessions, {p})
  PROVE  Only(p) /\ Listed' = Listed \ {p}
  BY DropDoes DEF Only, Listed

\* The join call is for p, with a new number.
LEMMA JoinDoes ==
  ASSUME TypeOK, NEW p \in Remotes, NEW e \in SessionInfo, JoinSession(p, e)
  PROVE  /\ Only(p) /\ Listed' = Listed \union {p} /\ sessions'[p] \in SessionInfo
         /\ sessions'[p].refCount = e.refCount /\ sessions'[p].sessionId = e.sessionId
         /\ sessions'[p].inbound = e.inbound /\ sessions'[p].replySerial = serial'
         /\ serial' = serial + 1 /\ serial' \in Serials /\ serial \in Nat
         /\ DOMAIN calls' = DOMAIN calls \union {serial'} /\ calls'[serial'] = p
         /\ \A n \in DOMAIN calls \ {serial'} : calls'[n] = calls[n]
<1>1. serial' = serial + 1 /\ serial' \in Serials /\ serial \in Nat
  BY SessionsAssumption DEF JoinSession, TypeOK, Serials
<1>2. sessions' = Put(sessions, p, [e EXCEPT !.replySerial = serial'])
      /\ calls' = Put(calls, serial', p)
  BY DEF JoinSession
<1>3. ASSUME NEW n \in Serials
      PROVE  LET f == [e EXCEPT !.replySerial = n] IN
             /\ f \in SessionInfo /\ f.refCount = e.refCount /\ f.replySerial = n
             /\ f.sessionId = e.sessionId /\ f.inbound = e.inbound
  BY DEF SessionInfo
<1>4. /\ Only(p) /\ Listed' = Listed \union {p}
      /\ sessions'[p] = [e EXCEPT !.replySerial = serial']
  BY <1>2, OnlyPut
<1>5. /\ DOMAIN calls' = DOMAIN calls \union {serial'} /\ calls'[serial'] = p
      /\ \A n \in DOMAIN calls \ {serial'} : calls'[n] = calls[n]
  BY <1>2 DEF Put
<1> QED  BY <1>1, <1>3, <1>4, <1>5

-----------------------------------------------------------------------------
(* The service objects                                                     *)

\* What an object is, of what entry.
Alike(x, y) == x.peer = y.peer /\ x.gen = y.gen /\ (x.in = "free" <=> y.in = "free")

\* n objects of p are new, or none is and some of p are gone.
Made(p, n) ==
  \A o \in Objs :
    IF o \in Fresh(n) THEN objs'[o].peer = p /\ objs'[o].gen = GenOf(p) /\ objs'[o].in # "free"
                      ELSE Alike(objs'[o], objs[o])

Spared(p) ==
  \A o \in Objs : Alike(objs'[o], objs[o]) \/ (objs[o].peer = p /\ objs'[o] = Free)

LEMMA FreeIsObject == Free \in Object /\ Free.peer = None /\ Free.in = "free" /\ Free.gen = 0
  BY DEF Free, Object

LEMMA CreatedDoes ==
  ASSUME TypeOK, NumbersGiven, NEW p \in Remotes, NEW n, NEW in \in {"anno", "script"}
  PROVE  /\ Created(p, n, in) \in [Objs -> Object]
         /\ \A o \in Objs :
              IF o \in Fresh(n) THEN /\ Created(p, n, in)[o].peer = p /\ in # "free"
                                     /\ Created(p, n, in)[o].gen = GenOf(p)
                                     /\ Created(p, n, in)[o].in = in
                                ELSE Created(p, n, in)[o] = objs[o]
<1>1. [peer |-> p, gen |-> GenOf(p), in |-> in] \in Object
  BY EntryKnown DEF Object
<1>2. objs \in [Objs -> Object]
  BY DEF TypeOK
<1> QED  BY <1>1, <1>2 DEF Created

\* Objects that are handed over change hands and nothing else.
LEMMA HandedOver ==
  ASSUME TypeOK, NEW p \in Remotes, NEW os \in [Objs -> Object], AnnouncementCallbacks(p, os)
  PROVE  /\ objs' \in [Objs -> Object] /\ \A o \in Objs : Alike(objs'[o], os[o])
         /\ auth' \in [Remotes -> AuthStatus]
         /\ \A q \in Remotes : auth'[q] \in {auth[q], "NO_AUTH"}
<1>1. ASSUME NEW o \in Objs
      PROVE  objs'[o] \in Object /\ Alike(objs'[o], os[o])
  <2>1. objs'[o] = os[o]
        \/ (os[o].in = "anno" /\ objs'[o] = [os[o] EXCEPT !.in = "script"])
    BY DEF AnnouncementCallbacks
  <2>2. os[o] \in Object
    OBVIOUS
  <2> QED  BY <2>1, <2>2 DEF Object, Alike
<1>2. objs' \in [Objs -> Object]
  BY <1>1 DEF AnnouncementCallbacks
<1>3. auth' \in [Remotes -> AuthStatus] /\ \A q \in Remotes : auth'[q] \in {auth[q], "NO_AUTH"}
  BY DEF AnnouncementCallbacks, TypeOK, AuthStatus
<1> QED  BY <1>1, <1>2, <1>3

LEMMA WithoutAnnoDoes ==
  ASSUME TypeOK, NEW p
  PROVE  /\ WithoutAnno(p) \in [Objs -> Object]
         /\ \A o \in Objs : \/ WithoutAnno(p)[o] = objs[o]
                            \/ objs[o].peer = p /\ WithoutAnno(p)[o] = Free
  BY FreeIsObject DEF TypeOK, WithoutAnno

\* No object but n unused ones.
LEMMA NoneFresh == Fresh(0) = {}
<1>1. IsFiniteSet(Objs)
  BY FS_Interval, SessionsAssumption DEF Objs
<1>2. \A S \in SUBSET Objs : Cardinality(S) \in Nat
  BY <1>1, FS_Subset, FS_CardinalityType
<1>3. \A o \in Unused : Cardinality({x \in Unused : x < o}) \in Nat
  BY <1>2 DEF Unused
<1> QED  BY <1>3 DEF Fresh

LEMMA MadeNone ==
  ASSUME NEW p, UNCHANGED objs \/ \A o \in Objs : Alike(objs'[o], objs[o])
  PROVE  Made(p, 0)
  BY NoneFresh DEF Made, Alike

-----------------------------------------------------------------------------
(* What the handlers do to an entry                                        *)

\* The entry of p, which may be new, counts n objects more; a join call is sent or not.
Grown(p, n) ==
  /\ Only(p) /\ Listed' = Listed \union {p} /\ sessions'[p] \in SessionInfo
  /\ sessions'[p].refCount = (Entry(p).refCount + n) % Width
  /\ sessions'[p].sessionId = Entry(p).sessionId /\ sessions'[p].inbound = Entry(p).inbound

Joined(p) ==
  /\ Entry(p).sessionId = 0 /\ Entry(p).replySerial = 0 /\ sessions'[p].replySerial = serial'
  /\ serial' = serial + 1 /\ serial' \in Serials /\ serial \in Nat
  /\ DOMAIN calls' = DOMAIN calls \union {serial'} /\ calls'[serial'] = p
  /\ \A x \in DOMAIN calls \ {serial'} : calls'[x] = calls[x]

Unjoined(p) ==
  sessions'[p].replySerial = Entry(p).replySerial /\ serial' = serial /\ calls' = calls

Renewed(p) == gen' = [gen EXCEPT ![p] = GenOf(p)]

Grow(p, n) ==
  /\ Grown(p, n) /\ (Joined(p) \/ Unjoined(p))
  /\ CanCreate(n) /\ Made(p, n) /\ objs' \in [Objs -> Object] /\ Renewed(p)

\* An entry is deleted.
Gone(p) ==
  Only(p) /\ Listed' = Listed \ {p} /\ Spared(p) /\ objs' \in [Objs -> Object]

\* No more is owed to the script.
Lowered == auth' \in [Remotes -> AuthStatus] /\ \A q \in Remotes : auth'[q] \in {auth[q], "NO_AUTH"}

LEMMA NotLowered == ASSUME TypeOK, UNCHANGED auth PROVE Lowered
  BY DEF TypeOK, Lowered

LEMMA GrownIfPut ==
  ASSUME TypeOK, NumbersGiven, NEW p \in Remotes, NEW n \in Nat,
         NoJoin(Put(sessions, p, Counted(Entry(p), n)))
  PROVE  Grown(p, n) /\ Unjoined(p)
<1>1. sessions' = Put(sessions, p, Counted(Entry(p), n)) /\ serial' = serial /\ calls' = calls
  BY DEF NoJoin
<1>2. Entry(p) \in SessionInfo
  BY EntryKnown
<1> QED  BY <1>1, <1>2, CountedDoes, OnlyPut DEF Grown, Unjoined

LEMMA GrownIfJoined ==
  ASSUME TypeOK, NumbersGiven, NEW p \in Remotes, NEW n \in Nat,
         Entry(p).sessionId = 0, Entry(p).replySerial = 0, JoinSession(p, Counted(Entry(p), n))
  PROVE  Grown(p, n) /\ Joined(p)
<1> DEFINE e == Counted(Entry(p), n)
<1>1. Entry(p) \in SessionInfo
  BY EntryKnown
<1>2. /\ e \in SessionInfo /\ e.refCount = (Entry(p).refCount + n) % Width
      /\ e.sessionId = Entry(p).sessionId /\ e.inbound = Entry(p).inbound
  BY <1>1, CountedDoes
<1>3. JoinSession(p, e)
  OBVIOUS
<1> HIDE DEF e
<1> QED  BY <1>2, <1>3, JoinDoes DEF Grown, Joined

LEMMA AnnouncementDoes ==
  ASSUME TypeOK, NumbersGiven, InboxSettled, AboutAnnouncement
  PROVE  (\E p \in Peers, n \in 0..1 : Grow(p, n)) /\ Lowered
<1> DEFINE p == Msg.peer
<1>1. p \in Peers /\ p \in Remotes
  BY Taken, Carries DEF AboutAnnouncement, Remotes
<1>2. PICK n \in 0..1 :
        LET e == Counted(Entry(p), n)
            os == Created(p, n, "anno")
        IN
        /\ CanCreate(n) /\ Renewed(p)
        /\ \/ AnnouncementCallbacks(p, os) /\ NoJoin(Put(sessions, p, e))
           \/ /\ MustJoin(e) /\ (JoinSession(p, e) \/ NoJoin(Put(sessions, p, e)))
              /\ objs' = os /\ UNCHANGED auth
           \/ NoJoin(Put(sessions, p, e)) /\ objs' = os /\ UNCHANGED auth
  BY DEF AboutAnnouncement, Renewed
<1> DEFINE e == Counted(Entry(p), n)
           os == Created(p, n, "anno")
<1>3. Entry(p) \in SessionInfo /\ n \in Nat
  BY <1>1, EntryKnown
<1>4. e.sessionId = Entry(p).sessionId /\ e.replySerial = Entry(p).replySerial
  BY <1>3, CountedDoes
<1>5. Grown(p, n) /\ (Joined(p) \/ Unjoined(p))
  <2>1. CASE NoJoin(Put(sessions, p, e))
    BY <1>1, <1>3, <2>1, GrownIfPut
  <2>2. CASE MustJoin(e) /\ JoinSession(p, e)
    BY <1>1, <1>3, <1>4, <2>2, GrownIfJoined DEF MustJoin
  <2> QED  BY <1>2, <2>1, <2>2
<1>6. os \in [Objs -> Object]
      /\ \A o \in Objs : IF o \in Fresh(n)
                         THEN os[o].peer = p /\ os[o].gen = GenOf(p) /\ os[o].in # "free"
                         ELSE os[o] = objs[o]
  BY <1>1, CreatedDoes
<1>7. /\ objs' \in [Objs -> Object] /\ \A o \in Objs : Alike(objs'[o], os[o])
      /\ Lowered
  <2>1. CASE AnnouncementCallbacks(p, os)
    <3> HIDE DEF os
    <3> QED  BY <1>1, <1>6, <2>1, HandedOver DEF Lowered
  <2>2. CASE objs' = os /\ UNCHANGED auth
    <3> HIDE DEF os
    <3> QED  BY <1>6, <2>2, NotLowered DEF Alike
  <2> QED  BY <1>2, <2>1, <2>2
<1>8. Made(p, n)
  <2> HIDE DEF os
  <2> QED  BY <1>6, <1>7 DEF Made, Alike
<1> QED  BY <1>1, <1>2, <1>5, <1>7, <1>8 DEF Grow

LEMMA FoundDoes ==
  ASSUME TypeOK, NumbersGiven, InboxSettled, FoundAdvertisedName
  PROVE  \/ UNCHANGED <<entries, objs, serial, calls, flaws>>
         \/ (\E p \in Names : Grow(p, 1)) /\ UNCHANGED flaws
         \/ \E q : Gone(q) /\ Flaw("dropped", {q} \intersect Listed)
                   /\ UNCHANGED <<gen, serial, calls>>
<1> DEFINE p == Msg.peer
           q == PrefixOf[p]
<1>1. p \in Names /\ p \in Remotes
  BY Taken, Carries DEF FoundAdvertisedName, Remotes
<1>2. CASE /\ p \notin Listed /\ CanCreate(1)
           /\ JoinSession(p, Counted(NewEntry, 1))
           /\ objs' = Created(p, 1, "anno") /\ gen' = [gen EXCEPT ![p] = GenOf(p)]
           /\ UNCHANGED flaws
  <2>1. Entry(p) = NewEntry /\ Entry(p).sessionId = 0 /\ Entry(p).replySerial = 0
    BY <1>2 DEF Entry, NewEntry
  <2>2. JoinSession(p, Counted(Entry(p), 1))
    BY <1>2, <2>1
  <2>3. Grown(p, 1) /\ Joined(p)
    BY <1>1, <2>1, <2>2, GrownIfJoined
  <2>4. objs' \in [Objs -> Object] /\ Made(p, 1)
    BY <1>1, <1>2, CreatedDoes DEF Made, Alike
  <2> QED  BY <1>1, <1>2, <2>3, <2>4 DEF Grow, Renewed
<1>3. CASE /\ NoJoin(Drop(sessions, {q}))
           /\ objs' = WithoutAnno(q) /\ Flaw("dropped", {q} \intersect Listed)
           /\ UNCHANGED gen
  <2>1. Only(q) /\ Listed' = Listed \ {q} /\ UNCHANGED <<serial, calls>>
    BY <1>3, OnlyDrop DEF NoJoin
  <2>2. objs' \in [Objs -> Object] /\ Spared(q)
    BY <1>3, WithoutAnnoDoes DEF Spared, Alike
  <2> QED  BY <1>3, <2>1, <2>2 DEF Gone
<1> QED  BY <1>2, <1>3 DEF FoundAdvertisedName

\* The entry that waits for the call takes the session, if there is one.
Answers(p) ==
  /\ p \in Listed /\ Listed' = Listed /\ Only(p) /\ sessions'[p] \in SessionInfo
  /\ sessions[p].replySerial = Msg.serial /\ sessions'[p].replySerial = 0
  /\ sessions'[p].sessionId = IF Msg.id = 0 THEN sessions[p].sessionId ELSE Msg.id
  /\ sessions'[p].refCount = sessions[p].refCount
  /\ sessions'[p].inbound = sessions[p].inbound
  /\ Made(p, 0) /\ objs' \in [Objs -> Object]

LEMMA ReplyDoes ==
  ASSUME TypeOK, NumbersGiven, InboxSettled, HandleJoinSessionReply
  PROVE  (UNCHANGED <<sessions, objs>> \/ \E p \in Remotes : Answers(p)) /\ Lowered
<1>1. Msg.serial \in Serials /\ Msg.id \in Serials
  BY Taken, Carries DEF HandleJoinSessionReply
<1>2. CASE UNCHANGED <<sessions, objs, auth>>
  BY <1>2, NotLowered
<1>3. ASSUME NEW p \in Listed, sessions[p].replySerial = Msg.serial,
             sessions' = [sessions EXCEPT ![p] = Answered(@, Msg.id)],
             IF Msg.id = 0 THEN UNCHANGED <<objs, auth>> ELSE AnnouncementCallbacks(p, objs)
      PROVE  p \in Remotes /\ Answers(p) /\ Lowered
  <2>1. p \in Remotes /\ sessions[p] \in SessionInfo /\ objs \in [Objs -> Object]
    BY DEF TypeOK
  <2>2. Listed' = Listed /\ Only(p) /\ sessions'[p] = Answered(sessions[p], Msg.id)
    BY <1>3 DEF Only, Listed
  <2>3. ASSUME NEW e \in SessionInfo, NEW id \in Serials
        PROVE  /\ Answered(e, id) \in SessionInfo /\ Answered(e, id).replySerial = 0
               /\ Answered(e, id).sessionId = IF id = 0 THEN e.sessionId ELSE id
               /\ Answered(e, id).refCount = e.refCount /\ Answered(e, id).inbound = e.inbound
    <3>1. 0 \in Serials /\ e.sessionId \in Serials
      BY SessionsAssumption DEF Serials, SessionInfo
    <3> QED  BY <3>1 DEF Answered, SessionInfo
  <2>4. /\ objs' \in [Objs -> Object] /\ \A o \in Objs : Alike(objs'[o], objs[o])
        /\ Lowered
    <3>1. CASE AnnouncementCallbacks(p, objs)
      BY <2>1, <3>1, HandedOver DEF Lowered
    <3>2. CASE UNCHANGED <<objs, auth>>
      BY <2>1, <3>2, NotLowered DEF Alike
    <3> QED  BY <1>3, <3>1, <3>2
  <2>5. Made(p, 0)
    BY <2>4, MadeNone
  <2> QED  BY <1>1, <1>3, <2>1, <2>2, <2>3, <2>4, <2>5 DEF Answers
<1> QED  BY <1>2, <1>3 DEF HandleJoinSessionReply

\* A session that a remote opened is the one of its entry, which counts it.
Accepts(p, n) ==
  /\ Only(p) /\ Listed' = Listed \union {p} /\ sessions'[p] \in SessionInfo
  /\ sessions'[p].refCount = (((Entry(p).refCount + n) % Width) + 1) % Width
  /\ sessions'[p].inbound = Entry(p).inbound + 1 /\ sessions'[p].sessionId = Msg.id
  /\ sessions'[p].replySerial = Entry(p).replySerial
  /\ live' = Put(live, Msg.id, p)

LEMMA AcceptDoes ==
  ASSUME TypeOK, NumbersGiven, InboxSettled, HandleAcceptSession
  PROVE  \E p \in Peers, n \in 0..1 :
           /\ p = Msg.peer /\ CanCreate(n) /\ Made(p, n) /\ objs' \in [Objs -> Object]
           /\ Renewed(p) /\ Flaw("crossed", {p} \intersect Listed)
           /\ \/ Accepts(p, n)
              \/ Grown(p, n) /\ Unjoined(p) /\ UNCHANGED live
              \/ Only(p) /\ Listed' = Listed \ {p} /\ UNCHANGED live
<1> DEFINE p == Msg.peer
<1>1. p \in Peers /\ p \in Remotes /\ Msg.id \in Serials
  BY Taken, Carries DEF HandleAcceptSession, Remotes
<1>2. PICK n \in 0..1 :
        LET e == Counted(Entry(p), n) IN
        /\ CanCreate(n) /\ Renewed(p) /\ objs' = Created(p, n, "script")
        /\ Flaw("crossed", {p} \intersect Listed)
        /\ \/ /\ sessions' = Put(sessions, p, [Counted(e, 1) EXCEPT !.inbound = @ + 1,
                                                                    !.sessionId = Msg.id])
              /\ live' = Put(live, Msg.id, p)
           \/ /\ sessions' = Drop(sessions, {p}) \/ sessions' = Put(sessions, p, e)
              /\ UNCHANGED live
  BY DEF HandleAcceptSession, Renewed
<1> DEFINE e == Counted(Entry(p), n)
<1>3. Entry(p) \in SessionInfo /\ n \in Nat /\ UNCHANGED <<calls, serial>>
  BY <1>1, EntryKnown DEF HandleAcceptSession
<1>4. Made(p, n) /\ objs' \in [Objs -> Object]
  BY <1>1, <1>2, CreatedDoes DEF Made, Alike
<1>5. CASE /\ sessions' = Put(sessions, p, [Counted(e, 1) EXCEPT !.inbound = @ + 1,
                                                                 !.sessionId = Msg.id])
           /\ live' = Put(live, Msg.id, p)
  <2>1. /\ e \in SessionInfo /\ e.refCount = (Entry(p).refCount + n) % Width
        /\ e.inbound = Entry(p).inbound /\ e.replySerial = Entry(p).replySerial
    BY <1>3, CountedDoes
  <2> DEFINE f == Counted(e, 1)
  <2>2. /\ f \in SessionInfo /\ f.refCount = (e.refCount + 1) % Width
        /\ f.inbound = e.inbound /\ f.replySerial = e.replySerial
    <3> HIDE DEF e
    <3> QED  BY <2>1, CountedDoes
  <2> DEFINE g == [f EXCEPT !.inbound = @ + 1, !.sessionId = Msg.id]
  <2>3. sessions' = Put(sessions, p, g)
    BY <1>5
  <2> HIDE DEF e, f
  <2>3a. f.inbound \in Nat
    BY <2>2 DEF SessionInfo
  <2>3b. ASSUME NEW i \in Nat, NEW id \in Serials
         PROVE  LET h == [f EXCEPT !.inbound = i, !.sessionId = id] IN
                /\ h \in SessionInfo /\ h.refCount = f.refCount /\ h.inbound = i
                /\ h.replySerial = f.replySerial /\ h.sessionId = id
    BY <2>2 DEF SessionInfo
  <2>4. g \in SessionInfo /\ g.refCount = f.refCount /\ g.inbound = f.inbound + 1
        /\ g.replySerial = f.replySerial /\ g.sessionId = Msg.id
    <3>1. PICK i \in Nat : i = f.inbound + 1
      BY <2>3a
    <3>2. g = [f EXCEPT !.inbound = i, !.sessionId = Msg.id]
      BY <3>1
    <3>3. LET h == [f EXCEPT !.inbound = i, !.sessionId = Msg.id] IN
          /\ h \in SessionInfo /\ h.refCount = f.refCount /\ h.inbound = i
          /\ h.replySerial = f.replySerial /\ h.sessionId = Msg.id
      BY <1>1, <2>3b
    <3> HIDE DEF f
    <3> QED  BY <3>1, <3>2, <3>3
  <2> HIDE DEF g
  <2>5. Only(p) /\ Listed' = Listed \union {p} /\ sessions'[p] = g
    BY <2>3, OnlyPut
  <2>6. Accepts(p, n)
    BY <1>5, <2>1, <2>2, <2>4, <2>5 DEF Accepts
  <2> QED  BY <1>1, <1>2, <1>4, <2>6
<1>6. CASE sessions' = Put(sessions, p, e) /\ UNCHANGED live
  <2>1. NoJoin(Put(sessions, p, Counted(Entry(p), n)))
    BY <1>3, <1>6 DEF NoJoin
  <2>2. Grown(p, n) /\ Unjoined(p)
    BY <1>1, <1>3, <2>1, GrownIfPut
  <2> QED  BY <1>1, <1>2, <1>4, <1>6, <2>2
<1>7. CASE sessions' = Drop(sessions, {p}) /\ UNCHANGED live
  <2>1. Only(p) /\ Listed' = Listed \ {p}
    BY <1>7, OnlyDrop
  <2> QED  BY <1>1, <1>2, <1>4, <1>7, <2>1
<1> QED  BY <1>2, <1>5, <1>6, <1>7

LEMMA LostDoes ==
  ASSUME TypeOK, NumbersGiven, InboxSettled, SessionLost
  PROVE  \/ UNCHANGED <<sessions, objs>>
         \/ \E p \in Listed : sessions[p].sessionId = Msg.id /\ Gone(p)
<1>1. ASSUME NEW p \in Listed, sessions' = Drop(sessions, {p}), objs' = WithoutAnno(p)
      PROVE  Gone(p)
  <2>1. Only(p) /\ Listed' = Listed \ {p}
    BY <1>1, OnlyDrop
  <2>2. objs' \in [Objs -> Object] /\ Spared(p)
    BY <1>1, WithoutAnnoDoes DEF Spared, Alike
  <2> QED  BY <2>1, <2>2 DEF Gone
<1> QED  BY <1>1 DEF SessionLost

LEMMA EndDoes ==
  ASSUME TypeOK, EndSessions
  PROVE  /\ Listed' = {} /\ objs' \in [Objs -> Object]
         /\ \A o \in Objs : Alike(objs'[o], objs[o]) \/ objs'[o] = Free
<1>1. Listed' = {}
  BY DEF EndSessions, NoMap, Listed
<1>2. objs \in [Objs -> Object]
      /\ objs' = [o \in Objs |-> IF objs[o].in = "anno" THEN Free ELSE objs[o]]
  BY DEF EndSessions, TypeOK
<1> QED  BY <1>1, <1>2, FreeIsObject DEF Alike

\* An object that is finalized is freed, and the entry of its peer counts it no more.
Uncounts(p) ==
  /\ p \in Listed /\ Listed' = Listed /\ Only(p) /\ sessions'[p] \in SessionInfo
  /\ sessions'[p].refCount = Decremented(sessions[p].refCount)
  /\ sessions'[p].sessionId = sessions[p].sessionId
  /\ sessions'[p].replySerial = sessions[p].replySerial
  /\ sessions'[p].inbound = sessions[p].inbound

Freed(o) ==
  /\ objs' \in [Objs -> Object] /\ objs'[o] = Free
  /\ \A x \in Objs \ {o} : objs'[x] = objs[x]

Stale(o, p) == Flaw("stale", {r \in {p} : objs[o].gen # gen[r]})

LEMMA FinalizeDoes ==
  ASSUME TypeOK, NumbersGiven, ObjsKnown, NEW o \in Objs, Finalize(o)
  PROVE  \E p \in Remotes :
           /\ p = objs[o].peer
           /\ \/ p \notin Listed /\ Freed(o) /\ UNCHANGED <<sessions, live, flaws>>
              \/ Uncounts(p) /\ Freed(o) /\ Stale(o, p) /\ UNCHANGED live
              \/ /\ p \in Listed /\ sessions[p].sessionId # 0 /\ Gone(p) /\ Stale(o, p)
                 /\ live' = Drop(live, {sessions[p].sessionId})
<1> DEFINE p == objs[o].peer
<1>1. objs \in [Objs -> Object] /\ objs[o] \in Object
  BY DEF TypeOK
<1>2. p \in Remotes
  BY <1>1 DEF Finalize, ObjsKnown, Object
<1>3. [objs EXCEPT ![o] = Free] \in [Objs -> Object]
      /\ [objs EXCEPT ![o] = Free][o] = Free
      /\ \A x \in Objs \ {o} : [objs EXCEPT ![o] = Free][x] = objs[x]
  BY <1>1, FreeIsObject
<1>4. CASE p \notin Listed /\ objs' = [objs EXCEPT ![o] = Free]
           /\ UNCHANGED <<sessions, live, flaws>>
  BY <1>2, <1>3, <1>4 DEF Freed
<1> DEFINE n == Decremented(sessions[p].refCount)
<1>5. CASE /\ p \in Listed /\ sessions' = [sessions EXCEPT ![p].refCount = n]
           /\ objs' = [objs EXCEPT ![o] = Free] /\ Stale(o, p) /\ UNCHANGED live
  <2>1. sessions[p] \in SessionInfo /\ sessions[p].refCount \in UInt16
    BY <1>5 DEF TypeOK, SessionInfo
  <2>2. n \in UInt16
    <3>1. sessions[p].refCount - 1 \in Int
      BY <2>1, WidthIs DEF UInt16
    <3> QED  BY <3>1, WidthIs DEF Decremented
  <2>3. ASSUME NEW e \in SessionInfo, NEW c \in UInt16
        PROVE  LET f == [e EXCEPT !.refCount = c] IN
               /\ f \in SessionInfo /\ f.refCount = c /\ f.inbound = e.inbound
               /\ f.replySerial = e.replySerial /\ f.sessionId = e.sessionId
    BY DEF SessionInfo
  <2> HIDE DEF n
  <2>4. Listed' = Listed /\ Only(p) /\ sessions'[p] = [sessions[p] EXCEPT !.refCount = n]
    BY <1>5 DEF Only, Listed
  <2>5. Uncounts(p)
    <3>1. /\ sessions'[p] \in SessionInfo /\ sessions'[p].refCount = n
          /\ sessions'[p].inbound = sessions[p].inbound
          /\ sessions'[p].replySerial = sessions[p].replySerial
          /\ sessions'[p].sessionId = sessions[p].sessionId
      BY <2>1, <2>2, <2>3, <2>4
    <3> QED  BY <1>5, <2>4, <3>1 DEF Uncounts, n
  <2> QED  BY <1>2, <1>3, <1>5, <2>5 DEF Freed
<1>6. CASE /\ p \in Listed /\ sessions[p].sessionId # 0
           /\ sessions' = Drop(sessions, {p}) /\ live' = Drop(live, {sessions[p].sessionId})
           /\ objs' = [WithoutAnno(p) EXCEPT ![o] = Free] /\ Stale(o, p)
  <2>1. Only(p) /\ Listed' = Listed \ {p}
    BY <1>6, OnlyDrop
  <2>2. WithoutAnno(p) \in [Objs -> Object]
        /\ \A x \in Objs : \/ WithoutAnno(p)[x] = objs[x]
                           \/ objs[x].peer = p /\ WithoutAnno(p)[x] = Free
    BY WithoutAnnoDoes
  <2>3. objs' \in [Objs -> Object] /\ Spared(p)
    BY <1>6, <2>2, FreeIsObject DEF Spared, Alike
  <2> QED  BY <1>2, <1>6, <2>1, <2>3 DEF Gone
<1> QED  BY <1>4, <1>5, <1>6 DEF Finalize, Stale

-----------------------------------------------------------------------------
(* Types                                                                   *)

SessionsTyped == Listed \subseteq Remotes /\ \A p \in Listed : sessions[p] \in SessionInfo
ObjsTyped == objs \in [Objs -> Object]
HistoryTyped == gen \in [Remotes -> Nat] /\ flaws \subseteq Flaws
AuthTyped ==
  /\ auth \in [Remotes -> AuthStatus]
  /\ asked \in Seq(Remotes) /\ granted \in [Remotes -> Nat] /\ called \in [Remotes -> Nat]
BusTyped ==
  /\ DOMAIN calls \subseteq Serials /\ \A n \in DOMAIN calls : calls[n] \in Remotes
  /\ DOMAIN live \subseteq Serials /\ \A n \in DOMAIN live : live[n] \in Remotes
  /\ Len(inbox) <= MaxInbox /\ serial \in Serials /\ msgs \in 0..MaxMsgs

LEMMA TypesSplit ==
  TypeOK <=> SessionsTyped /\ ObjsTyped /\ HistoryTyped /\ AuthTyped /\ BusTyped
  BY DEF TypeOK, SessionsTyped, ObjsTyped, HistoryTyped, AuthTyped, BusTyped

\* The actions that are about the script and authentication, and those of the bus.
Securing ==
  \/ \E o \in Objs : EnableSecurity(o)
  \/ \E k \in DOMAIN asked : AuthCallback(k)
  \/ ServiceSessions
Sending == BusAnnounce \/ BusFound \/ BusReply \/ BusConnect \/ BusLose

LEMMA NextCases ==
  ASSUME [Next]_vars
  PROVE  \/ AboutAnnouncement \/ FoundAdvertisedName \/ HandleJoinSessionReply
         \/ HandleAcceptSession \/ SessionLost \/ EndSessions
         \/ \E o \in Objs : Finalize(o)
         \/ Securing \/ Sending \/ UNCHANGED vars
  BY DEF Next, Handle, Securing, Sending

LEMMA OutsideEntries ==
  ASSUME Securing \/ Sending \/ UNCHANGED vars
  PROVE  UNCHANGED <<sessions, gen, flaws>>
  BY DEF Securing, Sending, EnableSecurity, AuthCallback, ServiceSessions, BusAnnounce,
         BusFound, BusReply, BusConnect, BusLose, vars, entries

LEMMA OnlyTyped ==
  ASSUME SessionsTyped, NEW p, Only(p),
         p \in Listed' => p \in Remotes /\ sessions'[p] \in SessionInfo
  PROVE  SessionsTyped'
  BY DEF SessionsTyped, Only

LEMMA SessionsStayTyped ==
  ASSUME TypeOK, NumbersGiven, InboxSettled, ObjsKnown, [Next]_vars
  PROVE  SessionsTyped'
<1>0. SessionsTyped /\ Peers \subseteq Remotes /\ Names \subseteq Remotes
  BY TypesSplit DEF Remotes
<1>u. ASSUME UNCHANGED sessions PROVE SessionsTyped'
  BY <1>0, <1>u DEF SessionsTyped, Listed
<1>g. ASSUME NEW p \in Remotes, NEW n, Grow(p, n) PROVE SessionsTyped'
  <2>1. Only(p) /\ sessions'[p] \in SessionInfo
    BY <1>g DEF Grow, Grown
  <2> QED  BY <1>0, <2>1, OnlyTyped
<1>1. CASE AboutAnnouncement
  BY <1>0, <1>g, <1>1, AnnouncementDoes
<1>2. CASE FoundAdvertisedName
  <2>1. ASSUME NEW q, Gone(q) PROVE SessionsTyped'
    BY <1>0, <2>1, OnlyTyped DEF Gone
  <2> QED  BY <1>0, <1>g, <1>u, <1>2, <2>1, FoundDoes DEF entries
<1>3. CASE HandleJoinSessionReply
  BY <1>0, <1>u, <1>3, ReplyDoes, OnlyTyped DEF Answers
<1>4. CASE HandleAcceptSession
  BY <1>0, <1>4, AcceptDoes, OnlyTyped DEF Accepts, Grown
<1>5. CASE SessionLost
  BY <1>0, <1>u, <1>5, LostDoes, OnlyTyped DEF Gone
<1>6. CASE EndSessions
  BY <1>6, EndDoes DEF SessionsTyped
<1>7. CASE \E o \in Objs : Finalize(o)
  BY <1>0, <1>u, <1>7, FinalizeDoes, OnlyTyped DEF Uncounts, Gone
<1>8. CASE Securing \/ Sending \/ UNCHANGED vars
  BY <1>u, <1>8, OutsideEntries
<1> QED  BY <1>1, <1>2, <1>3, <1>4, <1>5, <1>6, <1>7, <1>8, NextCases

LEMMA ObjsStayTyped ==
  ASSUME TypeOK, NumbersGiven, InboxSettled, ObjsKnown, [Next]_vars
  PROVE  ObjsTyped'
<1>0. ObjsTyped
  BY TypesSplit
<1>u. ASSUME UNCHANGED objs PROVE ObjsTyped'
  BY <1>0, <1>u DEF ObjsTyped
<1>1. CASE AboutAnnouncement
  BY <1>1, AnnouncementDoes DEF Grow, ObjsTyped
<1>2. CASE FoundAdvertisedName
  BY <1>u, <1>2, FoundDoes DEF Grow, Gone, ObjsTyped
<1>3. CASE HandleJoinSessionReply
  BY <1>u, <1>3, ReplyDoes DEF Answers, ObjsTyped
<1>4. CASE HandleAcceptSession
  BY <1>4, AcceptDoes DEF ObjsTyped
<1>5. CASE SessionLost
  BY <1>u, <1>5, LostDoes DEF Gone, ObjsTyped
<1>6. CASE EndSessions
  BY <1>6, EndDoes DEF ObjsTyped
<1>7. CASE \E o \in Objs : Finalize(o)
  BY <1>7, FinalizeDoes DEF Gone, Freed, ObjsTyped
<1>8. CASE Securing
  <2>1. ASSUME NEW o \in Objs, EnableSecurity(o) PROVE ObjsTyped'
    <3>1. \A x \in Objs : [objs[x] EXCEPT !.in = "secured"] \in Object
                          /\ [objs[x] EXCEPT !.in = "script"] \in Object
      BY <1>0 DEF ObjsTyped, Object
    <3> QED  BY <1>0, <2>1, <3>1 DEF ObjsTyped, EnableSecurity
  <2> QED  BY <1>u, <1>8, <2>1 DEF Securing, AuthCallback, ServiceSessions
<1>9. CASE Sending \/ UNCHANGED vars
  BY <1>u, <1>9 DEF Sending, BusAnnounce, BusFound, BusReply, BusConnect, BusLose, vars
<1> QED  BY <1>1, <1>2, <1>3, <1>4, <1>5, <1>6, <1>7, <1>8, <1>9, NextCases

\* Entries renew the generation of one remote.
LEMMA RenewedTyped ==
  ASSUME TypeOK, NumbersGiven, NEW p \in Remotes, Renewed(p)
  PROVE  gen' \in [Remotes -> Nat] /\ \A q \in Remotes : gen[q] <= gen'[q]
<1>1. gen \in [Remotes -> Nat] /\ GenOf(p) \in Nat /\ gen[p] <= GenOf(p)
  BY EntryKnown DEF TypeOK
<1> QED  BY <1>1 DEF Renewed

LEMMA HistoryStaysTyped ==
  ASSUME TypeOK, NumbersGiven, InboxSettled, ObjsKnown, [Next]_vars
  PROVE  HistoryTyped' /\ \A q \in Remotes : gen[q] <= gen'[q]
<1>0. /\ HistoryTyped /\ Peers \subseteq Remotes /\ Names \subseteq Remotes
      /\ \A q \in Remotes : gen[q] \in Nat
  BY TypesSplit DEF Remotes, HistoryTyped
<1>1. ASSUME NEW kind \in {"crossed", "dropped", "stale"}, NEW S \in SUBSET Remotes, Flaw(kind, S)
      PROVE  flaws' \subseteq Flaws
  BY <1>0, <1>1 DEF Flaw, Flaws, HistoryTyped
<1>2. ASSUME UNCHANGED gen PROVE gen' \in [Remotes -> Nat] /\ \A q \in Remotes : gen[q] <= gen'[q]
  BY <1>0, <1>2 DEF HistoryTyped
<1>3. ASSUME UNCHANGED flaws PROVE flaws' \subseteq Flaws
  BY <1>0, <1>3 DEF HistoryTyped
<1>4. Listed \subseteq Remotes
  BY DEF TypeOK
<1>5. CASE AboutAnnouncement
  BY <1>0, <1>3, <1>5, AnnouncementDoes, RenewedTyped DEF Grow, HistoryTyped, AboutAnnouncement
<1>6. CASE FoundAdvertisedName
  <2>1. \A q : {q} \intersect Listed \in SUBSET Remotes
    BY <1>4
  <2> QED  BY <1>0, <1>1, <1>2, <1>3, <1>6, <2>1, FoundDoes, RenewedTyped DEF Grow, HistoryTyped,
         entries
<1>7. CASE HandleJoinSessionReply \/ SessionLost
  BY <1>2, <1>3, <1>7 DEF HandleJoinSessionReply, SessionLost, HistoryTyped
<1>8. CASE HandleAcceptSession
  <2>1. \A q : {q} \intersect Listed \in SUBSET Remotes
    BY <1>4
  <2> QED  BY <1>0, <1>1, <1>8, <2>1, AcceptDoes, RenewedTyped DEF HistoryTyped
<1>9. CASE EndSessions
  <2>1. {p \in Listed : sessions[p].replySerial # 0} \in SUBSET Remotes
    BY <1>4
  <2> QED  BY <1>1, <1>2, <1>9, <2>1 DEF EndSessions, HistoryTyped
<1>10. ASSUME NEW o \in Objs, Finalize(o) PROVE HistoryTyped' /\ UNCHANGED gen
  <2>1. \A p \in Remotes : {r \in {p} : objs[o].gen # gen[r]} \in SUBSET Remotes
    OBVIOUS
  <2>2. UNCHANGED gen
    BY <1>10 DEF Finalize
  <2> QED  BY <1>1, <1>2, <1>3, <1>10, <2>1, <2>2, FinalizeDoes DEF Stale, HistoryTyped
<1>11. CASE Securing \/ Sending \/ UNCHANGED vars
  BY <1>2, <1>3, <1>11, OutsideEntries DEF HistoryTyped
<1> QED  BY <1>2, <1>5, <1>6, <1>7, <1>8, <1>9, <1>10, <1>11, NextCases

-----------------------------------------------------------------------------
(* Authentication                                                          *)

LEMMA OwedIs == \A p : Owed(p) \in 0..1 /\ (Owed(p) = 1 <=> auth[p] = "AUTHENTICATED")
  BY DEF Owed

\* Every authentication that is to be told of succeeded.
LEMMA AuthStays ==
  ASSUME IInv, [Next]_vars
  PROVE  AuthTyped' /\ CallsOwed'
<1>0. /\ AuthTyped /\ CallsOwed /\ TypeOK /\ NumbersGiven /\ InboxSettled /\ ObjsKnown
      /\ \A p \in Remotes : granted[p] \in Nat /\ called[p] \in Nat
  BY TypesSplit DEF IInv, AuthTyped
<1>1. ASSUME Lowered, UNCHANGED <<asked, granted, called>>
      PROVE  AuthTyped' /\ CallsOwed'
  BY <1>0, <1>1, OwedIs DEF Lowered, AuthTyped, CallsOwed, Owed
<1>2. CASE AboutAnnouncement
  BY <1>0, <1>1, <1>2, AnnouncementDoes DEF AboutAnnouncement
<1>3. CASE HandleJoinSessionReply
  BY <1>0, <1>1, <1>3, ReplyDoes DEF HandleJoinSessionReply
<1>4. CASE \/ FoundAdvertisedName \/ HandleAcceptSession \/ SessionLost \/ EndSessions
           \/ (\E o \in Objs : Finalize(o)) \/ Sending \/ UNCHANGED vars
  <2>1. UNCHANGED <<auth, asked, granted, called>>
    BY <1>4 DEF FoundAdvertisedName, HandleAcceptSession, SessionLost, EndSessions, Finalize,
       Sending, BusAnnounce, BusFound, BusReply, BusConnect, BusLose, vars, authVars
  <2> QED  BY <1>0, <1>1, <2>1, NotLowered
<1>5. ASSUME NEW o \in Objs, EnableSecurity(o) PROVE AuthTyped' /\ CallsOwed'
  <2> DEFINE p == objs[o].peer
  <2>1. p \in Remotes
    BY <1>0, <1>5 DEF EnableSecurity, ObjsKnown, TypeOK, Object
  <2>2. /\ auth' = [auth EXCEPT ![p] = "AUTHENTICATING"] /\ UNCHANGED <<granted, called>>
        /\ asked' = Append(asked, p) \/ UNCHANGED asked
    BY <1>5 DEF EnableSecurity
  <2> HIDE DEF p
  <2>3. asked' \in Seq(Remotes)
    <3>1. asked \in Seq(Remotes)
      BY <1>0 DEF AuthTyped
    <3>2. Append(asked, p) \in Seq(Remotes)
      BY <2>1, <3>1, AppendProperties
    <3> QED  BY <2>2, <3>1, <3>2
  <2>4. AuthTyped'
    BY <1>0, <2>2, <2>3 DEF AuthTyped, AuthStatus
  <2>5. \A q \in Remotes : auth'[q] = auth[q] \/ auth'[q] = "AUTHENTICATING"
    BY <1>0, <2>2 DEF AuthTyped
  <2> QED  BY <1>0, <2>2, <2>4, <2>5, OwedIs DEF CallsOwed, Owed
<1>6. ASSUME NEW k \in DOMAIN asked, AuthCallback(k) PROVE AuthTyped' /\ CallsOwed'
  <2> DEFINE p == asked[k]
  <2>1. asked \in Seq(Remotes) /\ Len(asked) \in Nat /\ k \in 1..Len(asked) /\ p \in Remotes
    BY <1>0 DEF AuthTyped
  <2>2. asked' \in Seq(Remotes)
    <3>1. SubSeq(asked, 1, k - 1) \in Seq(Remotes)
          /\ SubSeq(asked, k + 1, Len(asked)) \in Seq(Remotes)
      BY <2>1, SubSeqProperties
    <3> QED  BY <1>6, <3>1, ConcatProperties DEF AuthCallback
  <2>3. /\ UNCHANGED called
        /\ \/ /\ auth' = [auth EXCEPT ![p] = "AUTHENTICATED"]
              /\ granted' = [granted EXCEPT ![p] = @ + 1]
           \/ auth' = [auth EXCEPT ![p] = "AUTHENTICATING"] /\ UNCHANGED granted
    BY <1>6 DEF AuthCallback
  <2> HIDE DEF p
  <2>4. AuthTyped'
    <3>1. auth \in [Remotes -> AuthStatus] /\ granted \in [Remotes -> Nat]
          /\ called \in [Remotes -> Nat] /\ granted[p] + 1 \in Nat
      BY <1>0, <2>1 DEF AuthTyped
    <3>2. auth' \in [Remotes -> AuthStatus]
      BY <2>1, <2>3, <3>1 DEF AuthStatus
    <3>3. granted' \in [Remotes -> Nat] /\ called' \in [Remotes -> Nat]
      BY <2>1, <2>3, <3>1
    <3> QED  BY <2>2, <3>2, <3>3 DEF AuthTyped
  <2>5. \A q \in Remotes : \/ auth'[q] = auth[q] /\ granted'[q] = granted[q]
                           \/ granted'[q] = granted[q] + 1
                           \/ auth'[q] = "AUTHENTICATING" /\ granted'[q] = granted[q]
    BY <1>0, <2>3 DEF AuthTyped
  <2> QED  BY <1>0, <2>3, <2>4, <2>5, OwedIs DEF CallsOwed, Owed
<1>7. CASE ServiceSessions
  <2>1. PICK p \in Remotes : /\ auth[p] = "AUTHENTICATED"
                             /\ auth' = [auth EXCEPT ![p] = "AUTH_DONE"]
                             /\ called' = [called EXCEPT ![p] = @ + 1]
                             /\ UNCHANGED <<asked, granted>>
    BY <1>0, <1>7 DEF ServiceSessions, Served, TypeOK
  <2>2. AuthTyped'
    BY <1>0, <2>1 DEF AuthTyped, AuthStatus
  <2>3. \A q \in Remotes : \/ auth'[q] = auth[q] /\ called'[q] = called[q]
                           \/ /\ auth[q] = "AUTHENTICATED" /\ auth'[q] = "AUTH_DONE"
                              /\ called'[q] = called[q] + 1
    BY <1>0, <2>1 DEF AuthTyped
  <2> QED  BY <1>0, <2>1, <2>2, <2>3, OwedIs DEF CallsOwed, Owed
<1> QED  BY <1>2, <1>3, <1>4, <1>5, <1>6, <1>7, NextCases DEF Securing

-----------------------------------------------------------------------------
(* Numbers                                                                 *)

\* The numbers that are given, by a step.
New == (serial + 1)..serial'

\* A step that accepts no session: calls and sessions of the bus are as before, or new,
\* or a call became a session; so are the numbers of the entries.
Quiet ==
  /\ serial' \in Serials /\ serial <= serial'
  /\ DOMAIN calls' \subseteq DOMAIN calls \union New
  /\ DOMAIN live' \subseteq DOMAIN live \union (DOMAIN calls \ DOMAIN calls')
  /\ \A p \in Listed' :
       /\ \A n \in {sessions'[p].replySerial, sessions'[p].sessionId} :
            n = 0 \/ n \in New \/ (p \in Listed /\ n \in NumbersOf(p))
       /\ \/ sessions'[p].inbound = 0
          \/ p \in Listed /\ sessions'[p].inbound = sessions[p].inbound

LEMMA SerialIs ==
  ASSUME TypeOK
  PROVE  /\ serial \in Nat /\ serial \in Serials /\ serial <= MaxSerial /\ MaxSerial \in Nat
         /\ 0 \in Serials /\ \A n : n \in Serials <=> n \in Nat /\ n <= MaxSerial
  BY SessionsAssumption DEF TypeOK, Serials

LEMMA QuietNumbers ==
  ASSUME TypeOK, NumbersGiven, Quiet
  PROVE  NumbersGiven'
<1>1. serial \in Nat /\ serial' \in Nat /\ serial <= serial' /\ New \subseteq 1..serial'
  BY SerialIs DEF Quiet, New
<1>2. DOMAIN calls' \subseteq 1..serial' /\ DOMAIN live' \subseteq 1..serial'
  <2>1. DOMAIN calls \subseteq 1..serial' /\ DOMAIN live \subseteq 1..serial'
    BY <1>1 DEF NumbersGiven
  <2> QED  BY <1>1, <2>1 DEF Quiet
<1>3. DOMAIN calls' \intersect DOMAIN live' = {}
  <2>1. New \intersect DOMAIN live = {}
    BY <1>1 DEF New, NumbersGiven
  <2> QED  BY <2>1 DEF Quiet, NumbersGiven
<1>4. ASSUME NEW p \in Listed'
      PROVE  NumbersOf(p)' \subseteq 0..serial' /\ sessions'[p].inbound <= serial'
  <2>1. p \in Listed => NumbersOf(p) \subseteq 0..serial' /\ sessions[p].inbound <= serial'
    <3>1. p \in Listed => NumbersOf(p) \subseteq 0..serial /\ sessions[p].inbound <= serial
                          /\ sessions[p].inbound \in Nat
      BY DEF NumbersGiven, TypeOK, SessionInfo
    <3> QED  BY <1>1, <3>1
  <2>2. sessions'[p].inbound <= serial'
    <3>1. sessions'[p].inbound = 0 \/ (p \in Listed /\ sessions'[p].inbound = sessions[p].inbound)
      BY <1>4 DEF Quiet
    <3> QED  BY <1>1, <2>1, <3>1
  <2>3. \A n \in {sessions'[p].replySerial, sessions'[p].sessionId} : n \in 0..serial'
    <3>1. \A n \in {sessions'[p].replySerial, sessions'[p].sessionId} :
            n = 0 \/ n \in New \/ (p \in Listed /\ n \in NumbersOf(p))
      BY <1>4 DEF Quiet
    <3>2. New \subseteq 0..serial' /\ 0 \in 0..serial'
      BY <1>1
    <3>3. p \in Listed => NumbersOf(p) \subseteq 0..serial'
      BY <2>1
    <3> QED  BY <3>1, <3>2, <3>3, Zenon
  <2> QED  BY <2>2, <2>3 DEF NumbersOf
<1> QED  BY <1>2, <1>3, <1>4 DEF NumbersGiven

LEMMA QuietSettled ==
  ASSUME TypeOK, NumbersGiven, Quiet, NEW m \in Message, Settled(m)
  PROVE  Settled(m)'
<1>1. serial \in Nat /\ serial' \in Nat /\ serial <= serial'
  BY SerialIs DEF Quiet
<1>2. ASSUME NEW n \in 1..serial, n \notin DOMAIN calls
      PROVE  n \in 1..serial' /\ n \notin DOMAIN calls'
             /\ (n \in DOMAIN live' => n \in DOMAIN live)
  BY <1>1, <1>2 DEF Quiet, New
<1>3. CASE m.type = "reply"
  BY <1>2, <1>3 DEF Settled
<1>4. CASE m.type = "lost"
  BY <1>2, <1>4 DEF Settled
<1>5. CASE m.type = "accept"
  <2>1. m.id \in 1..serial' /\ m.id \notin DOMAIN calls' \union DOMAIN live' /\ m.id \in 1..serial
    BY <1>2, <1>5 DEF Settled
  <2>2. ASSUME NEW p \in Listed'
        PROVE  m.id \notin NumbersOf(p)' /\ sessions'[p].inbound < m.id
    <3>1. p \in Listed => m.id \notin NumbersOf(p) /\ sessions[p].inbound < m.id
      BY <1>5 DEF Settled
    <3>2. m.id \notin NumbersOf(p)'
      BY <1>1, <2>1, <2>2, <3>1 DEF Quiet, New, NumbersOf
    <3>3. sessions'[p].inbound < m.id
      BY <2>1, <2>2, <3>1 DEF Quiet
    <3> QED  BY <3>2, <3>3
  <2> QED  BY <1>5, <2>1, <2>2 DEF Settled
<1>6. CASE m.type \notin {"reply", "lost", "accept"}
  BY <1>6 DEF Settled
<1> QED  BY <1>3, <1>4, <1>5, <1>6

\* The messages behind the one that is handled are settled and apart.
LEMMA InboxTaken ==
  ASSUME InboxSettled, NEW type, Handling(type),
         \A i \in Indices \ {1} : \A m \in Message : m = inbox[i] => Settled(m)'
  PROVE  InboxSettled'
<1>0. inbox \in Seq(Message) /\ \A i \in Indices : inbox[i] \in Message
  BY ElementOfSeq DEF InboxSettled, Indices
<1>1. /\ inbox' \in Seq(Message) /\ Len(inbox') = Len(inbox) - 1 /\ Len(inbox) \in Nat
      /\ \A i \in 1..Len(inbox') : i + 1 \in Indices /\ inbox'[i] = inbox[i + 1]
  BY Taken
<1>2. ASSUME NEW i \in 1..Len(inbox') PROVE Settled(inbox[i])'
  <2>1. PICK m \in Message : m = inbox[i + 1] /\ m = inbox'[i]
    BY <1>0, <1>1
  <2>2. i + 1 \in Indices \ {1}
    <3>1. i + 1 # 1
      OBVIOUS
    <3>2. i + 1 \in Indices
      BY <1>1
    <3> QED  BY <3>1, <3>2
  <2>3. Settled(m)'
    BY <2>1, <2>2
  <2> QED  BY <2>1, <2>3 DEF Settled
<1>3. \A i, j \in 1..Len(inbox') : Distinct(inbox[i + 1], inbox[j + 1])
  BY <1>1 DEF InboxSettled
<1>4. \A i, j \in 1..Len(inbox') :
        i < j /\ inbox[i + 1].type = "accept" /\ inbox[j + 1].type = "accept"
          => inbox[i + 1].id < inbox[j + 1].id
  <2>1. \A i, j \in 1..Len(inbox') : i < j => i + 1 < j + 1
    BY <1>1
  <2> QED  BY <1>1, <2>1 DEF InboxSettled, Is
<1>5. \A i \in Indices' : Settled(inbox[i])'
  BY <1>2 DEF Indices
<1>6. \A i, j \in Indices' : Distinct(inbox'[i], inbox'[j])
  <2>1. \A i \in 1..Len(inbox') : inbox'[i] = inbox[i + 1]
    BY <1>1
  <2> QED  BY <1>3, <2>1 DEF Indices
<1>7. \A i, j \in Indices' : i < j /\ Is(i, "accept")' /\ Is(j, "accept")'
        => inbox'[i].id < inbox'[j].id
  <2>1. \A i \in 1..Len(inbox') : inbox'[i] = inbox[i + 1]
    BY <1>1
  <2> QED  BY <1>4, <2>1 DEF Indices, Is
<1> QED  BY <1>1, <1>5, <1>6, <1>7 DEF InboxSettled, Distinct

\* What is on its way stays settled, if a message is handled or none.
LEMMA InboxStays ==
  ASSUME InboxSettled, \A m \in Message : Settled(m) => Settled(m)',
         UNCHANGED inbox \/ \E type : Handling(type)
  PROVE  InboxSettled'
<1>0. /\ inbox \in Seq(Message) /\ \A i \in Indices : inbox[i] \in Message
      /\ \A i \in Indices : Settled(inbox[i])
  BY ElementOfSeq DEF InboxSettled, Indices
<1>1. CASE UNCHANGED inbox
  <2>1. ASSUME NEW i \in Indices PROVE Settled(inbox[i])'
    <3>1. PICK m \in Message : m = inbox[i] /\ m = inbox'[i]
      BY <1>0, <1>1
    <3>2. Settled(m)'
      BY <1>0, <3>1
    <3> QED  BY <3>1, <3>2 DEF Settled
  <2> QED  BY <1>0, <1>1, <2>1 DEF InboxSettled, Indices, Is
<1>2. ASSUME NEW type, Handling(type) PROVE InboxSettled'
  BY <1>0, <1>2, InboxTaken
<1> QED  BY <1>1, <1>2

\* A message that is sent is settled, and apart from those before it.
LEMMA InboxGrows ==
  ASSUME InboxSettled, \A x \in Message : Settled(x) => Settled(x)',
         NEW m \in Message, Send(m), Settled(m)', Distinct(m, m),
         \A i \in Indices : Distinct(m, inbox[i]) /\ Distinct(inbox[i], m),
         \A i \in Indices : Is(i, "accept") /\ m.type = "accept" => inbox[i].id < m.id
  PROVE  InboxSettled'
<1>0. /\ inbox \in Seq(Message) /\ \A i \in Indices : inbox[i] \in Message
      /\ \A i \in Indices : Settled(inbox[i])
  BY ElementOfSeq DEF InboxSettled, Indices
<1>1. /\ inbox' \in Seq(Message) /\ Len(inbox') = Len(inbox) + 1 /\ Len(inbox) \in Nat
      /\ inbox'[Len(inbox')] = m /\ \A i \in Indices : inbox'[i] = inbox[i]
  BY Sent
<1> DEFINE last == Len(inbox')
<1>2. \A i \in Indices' : i \in Indices \/ i = last
  BY <1>1 DEF Indices
<1>3. ASSUME NEW i \in Indices' PROVE Settled(inbox[i])'
  <2>1. CASE i = last
    BY <1>1, <2>1 DEF Settled
  <2>2. CASE i \in Indices
    <3>1. PICK x \in Message : x = inbox[i] /\ x = inbox'[i]
      BY <1>0, <1>1, <2>2
    <3>2. Settled(x)'
      BY <1>0, <2>2, <3>1
    <3> QED  BY <3>1, <3>2 DEF Settled
  <2> QED  BY <1>2, <1>3, <2>1, <2>2
<1>4. \A i, j \in Indices' : Distinct(inbox'[i], inbox'[j])
  BY <1>1, <1>2 DEF InboxSettled
<1>5. ASSUME NEW i \in Indices', NEW j \in Indices', i < j,
             inbox'[i].type = "accept", inbox'[j].type = "accept"
      PROVE  inbox'[i].id < inbox'[j].id
  <2>1. i \in Indices
    BY <1>1, <1>5 DEF Indices
  <2>2. CASE j \in Indices
    BY <1>1, <1>5, <2>1, <2>2 DEF InboxSettled, Is
  <2>3. CASE j = last
    BY <1>1, <1>5, <2>1, <2>3 DEF Is
  <2> QED  BY <1>2, <2>2, <2>3
<1> QED  BY <1>1, <1>3, <1>4, <1>5 DEF InboxSettled, Is, Distinct

LEMMA QuietIfOnly ==
  ASSUME TypeOK, NumbersGiven, NEW p, Only(p), serial' \in Serials, serial <= serial',
         DOMAIN calls' \subseteq DOMAIN calls \union New,
         DOMAIN live' \subseteq DOMAIN live \union (DOMAIN calls \ DOMAIN calls'),
         p \in Listed' =>
           /\ sessions'[p].replySerial \in {0, Entry(p).replySerial} \union New
           /\ sessions'[p].sessionId \in {0, Entry(p).sessionId, Entry(p).replySerial}
           /\ sessions'[p].inbound = Entry(p).inbound
  PROVE  Quiet
<1>1. /\ p \in Listed => Entry(p) = sessions[p]
      /\ p \notin Listed => /\ Entry(p).replySerial = 0 /\ Entry(p).sessionId = 0
                            /\ Entry(p).inbound = 0
  BY DEF Entry, NewEntry
<1>2. ASSUME NEW q \in Listed', q # p
      PROVE  q \in Listed /\ sessions'[q] = sessions[q]
  BY <1>2 DEF Only
<1>3. ASSUME NEW q \in Listed',
             NEW n \in {sessions'[q].replySerial, sessions'[q].sessionId}
      PROVE  n = 0 \/ n \in New \/ (q \in Listed /\ n \in NumbersOf(q))
  <2>1. CASE q = p
    BY <1>1, <1>3, <2>1 DEF NumbersOf
  <2>2. CASE q # p
    BY <1>2, <1>3, <2>2 DEF NumbersOf
  <2> QED  BY <2>1, <2>2
<1>4. ASSUME NEW q \in Listed'
      PROVE  \/ sessions'[q].inbound = 0
             \/ q \in Listed /\ sessions'[q].inbound = sessions[q].inbound
  BY <1>1, <1>2, <1>4
<1> QED  BY <1>3, <1>4 DEF Quiet

LEMMA QuietIfSame ==
  ASSUME TypeOK, UNCHANGED <<sessions, serial, calls>>, DOMAIN live' \subseteq DOMAIN live
  PROVE  Quiet
  BY SerialIs DEF Quiet, NumbersOf, New, Listed

LEMMA QuietIfGrown ==
  ASSUME TypeOK, NumbersGiven, NEW p \in Remotes, NEW n, Grown(p, n), Joined(p) \/ Unjoined(p),
         UNCHANGED live
  PROVE  Quiet
<1>1. serial \in Nat /\ serial \in Serials
  BY SerialIs
<1>2. CASE Joined(p)
  <2>1. serial' \in Serials /\ serial <= serial' /\ serial' \in New
    BY <1>1, <1>2 DEF Joined, New
  <2> QED  BY <1>2, <2>1, QuietIfOnly DEF Joined, Grown
<1>3. CASE Unjoined(p)
  BY <1>1, <1>3, QuietIfOnly DEF Unjoined, Grown
<1> QED  BY <1>2, <1>3

\* The handlers and the script do not let numbers appear from nowhere, the acceptance of
\* a session apart.
LEMMA HandlersQuiet ==
  ASSUME TypeOK, NumbersGiven, InboxSettled, ObjsKnown,
         \/ AboutAnnouncement \/ FoundAdvertisedName \/ HandleJoinSessionReply
         \/ SessionLost \/ EndSessions
         \/ \E o \in Objs : Finalize(o)
         \/ Securing \/ UNCHANGED vars
  PROVE  Quiet /\ (UNCHANGED inbox \/ \E type : Handling(type))
<1>0. serial \in Nat /\ serial \in Serials /\ Peers \subseteq Remotes /\ Names \subseteq Remotes
  BY SerialIs DEF Remotes
<1>g. ASSUME NEW p, Gone(p), UNCHANGED <<serial, calls>>, DOMAIN live' \subseteq DOMAIN live
      PROVE  Quiet
  BY <1>0, <1>g, QuietIfOnly DEF Gone
<1>1. CASE AboutAnnouncement
  <2>1. UNCHANGED live /\ Handling("announce")
    BY <1>1 DEF AboutAnnouncement
  <2> QED  BY <1>0, <1>1, <2>1, AnnouncementDoes, QuietIfGrown DEF Grow
<1>2. CASE FoundAdvertisedName
  <2>1. UNCHANGED live /\ Handling("found")
    BY <1>2 DEF FoundAdvertisedName
  <2> QED  BY <1>0, <1>g, <1>2, <2>1, FoundDoes, QuietIfGrown, QuietIfSame DEF Grow, entries
<1>3. CASE HandleJoinSessionReply
  <2>1. UNCHANGED <<calls, live, serial>> /\ Handling("reply")
    BY <1>3 DEF HandleJoinSessionReply
  <2>2. ASSUME NEW p \in Remotes, Answers(p) PROVE Quiet
    <3>1. Msg \in Message /\ Settled(Msg) /\ Msg.type = "reply"
      BY <2>1, Taken
    <3>2. Entry(p) = sessions[p] /\ (Msg.id = Msg.serial \/ Msg.id = 0)
      BY <2>2, <3>1 DEF Answers, Entry, Settled
    <3>3. /\ Only(p) /\ sessions'[p].replySerial = 0
          /\ sessions'[p].sessionId \in {0, Entry(p).sessionId, Entry(p).replySerial}
          /\ sessions'[p].inbound = Entry(p).inbound
      BY <2>2, <3>2 DEF Answers
    <3> QED  BY <1>0, <2>1, <3>3, QuietIfOnly
  <2> QED  BY <1>3, <2>1, <2>2, ReplyDoes, QuietIfSame
<1>4. CASE SessionLost
  <2>1. UNCHANGED <<calls, live, serial>> /\ Handling("lost")
    BY <1>4 DEF SessionLost
  <2> QED  BY <1>g, <1>4, <2>1, LostDoes, QuietIfSame
<1>5. CASE EndSessions
  <2>1. UNCHANGED <<calls, serial, inbox>> /\ DOMAIN live' \subseteq DOMAIN live
    BY <1>5 DEF EndSessions, Drop
  <2> QED  BY <1>0, <1>5, <2>1, EndDoes DEF Quiet
<1>6. ASSUME NEW o \in Objs, Finalize(o) PROVE Quiet /\ UNCHANGED inbox
  <2>1. UNCHANGED <<calls, serial, inbox>>
    BY <1>6 DEF Finalize
  <2>2. PICK p \in Remotes :
           \/ UNCHANGED <<sessions, live>>
           \/ Uncounts(p) /\ UNCHANGED live
           \/ Gone(p) /\ live' = Drop(live, {sessions[p].sessionId})
    BY <1>6, FinalizeDoes
  <2>3. DOMAIN live' \subseteq DOMAIN live
    BY <2>2 DEF Drop
  <2>4. ASSUME Uncounts(p) PROVE Quiet
    <3>1. Entry(p) = sessions[p]
      BY <2>4 DEF Uncounts, Entry
    <3> QED  BY <1>0, <2>1, <2>3, <2>4, <3>1, QuietIfOnly DEF Uncounts
  <2> QED  BY <1>g, <2>1, <2>2, <2>3, <2>4, QuietIfSame
<1>7. CASE Securing \/ UNCHANGED vars
  <2>1. UNCHANGED <<sessions, serial, calls, live, inbox>>
    BY <1>7 DEF Securing, EnableSecurity, AuthCallback, ServiceSessions, vars, bus, entries
  <2> QED  BY <2>1, QuietIfSame
<1> QED  BY <1>1, <1>2, <1>3, <1>4, <1>5, <1>6, <1>7

LEMMA AcceptSettled ==
  ASSUME TypeOK, NumbersGiven, InboxSettled, HandleAcceptSession
  PROVE  NumbersGiven' /\ InboxSettled'
<1>0. serial \in Nat /\ serial \in Serials /\ Peers \subseteq Remotes
  BY SerialIs DEF Remotes
<1>1. /\ Handling("accept") /\ UNCHANGED <<calls, serial>> /\ Msg \in Message /\ Settled(Msg)
      /\ Msg.type = "accept" /\ Msg = inbox[1] /\ 1 \in Indices /\ Is(1, "accept")
  <2>1. Handling("accept") /\ UNCHANGED <<calls, serial>>
    BY DEF HandleAcceptSession
  <2> QED  BY <2>1, Taken
<1>2. PICK p \in Remotes, n \in 0..1 :
        \/ Accepts(p, n)
        \/ Grown(p, n) /\ Unjoined(p) /\ UNCHANGED live
        \/ Only(p) /\ Listed' = Listed \ {p} /\ UNCHANGED live
  BY <1>0, AcceptDoes
<1>3. ASSUME Quiet PROVE NumbersGiven' /\ InboxSettled'
  BY <1>1, <1>3, QuietNumbers, QuietSettled, InboxStays
<1>4. CASE Grown(p, n) /\ Unjoined(p) /\ UNCHANGED live
  BY <1>3, <1>4, QuietIfGrown
<1>5. CASE Only(p) /\ Listed' = Listed \ {p} /\ UNCHANGED live
  BY <1>0, <1>1, <1>3, <1>5, QuietIfOnly
<1>6. CASE Accepts(p, n)
  <2> DEFINE id == Msg.id
  <2>1. /\ id \in 1..serial /\ id \notin DOMAIN calls
        /\ \A q \in Listed : sessions[q].inbound < id
    BY <1>1 DEF Settled
  <2>2. /\ Only(p) /\ Listed' = Listed \union {p}
        /\ sessions'[p].sessionId = id /\ sessions'[p].replySerial = Entry(p).replySerial
        /\ sessions'[p].inbound = Entry(p).inbound + 1
        /\ DOMAIN live' = DOMAIN live \union {id}
    <3>1. live' = Put(live, id, p)
      BY <1>6 DEF Accepts
    <3>2. DOMAIN live' = DOMAIN live \union {id}
      BY <3>1 DEF Put
    <3> QED  BY <1>6, <3>2 DEF Accepts
  <2>3. /\ p \in Listed => Entry(p) = sessions[p]
        /\ p \notin Listed => Entry(p).replySerial = 0 /\ Entry(p).inbound = 0
    BY DEF Entry, NewEntry
  <2>4. Entry(p).inbound < id /\ Entry(p).inbound \in Nat /\ Entry(p).replySerial \in 0..serial
    <3>1. Entry(p) \in SessionInfo /\ Entry(p).replySerial \in 0..serial
      BY EntryKnown
    <3> QED  BY <2>1, <2>3, <3>1 DEF SessionInfo
  <2> HIDE DEF id
  <2>5. ASSUME NEW q \in Listed', q # p
        PROVE  q \in Listed /\ sessions'[q] = sessions[q]
    BY <2>2, <2>5 DEF Only
  <2>6. NumbersGiven'
    <3>1. DOMAIN calls' \subseteq 1..serial' /\ DOMAIN live' \subseteq 1..serial'
          /\ DOMAIN calls' \intersect DOMAIN live' = {}
      BY <1>1, <2>1, <2>2 DEF NumbersGiven
    <3>2. ASSUME NEW q \in Listed'
          PROVE  /\ sessions'[q].replySerial \in 0..serial' /\ sessions'[q].sessionId \in 0..serial'
                 /\ sessions'[q].inbound <= serial'
      <4>1. CASE q = p
        BY <1>0, <1>1, <2>1, <2>2, <2>4, <4>1
      <4>2. CASE q # p
        BY <1>1, <2>5, <4>2 DEF NumbersGiven, NumbersOf
      <4> QED  BY <4>1, <4>2
    <3> QED  BY <3>1, <3>2 DEF NumbersGiven, NumbersOf
  <2>7. ASSUME NEW i \in Indices \ {1}, NEW m \in Message, m = inbox[i] PROVE Settled(m)'
    <3>1. Settled(m) /\ Distinct(Msg, m)
      BY <1>1, <2>7 DEF InboxSettled
    <3>2. CASE m.type = "reply"
      BY <1>1, <2>2, <3>1, <3>2 DEF Settled, Distinct, id
    <3>3. CASE m.type = "lost"
      BY <1>1, <2>2, <3>1, <3>3 DEF Settled, Distinct, id
    <3>4. CASE m.type = "accept"
      <4>1. id < m.id
        <5>1. Is(i, "accept") /\ 1 < i
          BY <2>7, <3>4 DEF Is, Indices
        <5> QED  BY <1>1, <2>7, <5>1 DEF InboxSettled, id
      <4>2. /\ m.id \in 1..serial /\ m.id \notin DOMAIN calls \union DOMAIN live
            /\ \A q \in Listed : m.id \notin NumbersOf(q) /\ sessions[q].inbound < m.id
        BY <3>1, <3>4 DEF Settled
      <4>3. m.id # id /\ m.id # 0
        BY <2>1, <4>1, <4>2
      <4>4. m.id \in 1..serial' /\ m.id \notin DOMAIN calls' \union DOMAIN live'
        BY <1>1, <2>2, <4>2, <4>3
      <4>5. ASSUME NEW q \in Listed'
            PROVE  m.id \notin NumbersOf(q)' /\ sessions'[q].inbound < m.id
        <5>1. CASE q = p
          <6>1. m.id # Entry(p).replySerial
            BY <2>3, <4>2, <4>3 DEF NumbersOf
          <6>2. sessions'[p].inbound < m.id
            BY <2>1, <2>2, <2>4, <4>1, <4>2
          <6> QED  BY <2>2, <4>3, <5>1, <6>1, <6>2 DEF NumbersOf
        <5>2. CASE q # p
          BY <2>5, <4>2, <5>2 DEF NumbersOf
        <5> QED  BY <5>1, <5>2
      <4> QED  BY <3>4, <4>4, <4>5 DEF Settled
    <3>5. CASE m.type \notin {"reply", "lost", "accept"}
      BY <3>5 DEF Settled
    <3> QED  BY <3>2, <3>3, <3>4, <3>5
  <2> QED  BY <1>1, <2>6, <2>7, InboxTaken
<1> QED  BY <1>2, <1>4, <1>5, <1>6

\* What the bus sends is settled, and so is what it sent before.
LEMMA SendingSettled ==
  ASSUME TypeOK, NumbersGiven, InboxSettled, Sending
  PROVE  Quiet /\ NumbersGiven' /\ InboxSettled'
<1>0. /\ serial \in Nat /\ serial \in Serials /\ serial <= MaxSerial /\ MaxSerial \in Nat
      /\ 0 \in Serials /\ inbox \in Seq(Message)
      /\ \A n : n \in Serials <=> n \in Nat /\ n <= MaxSerial
      /\ \A i \in Indices : Settled(inbox[i]) /\ inbox[i] \in Message
  BY SerialIs, ElementOfSeq DEF InboxSettled, Indices
<1>1. ASSUME Quiet, NEW m \in Message, Send(m), Settled(m)', Distinct(m, m),
             \A i \in Indices : Distinct(m, inbox[i]) /\ Distinct(inbox[i], m),
             \A i \in Indices : Is(i, "accept") /\ m.type = "accept" => inbox[i].id < m.id
      PROVE  NumbersGiven' /\ InboxSettled'
  BY <1>1, QuietNumbers, QuietSettled, InboxGrows
<1>2. ASSUME NEW m \in Message, m.type \in {"announce", "found"}, Send(m),
             UNCHANGED <<sessions, serial, calls, live>>
      PROVE  Quiet /\ NumbersGiven' /\ InboxSettled'
  <2>1. Quiet
    BY <1>2, QuietIfSame
  <2>2. Settled(m)' /\ \A x \in Message : Distinct(m, x) /\ Distinct(x, m)
    BY <1>2 DEF Settled, Distinct
  <2> QED  BY <1>0, <1>1, <1>2, <2>1, <2>2
<1>3. CASE BusAnnounce
  <2>1. PICK p \in Peers, parses \in BOOLEAN :
          Send([type |-> "announce", peer |-> p, parses |-> parses])
    BY <1>3 DEF BusAnnounce
  <2> DEFINE m == [type |-> "announce", peer |-> p, parses |-> parses]
  <2>2. m \in Message /\ m.type = "announce" /\ Send(m)
    BY <2>1 DEF Message
  <2>3. UNCHANGED <<sessions, serial, calls, live>>
    BY <1>3 DEF BusAnnounce, entries
  <2> HIDE DEF m
  <2> QED  BY <1>2, <2>2, <2>3
<1>4. CASE BusFound
  <2>1. PICK p \in Names : Send([type |-> "found", peer |-> p])
    BY <1>4 DEF BusFound
  <2> DEFINE m == [type |-> "found", peer |-> p]
  <2>2. m \in Message /\ m.type = "found" /\ Send(m)
    BY <2>1 DEF Message
  <2>3. UNCHANGED <<sessions, serial, calls, live>>
    BY <1>4 DEF BusFound, entries
  <2> HIDE DEF m
  <2> QED  BY <1>2, <2>2, <2>3
<1>5. CASE BusReply
  <2>1. PICK n \in DOMAIN calls :
          /\ calls' = Drop(calls, {n}) /\ UNCHANGED <<sessions, serial>>
          /\ \/ live' = Put(live, n, calls[n]) /\ Send([type |-> "reply", serial |-> n, id |-> n])
             \/ UNCHANGED live /\ Send([type |-> "reply", serial |-> n, id |-> 0])
    BY <1>5 DEF BusReply, entries
  <2>2. PICK id \in {0, n} :
          /\ Send([type |-> "reply", serial |-> n, id |-> id])
          /\ \/ id = n /\ live' = Put(live, n, calls[n])
             \/ id = 0 /\ UNCHANGED live
    BY <2>1
  <2> DEFINE m == [type |-> "reply", serial |-> n, id |-> id]
  <2>3. n \in 1..serial /\ n \notin DOMAIN live /\ n \in Serials
    BY <1>0 DEF NumbersGiven
  <2>4. DOMAIN calls' = DOMAIN calls \ {n} /\ DOMAIN live' \subseteq DOMAIN live \union {n}
        /\ (id = 0 => DOMAIN live' = DOMAIN live)
    <3>1. DOMAIN calls' = DOMAIN calls \ {n}
      BY <2>1 DEF Drop
    <3>2. live' = Put(live, n, calls[n]) => DOMAIN live' = DOMAIN live \union {n}
      BY DEF Put
    <3>3. (id = 0 => UNCHANGED live) /\ (live' = Put(live, n, calls[n]) \/ UNCHANGED live)
      BY <1>0, <2>2, <2>3
    <3> QED  BY <3>1, <3>2, <3>3
  <2>5. Quiet
    <3>1. DOMAIN live' \subseteq DOMAIN live \union (DOMAIN calls \ DOMAIN calls')
          /\ DOMAIN calls' \subseteq DOMAIN calls \union New
      BY <2>4
    <3>2. serial' = serial /\ sessions' = sessions
      BY <2>1
    <3>3. \A p \in Listed' : p \in Listed /\ sessions'[p] = sessions[p]
      BY <3>2 DEF Listed
    <3> QED  BY <1>0, <3>1, <3>2, <3>3 DEF Quiet, NumbersOf
  <2>6. m \in Message /\ m.type = "reply" /\ m.serial = n /\ m.id = id /\ Send(m)
    BY <1>0, <2>2, <2>3 DEF Message
  <2> HIDE DEF m
  <2>7. Settled(m)'
    BY <2>1, <2>2, <2>3, <2>4, <2>6 DEF Settled
  <2>8. \A i \in Indices : Distinct(m, inbox[i]) /\ Distinct(inbox[i], m)
    BY <1>0, <2>6 DEF Distinct, Settled
  <2>9. Distinct(m, m)
    BY <2>6 DEF Distinct
  <2> QED  BY <1>1, <2>5, <2>6, <2>7, <2>8, <2>9
<1>6. CASE BusConnect
  <2>1. PICK p \in Peers : /\ serial < MaxSerial /\ serial' = serial + 1
                           /\ Send([type |-> "accept", peer |-> p, id |-> serial'])
                           /\ UNCHANGED <<sessions, calls, live>>
    BY <1>6 DEF BusConnect, entries
  <2>2. PICK id \in Nat : id = serial' /\ id = serial + 1 /\ id \in Serials
    BY <1>0, <2>1
  <2> DEFINE m == [type |-> "accept", peer |-> p, id |-> id]
  <2>3. Quiet
    BY <1>0, <2>1, <2>2 DEF Quiet, NumbersOf, New, Listed
  <2>4. m \in Message /\ m.type = "accept" /\ m.id = id /\ Send(m)
    BY <2>1, <2>2 DEF Message
  <2> HIDE DEF m
  <2>5. Settled(m)'
    <3>1. id \in 1..serial' /\ id \notin DOMAIN calls' \union DOMAIN live'
      BY <1>0, <2>1, <2>2 DEF NumbersGiven
    <3>2. ASSUME NEW q \in Listed
          PROVE  id \notin NumbersOf(q) /\ sessions[q].inbound < id
      <4>1. NumbersOf(q) \subseteq 0..serial /\ sessions[q].inbound <= serial
            /\ sessions[q].inbound \in Nat
        BY DEF NumbersGiven, TypeOK, SessionInfo
      <4> QED  BY <1>0, <2>2, <4>1
    <3> QED  BY <2>1, <2>4, <3>1, <3>2 DEF Settled, NumbersOf, Listed
  <2>6. ASSUME NEW i \in Indices
        PROVE  /\ Distinct(m, inbox[i]) /\ Distinct(inbox[i], m)
               /\ Is(i, "accept") => inbox[i].id < id
    <3>1. Settled(inbox[i])
      BY <1>0
    <3>2. /\ inbox[i].type = "reply" => inbox[i].serial \in 1..serial
          /\ inbox[i].type \in {"lost", "accept"} => inbox[i].id \in 1..serial
      BY <3>1 DEF Settled
    <3> QED  BY <1>0, <2>2, <2>4, <3>2 DEF Distinct, Is
  <2>7. Distinct(m, m)
    BY <2>4 DEF Distinct
  <2> QED  BY <1>1, <2>3, <2>4, <2>5, <2>6, <2>7
<1>7. CASE BusLose
  <2>1. PICK id \in DOMAIN live :
          /\ live' = Drop(live, {id}) /\ Send([type |-> "lost", id |-> id])
          /\ UNCHANGED <<sessions, serial, calls>>
    BY <1>7 DEF BusLose, entries
  <2> DEFINE m == [type |-> "lost", id |-> id]
  <2>2. id \in 1..serial /\ id \notin DOMAIN calls /\ id \in Serials
    BY <1>0 DEF NumbersGiven
  <2>3. DOMAIN live' = DOMAIN live \ {id}
    BY <2>1, DropDoes
  <2>4. Quiet
    BY <2>1, <2>3, QuietIfSame
  <2>5. m \in Message /\ m.type = "lost" /\ m.id = id /\ Send(m)
    BY <2>1, <2>2 DEF Message
  <2> HIDE DEF m
  <2>6. Settled(m)'
    BY <2>1, <2>2, <2>3, <2>5 DEF Settled
  <2>7. \A i \in Indices : Distinct(m, inbox[i]) /\ Distinct(inbox[i], m)
    BY <1>0, <2>5 DEF Distinct, Settled
  <2>8. Distinct(m, m)
    BY <2>5 DEF Distinct
  <2> QED  BY <1>1, <2>4, <2>5, <2>6, <2>7, <2>8
<1> QED  BY <1>3, <1>4, <1>5, <1>6, <1>7 DEF Sending

LEMMA NumbersStay ==
  ASSUME TypeOK, NumbersGiven, InboxSettled, ObjsKnown, [Next]_vars
  PROVE  NumbersGiven' /\ InboxSettled'
<1>1. ASSUME Quiet, UNCHANGED inbox \/ \E type : Handling(type)
      PROVE  NumbersGiven' /\ InboxSettled'
  BY <1>1, QuietNumbers, QuietSettled, InboxStays
<1> QED  BY <1>1, HandlersQuiet, AcceptSettled, SendingSettled, NextCases

LEMMA BusStaysTyped ==
  ASSUME TypeOK, NumbersGiven, InboxSettled, ObjsKnown, [Next]_vars
  PROVE  BusTyped'
<1>0. /\ BusTyped /\ Peers \subseteq Remotes /\ Names \subseteq Remotes
      /\ MaxMsgs \in Nat /\ MaxInbox \in Nat /\ Len(inbox) \in Nat
  BY TypesSplit, SessionsAssumption DEF Remotes, InboxSettled
<1>1. serial' \in Serials
  <2>1. Quiet => serial' \in Serials
    BY DEF Quiet
  <2>2. HandleAcceptSession => serial' = serial
    BY DEF HandleAcceptSession
  <2> QED  BY <1>0, <2>1, <2>2, HandlersQuiet, SendingSettled, NextCases DEF BusTyped
<1>2. DOMAIN calls' \subseteq Serials /\ DOMAIN live' \subseteq Serials
  <2>1. 1..serial' \subseteq Serials
    BY <1>1, SerialIs
  <2> QED  BY <2>1, NumbersStay DEF NumbersGiven
<1>3. \A n \in DOMAIN calls' : calls'[n] \in Remotes
  <2>1. ASSUME NEW p \in Remotes, Joined(p) PROVE \A n \in DOMAIN calls' : calls'[n] \in Remotes
    BY <1>0, <2>1 DEF BusTyped, Joined
  <2>2. ASSUME UNCHANGED calls PROVE \A n \in DOMAIN calls' : calls'[n] \in Remotes
    BY <1>0, <2>2 DEF BusTyped
  <2>3. CASE AboutAnnouncement
    BY <1>0, <2>1, <2>2, <2>3, AnnouncementDoes DEF Grow, Unjoined
  <2>4. CASE FoundAdvertisedName
    BY <1>0, <2>1, <2>2, <2>4, FoundDoes DEF Grow, Unjoined
  <2>5. CASE HandleJoinSessionReply \/ HandleAcceptSession \/ SessionLost \/ EndSessions
             \/ (\E o \in Objs : Finalize(o)) \/ Securing \/ UNCHANGED vars
    BY <2>2, <2>5 DEF HandleJoinSessionReply, HandleAcceptSession, SessionLost, EndSessions,
       Finalize, Securing, EnableSecurity, AuthCallback, ServiceSessions, vars, bus
  <2>6. CASE Sending
    <3>1. (\E n : calls' = Drop(calls, {n})) \/ UNCHANGED calls
      BY <2>6 DEF Sending, BusAnnounce, BusFound, BusReply, BusConnect, BusLose
    <3> QED  BY <1>0, <2>2, <3>1 DEF BusTyped, Drop
  <2> QED  BY <2>3, <2>4, <2>5, <2>6, NextCases
<1>4. \A n \in DOMAIN live' : live'[n] \in Remotes
  <2>1. ASSUME NEW S, live' = Drop(live, S) PROVE \A n \in DOMAIN live' : live'[n] \in Remotes
    BY <1>0, <2>1 DEF BusTyped, Drop
  <2>2. ASSUME UNCHANGED live PROVE \A n \in DOMAIN live' : live'[n] \in Remotes
    BY <1>0, <2>2 DEF BusTyped
  <2>3. ASSUME NEW n, NEW p \in Remotes, live' = Put(live, n, p)
        PROVE  \A x \in DOMAIN live' : live'[x] \in Remotes
    BY <1>0, <2>3 DEF BusTyped, Put
  <2>4. CASE AboutAnnouncement \/ FoundAdvertisedName \/ HandleJoinSessionReply \/ SessionLost
             \/ Securing \/ UNCHANGED vars
    BY <2>2, <2>4 DEF AboutAnnouncement, FoundAdvertisedName, HandleJoinSessionReply,
       SessionLost, Securing, EnableSecurity, AuthCallback, ServiceSessions, vars, bus
  <2>5. CASE HandleAcceptSession
    BY <1>0, <2>2, <2>3, <2>5, AcceptDoes DEF Accepts
  <2>6. CASE EndSessions
    BY <2>1, <2>6 DEF EndSessions
  <2>7. CASE \E o \in Objs : Finalize(o)
    BY <2>1, <2>2, <2>7 DEF Finalize
  <2>8. CASE Sending
    <3>1. \/ \E n \in DOMAIN calls : live' = Put(live, n, calls[n])
          \/ \E n : live' = Drop(live, {n})
          \/ UNCHANGED live
      BY <2>8 DEF Sending, BusAnnounce, BusFound, BusReply, BusConnect, BusLose
    <3>2. \A n \in DOMAIN calls : calls[n] \in Remotes
      BY <1>0 DEF BusTyped
    <3> QED  BY <2>1, <2>2, <2>3, <3>1, <3>2
  <2> QED  BY <2>4, <2>5, <2>6, <2>7, <2>8, NextCases
<1>5. Len(inbox') <= MaxInbox
  <2>1. ASSUME NEW type, Handling(type) PROVE Len(inbox') <= MaxInbox
    <3>1. Len(inbox') = Len(inbox) - 1
      BY <2>1, Taken
    <3> QED  BY <1>0, <3>1 DEF BusTyped
  <2>2. ASSUME UNCHANGED inbox PROVE Len(inbox') <= MaxInbox
    BY <1>0, <2>2 DEF BusTyped
  <2>3. ASSUME NEW m, Send(m) PROVE Len(inbox') <= MaxInbox
    <3>1. Len(Append(inbox, m)) = Len(inbox) + 1 /\ Len(inbox) < MaxInbox
      BY <2>3 DEF Send, InboxSettled
    <3> QED  BY <1>0, <2>3, <3>1 DEF Send
  <2>4. HandleAcceptSession => Handling("accept")
    BY DEF HandleAcceptSession
  <2>5. Sending => \E m : Send(m)
    BY DEF Sending, BusAnnounce, BusFound, BusReply, BusConnect, BusLose
  <2> QED  BY <2>1, <2>2, <2>3, <2>4, <2>5, HandlersQuiet, NextCases
<1>6. msgs' \in 0..MaxMsgs
  <2>1. UNCHANGED msgs \/ (msgs < MaxMsgs /\ msgs' = msgs + 1)
    BY NextCases DEF AboutAnnouncement, FoundAdvertisedName, HandleJoinSessionReply,
       HandleAcceptSession, SessionLost, EndSessions, Finalize, Securing, EnableSecurity,
       AuthCallback, ServiceSessions, Sending, BusAnnounce, BusFound, BusReply, BusConnect,
       BusLose, vars, bus
  <2> QED  BY <1>0, <2>1 DEF BusTyped
<1> QED  BY <1>1, <1>2, <1>3, <1>4, <1>5, <1>6 DEF BusTyped

LEMMA TypesStay ==
  ASSUME IInv, [Next]_vars
  PROVE  TypeOK'
<1>1. SessionsTyped' /\ ObjsTyped' /\ HistoryTyped' /\ AuthTyped' /\ BusTyped'
  BY SessionsStayTyped, ObjsStayTyped, HistoryStaysTyped, AuthStays, BusStaysTyped DEF IInv
<1>2. TypeOK' <=> SessionsTyped' /\ ObjsTyped' /\ HistoryTyped' /\ AuthTyped' /\ BusTyped'
  BY DEF TypeOK, SessionsTyped, ObjsTyped, HistoryTyped, AuthTyped, BusTyped, Listed
<1> QED  BY <1>1, <1>2

-----------------------------------------------------------------------------
(* Entries                                                                 *)

LEMMA FlawsLast == ASSUME [Next]_vars PROVE flaws \subseteq flaws'
  BY DEF Next, Handle, AboutAnnouncement, FoundAdvertisedName, HandleJoinSessionReply,
     HandleAcceptSession, SessionLost, EndSessions, Finalize, EnableSecurity,
     AuthCallback, ServiceSessions, BusAnnounce, BusFound, BusReply, BusConnect,
     BusLose, vars, Flaw

\* The entry of p is settled.
EntrySettled(p) ==
  /\ sessions[p].sessionId \notin DOMAIN calls
  /\ sessions[p].replySerial # 0 /\ sessions[p].sessionId # 0 => Flawed("crossed", p)

LEMMA SettledIfOnly ==
  ASSUME TypeOK, NumbersGiven, EntriesSettled, flaws \subseteq flaws', NEW p, Only(p),
         DOMAIN calls' \subseteq DOMAIN calls \union New,
         p \in Listed' => EntrySettled(p)'
  PROVE  EntriesSettled'
<1>1. ASSUME NEW q \in Listed', q # p PROVE EntrySettled(q)'
  <2>1. q \in Listed /\ sessions'[q] = sessions[q]
    BY <1>1 DEF Only
  <2>2. sessions[q].sessionId \in 0..serial /\ serial \in Nat
    BY <2>1, SerialIs DEF NumbersGiven, NumbersOf
  <2>3. sessions[q].sessionId \notin DOMAIN calls'
    BY <2>1, <2>2 DEF EntriesSettled, New
  <2> QED  BY <2>1, <2>3 DEF EntriesSettled, EntrySettled, Flawed
<1> QED  BY <1>1 DEF EntriesSettled, EntrySettled

LEMMA SettledIfGrown ==
  ASSUME TypeOK, NumbersGiven, EntriesSettled, flaws \subseteq flaws',
         NEW p \in Remotes, NEW n, Grown(p, n), Joined(p) \/ Unjoined(p)
  PROVE  EntriesSettled'
<1>1. serial \in Nat /\ Entry(p).sessionId \in 0..serial /\ 0 \notin DOMAIN calls
  BY SerialIs, EntryKnown DEF NumbersGiven
<1>2. /\ p \in Listed => Entry(p) = sessions[p]
      /\ p \notin Listed => Entry(p).replySerial = 0 /\ Entry(p).sessionId = 0
  BY DEF Entry, NewEntry
<1>3. Only(p) /\ sessions'[p].sessionId = Entry(p).sessionId
  BY DEF Grown
<1>4. CASE Joined(p)
  <2>1. serial' \in New /\ serial' # 0 /\ DOMAIN calls' = DOMAIN calls \union {serial'}
        /\ Entry(p).sessionId = 0
    BY <1>1, <1>4 DEF Joined, New
  <2>2. EntrySettled(p)'
    BY <1>1, <1>3, <2>1 DEF EntrySettled
  <2> QED  BY <1>3, <2>1, <2>2, SettledIfOnly
<1>5. CASE Unjoined(p)
  <2>1. Entry(p).sessionId \notin DOMAIN calls
        /\ (Entry(p).replySerial # 0 /\ Entry(p).sessionId # 0 => <<"crossed", p>> \in flaws')
    BY <1>1, <1>2 DEF EntriesSettled, Flawed
  <2>2. EntrySettled(p)'
    BY <1>3, <1>5, <2>1 DEF EntrySettled, Flawed, Unjoined
  <2> QED  BY <1>3, <1>5, <2>2, SettledIfOnly DEF Unjoined
<1> QED  BY <1>4, <1>5

LEMMA EntriesStaySettled ==
  ASSUME TypeOK, NumbersGiven, InboxSettled, ObjsKnown, EntriesSettled, [Next]_vars
  PROVE  EntriesSettled'
<1>0. flaws \subseteq flaws' /\ Peers \subseteq Remotes /\ Names \subseteq Remotes
  BY FlawsLast DEF Remotes
<1>g. ASSUME NEW p, Only(p), p \notin Listed', UNCHANGED calls PROVE EntriesSettled'
  BY <1>0, <1>g, SettledIfOnly
<1>u. ASSUME UNCHANGED sessions, DOMAIN calls' \subseteq DOMAIN calls PROVE EntriesSettled'
  BY <1>0, <1>u DEF EntriesSettled, Listed, Flawed
<1>1. CASE AboutAnnouncement
  BY <1>0, <1>1, AnnouncementDoes, SettledIfGrown DEF Grow
<1>2. CASE FoundAdvertisedName
  BY <1>0, <1>g, <1>u, <1>2, FoundDoes, SettledIfGrown DEF Grow, Gone, entries
<1>3. CASE HandleJoinSessionReply
  <2>1. UNCHANGED calls /\ Handling("reply")
    BY <1>3 DEF HandleJoinSessionReply
  <2>2. ASSUME NEW p \in Remotes, Answers(p) PROVE EntriesSettled'
    <3>1. Settled(Msg) /\ Msg.type = "reply"
      BY <2>1, Taken
    <3>2. Msg.id = 0 \/ Msg.id \notin DOMAIN calls
      BY <3>1 DEF Settled
    <3>3. Only(p) /\ EntrySettled(p)'
      BY <2>1, <2>2, <3>2 DEF Answers, EntrySettled, EntriesSettled
    <3> QED  BY <1>0, <2>1, <3>3, SettledIfOnly
  <2> QED  BY <1>u, <1>3, <2>1, <2>2, ReplyDoes
<1>4. CASE HandleAcceptSession
  <2>1. UNCHANGED calls /\ Handling("accept")
    BY <1>4 DEF HandleAcceptSession
  <2>2. PICK p \in Remotes, n \in 0..1 :
          /\ Flaw("crossed", {p} \intersect Listed)
          /\ \/ Accepts(p, n)
             \/ Grown(p, n) /\ Unjoined(p)
             \/ Only(p) /\ Listed' = Listed \ {p}
    BY <1>0, <1>4, AcceptDoes
  <2>3. CASE Accepts(p, n)
    <3>1. Msg.id \notin DOMAIN calls
      BY <2>1, Taken DEF Settled
    <3>2. p \notin Listed => Entry(p).replySerial = 0
      BY DEF Entry, NewEntry
    <3>3. p \in Listed => <<"crossed", p>> \in flaws'
      BY <2>2 DEF Flaw
    <3>4. Only(p) /\ EntrySettled(p)'
      BY <2>1, <2>3, <3>1, <3>2, <3>3 DEF Accepts, EntrySettled, Flawed
    <3> QED  BY <1>0, <2>1, <3>4, SettledIfOnly
  <2> QED  BY <1>0, <1>g, <2>1, <2>2, <2>3, SettledIfGrown
<1>5. CASE SessionLost
  BY <1>g, <1>u, <1>5, LostDoes DEF SessionLost, Gone
<1>6. CASE EndSessions
  BY <1>6, EndDoes DEF EntriesSettled
<1>7. ASSUME NEW o \in Objs, Finalize(o) PROVE EntriesSettled'
  <2>1. UNCHANGED calls
    BY <1>7 DEF Finalize
  <2>2. PICK p \in Remotes : UNCHANGED sessions \/ Uncounts(p) \/ Gone(p)
    BY <1>7, FinalizeDoes
  <2>3. ASSUME Uncounts(p) PROVE EntriesSettled'
    <3>1. Only(p) /\ EntrySettled(p)'
      BY <1>0, <2>1, <2>3 DEF Uncounts, EntrySettled, EntriesSettled, Flawed
    <3> QED  BY <1>0, <2>1, <3>1, SettledIfOnly
  <2> QED  BY <1>g, <1>u, <2>1, <2>2, <2>3 DEF Gone
<1>8. CASE Securing \/ Sending \/ UNCHANGED vars
  <2>1. DOMAIN calls' \subseteq DOMAIN calls
    BY <1>8 DEF Securing, EnableSecurity, AuthCallback, ServiceSessions, Sending, BusAnnounce,
       BusFound, BusReply, BusConnect, BusLose, vars, bus, Drop
  <2> QED  BY <1>u, <1>8, <2>1, OutsideEntries
<1> QED  BY <1>1, <1>2, <1>3, <1>4, <1>5, <1>6, <1>7, <1>8, NextCases

-----------------------------------------------------------------------------
(* Sessions                                                                *)

\* The join calls and the sessions of a remote.
Claims(p) == {n \in DOMAIN calls : calls[n] = p} \union {n \in DOMAIN live : live[n] = p}

Tracked(p) == Undisturbed(p) => \A n \in Claims(p) : Knows(p, n)

LEMMA TrackedEach == SessionsTracked <=> \A p : Tracked(p)
  BY DEF SessionsTracked, Tracked, Claims

LEMMA TrackedIfOnly ==
  ASSUME SessionsTracked, flaws \subseteq flaws', NEW p, Only(p),
         \A q : q # p => Claims(q)' \subseteq Claims(q),
         Tracked(p)'
  PROVE  SessionsTracked'
<1>1. ASSUME NEW q, q # p, Undisturbed(q)', NEW n \in Claims(q)' PROVE Knows(q, n)'
  <2>1. n \in Claims(q) /\ Undisturbed(q)
    BY <1>1 DEF Undisturbed, Flawed
  <2>2. Knows(q, n)
    BY <2>1, TrackedEach DEF Tracked
  <2> QED  BY <1>1, <2>2 DEF Knows, Only
<1>2. \A q : Tracked(q)'
  BY <1>1 DEF Tracked
<1> QED  BY <1>2 DEF SessionsTracked, Tracked, Claims

LEMMA TrackedIfKept ==
  ASSUME SessionsTracked, flaws \subseteq flaws', UNCHANGED sessions,
         \A q : Claims(q)' \subseteq Claims(q)
  PROVE  SessionsTracked'
<1>1. ASSUME NEW q, Undisturbed(q)', NEW n \in Claims(q)' PROVE Knows(q, n)'
  <2>1. n \in Claims(q) /\ Undisturbed(q)
    BY <1>1 DEF Undisturbed, Flawed
  <2>2. Knows(q, n)
    BY <2>1, TrackedEach DEF Tracked
  <2> QED  BY <2>2 DEF Knows, Listed
<1>2. \A q : Tracked(q)'
  BY <1>1 DEF Tracked
<1> QED  BY <1>2 DEF SessionsTracked, Tracked, Claims

\* What is known of the claims of a remote nothing happened to.
LEMMA ClaimsOf ==
  ASSUME TypeOK, NumbersGiven, EntriesSettled, SessionsTracked, flaws \subseteq flaws',
         NEW p, Undisturbed(p)'
  PROVE  /\ Undisturbed(p) /\ Claims(p) \subseteq 1..serial
         /\ p \notin Listed => Claims(p) = {}
         /\ p \in Listed =>
              /\ Claims(p) \subseteq NumbersOf(p) \ {0}
              /\ sessions[p].sessionId \notin DOMAIN calls
              /\ sessions[p].replySerial = 0 \/ sessions[p].sessionId = 0
<1>1. Undisturbed(p)
  BY DEF Undisturbed, Flawed
<1>2. Claims(p) \subseteq 1..serial /\ 0 \notin Claims(p)
  BY SerialIs DEF NumbersGiven, Claims
<1>3. \A n \in Claims(p) : Knows(p, n)
  BY <1>1, TrackedEach DEF Tracked
<1> QED  BY <1>1, <1>2, <1>3 DEF Knows, NumbersOf, EntriesSettled, Undisturbed

LEMMA TrackedIfGrown ==
  ASSUME TypeOK, NumbersGiven, EntriesSettled, SessionsTracked, flaws \subseteq flaws',
         NEW p \in Remotes, NEW n, Grown(p, n), Joined(p) \/ Unjoined(p), UNCHANGED live
  PROVE  SessionsTracked'
<1>1. Only(p) /\ p \in Listed' /\ sessions'[p].sessionId = Entry(p).sessionId
  BY DEF Grown
<1>2. /\ p \in Listed => Entry(p) = sessions[p]
      /\ p \notin Listed => Entry(p).replySerial = 0 /\ Entry(p).sessionId = 0
  BY DEF Entry, NewEntry
<1>3. ASSUME Undisturbed(p)'
      PROVE  Claims(p) \subseteq {Entry(p).replySerial, Entry(p).sessionId} \ {0}
  BY <1>2, <1>3, ClaimsOf DEF NumbersOf
<1>4. CASE Joined(p)
  <2>1. \A q : q # p => Claims(q)' \subseteq Claims(q)
    BY <1>4 DEF Joined, Claims
  <2>2. Claims(p)' \subseteq Claims(p) \union {serial'}
    BY <1>4 DEF Joined, Claims
  <2>3. Tracked(p)'
    BY <1>1, <1>3, <1>4, <2>2 DEF Tracked, Knows, Joined
  <2> QED  BY <1>1, <2>1, <2>3, TrackedIfOnly
<1>5. CASE Unjoined(p)
  <2>1. \A q : Claims(q)' \subseteq Claims(q)
    BY <1>5 DEF Unjoined, Claims
  <2>2. Tracked(p)'
    BY <1>1, <1>3, <1>5, <2>1 DEF Tracked, Knows, Unjoined
  <2> QED  BY <1>1, <2>1, <2>2, TrackedIfOnly
<1> QED  BY <1>4, <1>5

\* An entry may be deleted if something happened to it or nothing is left to it.
LEMMA TrackedIfGone ==
  ASSUME SessionsTracked, flaws \subseteq flaws', NEW p, Only(p),
         \A q : Claims(q)' \subseteq Claims(q), Undisturbed(p)' => Claims(p)' = {}
  PROVE  SessionsTracked'
<1>1. Tracked(p)'
  BY DEF Tracked
<1> QED  BY <1>1, TrackedIfOnly

LEMMA AnnouncedTracked ==
  ASSUME IInv, AboutAnnouncement \/ FoundAdvertisedName, flaws \subseteq flaws'
  PROVE  SessionsTracked'
<1>0. /\ TypeOK /\ NumbersGiven /\ InboxSettled /\ EntriesSettled /\ SessionsTracked
      /\ UNCHANGED live /\ Peers \subseteq Remotes /\ Names \subseteq Remotes
  BY DEF IInv, AboutAnnouncement, FoundAdvertisedName, Remotes
<1>1. ASSUME NEW p \in Remotes, NEW n, Grow(p, n) PROVE SessionsTracked'
  BY <1>0, <1>1, TrackedIfGrown DEF Grow
<1>2. ASSUME UNCHANGED calls PROVE \A q : Claims(q)' \subseteq Claims(q)
  BY <1>0, <1>2 DEF Claims
<1>3. ASSUME NEW q, Gone(q), Flaw("dropped", {q} \intersect Listed), UNCHANGED calls
      PROVE  SessionsTracked'
  <2>1. Undisturbed(q)' => Claims(q)' = {}
    <3>1. Undisturbed(q)' => q \notin Listed
      BY <1>3 DEF Flaw, Undisturbed, Flawed
    <3> QED  BY <1>0, <1>2, <1>3, <3>1, ClaimsOf
  <2> QED  BY <1>0, <1>2, <1>3, <2>1, TrackedIfGone DEF Gone
<1> QED  BY <1>0, <1>1, <1>2, <1>3, AnnouncementDoes, FoundDoes, TrackedIfKept DEF entries

LEMMA ReplyTracked ==
  ASSUME IInv, HandleJoinSessionReply, flaws \subseteq flaws'
  PROVE  SessionsTracked'
<1>0. /\ TypeOK /\ NumbersGiven /\ InboxSettled /\ EntriesSettled /\ SessionsTracked
      /\ UNCHANGED <<calls, live>>
  BY DEF IInv, HandleJoinSessionReply
<1>1. \A q : Claims(q)' = Claims(q)
  BY <1>0 DEF Claims
<1>2. Settled(Msg) /\ Msg.type = "reply"
  BY <1>0, Taken DEF HandleJoinSessionReply
<1>3. ASSUME NEW p \in Remotes, Answers(p) PROVE SessionsTracked'
  <2>1. ASSUME Undisturbed(p)', NEW n \in Claims(p) PROVE Knows(p, n)'
    <3>1. /\ n \in {sessions[p].replySerial, sessions[p].sessionId} /\ n # 0
          /\ sessions[p].replySerial = 0 \/ sessions[p].sessionId = 0
      BY <1>0, <1>3, <2>1, ClaimsOf DEF Answers, NumbersOf
    <3>2. /\ sessions[p].replySerial \in 1..serial /\ sessions[p].replySerial \notin DOMAIN calls
          /\ \/ Msg.id = sessions[p].replySerial
             \/ Msg.id = 0 /\ sessions[p].replySerial \notin DOMAIN live
      BY <1>2, <1>3 DEF Answers, Settled
    <3>3. sessions[p].sessionId = 0 /\ n = sessions[p].replySerial
      BY <3>1, <3>2
    <3>4. Msg.id = n
      BY <2>1, <3>2, <3>3 DEF Claims
    <3> QED  BY <1>3, <3>1, <3>4 DEF Answers, Knows
  <2>2. Tracked(p)'
    BY <1>1, <2>1 DEF Tracked
  <2> QED  BY <1>0, <1>1, <1>3, <2>2, TrackedIfOnly DEF Answers
<1> QED  BY <1>0, <1>1, <1>3, ReplyDoes, TrackedIfKept

LEMMA AcceptTracked ==
  ASSUME IInv, HandleAcceptSession, flaws \subseteq flaws'
  PROVE  SessionsTracked'
<1>0. /\ TypeOK /\ NumbersGiven /\ InboxSettled /\ EntriesSettled /\ SessionsTracked
      /\ UNCHANGED calls /\ Peers \subseteq Remotes
  BY DEF IInv, HandleAcceptSession, Remotes
<1>1. PICK p \in Remotes, n \in 0..1 :
        /\ p = Msg.peer /\ Flaw("crossed", {p} \intersect Listed)
        /\ \/ Accepts(p, n)
           \/ Grown(p, n) /\ Unjoined(p) /\ UNCHANGED live
           \/ Only(p) /\ Listed' = Listed \ {p} /\ UNCHANGED live
  BY <1>0, AcceptDoes
<1>2. Undisturbed(p)' => p \notin Listed /\ Claims(p) = {}
  <2>1. Undisturbed(p)' => p \notin Listed
    BY <1>1 DEF Flaw, Undisturbed, Flawed
  <2> QED  BY <1>0, <2>1, ClaimsOf
<1>3. CASE Accepts(p, n)
  <2>1. \A q : q # p => Claims(q)' \subseteq Claims(q)
    BY <1>0, <1>3 DEF Accepts, Claims, Put
  <2>2. Claims(p)' \subseteq Claims(p) \union {Msg.id}
    BY <1>0, <1>3 DEF Accepts, Claims, Put
  <2>3. \A x \in {Msg.id} : Knows(p, x)'
    BY <1>3 DEF Accepts, Knows
  <2>4. Tracked(p)'
    BY <1>2, <2>2, <2>3 DEF Tracked
  <2> QED  BY <1>0, <1>3, <2>1, <2>4, TrackedIfOnly DEF Accepts
<1>4. CASE Only(p) /\ Listed' = Listed \ {p} /\ UNCHANGED live
  <2>1. \A q : Claims(q)' = Claims(q)
    BY <1>0, <1>4 DEF Claims
  <2> QED  BY <1>0, <1>2, <1>4, <2>1, TrackedIfGone
<1> QED  BY <1>0, <1>1, <1>3, <1>4, TrackedIfGrown

LEMMA LostTracked ==
  ASSUME IInv, SessionLost, flaws \subseteq flaws'
  PROVE  SessionsTracked'
<1>0. /\ TypeOK /\ NumbersGiven /\ InboxSettled /\ EntriesSettled /\ SessionsTracked
      /\ UNCHANGED <<calls, live>>
  BY DEF IInv, SessionLost
<1>1. \A q : Claims(q)' = Claims(q)
  BY <1>0 DEF Claims
<1>2. Msg.id \in 1..serial /\ Msg.id \notin DOMAIN calls \union DOMAIN live
  <2>1. Settled(Msg) /\ Msg.type = "lost"
    BY <1>0, Taken DEF SessionLost
  <2> QED  BY <2>1 DEF Settled
<1>3. ASSUME NEW p \in Listed, sessions[p].sessionId = Msg.id, Gone(p)
      PROVE  SessionsTracked'
  <2>1. ASSUME Undisturbed(p)', NEW n \in Claims(p) PROVE FALSE
    <3>1. /\ n \in {sessions[p].replySerial, Msg.id} /\ n # 0 /\ Msg.id # 0
          /\ sessions[p].replySerial = 0 \/ Msg.id = 0
      BY <1>0, <1>2, <1>3, <2>1, ClaimsOf DEF NumbersOf
    <3>2. n = Msg.id
      BY <3>1
    <3> QED  BY <1>2, <3>2 DEF Claims
  <2> QED  BY <1>0, <1>1, <1>3, <2>1, TrackedIfGone DEF Gone
<1> QED  BY <1>0, <1>1, <1>3, LostDoes, TrackedIfKept

LEMMA EndTracked ==
  ASSUME IInv, EndSessions, flaws \subseteq flaws'
  PROVE  SessionsTracked'
<1>0. /\ TypeOK /\ NumbersGiven /\ EntriesSettled /\ SessionsTracked
  BY DEF IInv
<1>1. /\ UNCHANGED calls /\ Flaw("dropped", {p \in Listed : sessions[p].replySerial # 0})
      /\ live' = Drop(live, {sessions[p].sessionId : p \in Listed})
  BY DEF EndSessions
<1>2. ASSUME NEW p, Undisturbed(p)', NEW n \in Claims(p)' PROVE FALSE
  <2>1. n \in Claims(p)
    BY <1>1, <1>2 DEF Claims, Drop
  <2>2. p \in Listed /\ n \in {sessions[p].replySerial, sessions[p].sessionId} /\ n # 0
        /\ sessions[p].sessionId \notin DOMAIN calls
    BY <1>0, <1>2, <2>1, ClaimsOf DEF NumbersOf
  <2>3. sessions[p].replySerial = 0
    BY <1>1, <1>2, <2>2 DEF Flaw, Undisturbed, Flawed
  <2>4. n = sessions[p].sessionId /\ n \notin DOMAIN calls' /\ n \notin DOMAIN live'
    BY <1>1, <2>2, <2>3 DEF Drop
  <2> QED  BY <1>2, <2>4 DEF Claims
<1>3. \A p : Tracked(p)'
  BY <1>2 DEF Tracked
<1> QED  BY <1>3 DEF SessionsTracked, Tracked, Claims

LEMMA FinalizeTracked ==
  ASSUME IInv, NEW o \in Objs, Finalize(o), flaws \subseteq flaws'
  PROVE  SessionsTracked'
<1>0. /\ TypeOK /\ NumbersGiven /\ EntriesSettled /\ SessionsTracked /\ ObjsKnown
      /\ UNCHANGED calls
  BY DEF IInv, Finalize
<1>1. PICK p \in Remotes :
         \/ UNCHANGED <<sessions, live>>
         \/ Uncounts(p) /\ UNCHANGED live
         \/ /\ p \in Listed /\ sessions[p].sessionId # 0 /\ Gone(p)
            /\ live' = Drop(live, {sessions[p].sessionId})
  BY <1>0, FinalizeDoes
<1>2. \A q : Claims(q)' \subseteq Claims(q)
  BY <1>0, <1>1 DEF Claims, Drop
<1>3. CASE Uncounts(p)
  <2>1. Tracked(p)'
    BY <1>0, <1>2, <1>3, ClaimsOf DEF Tracked, Uncounts, Knows, NumbersOf
  <2> QED  BY <1>0, <1>2, <1>3, <2>1, TrackedIfOnly DEF Uncounts
<1>4. CASE /\ p \in Listed /\ sessions[p].sessionId # 0 /\ Gone(p)
           /\ live' = Drop(live, {sessions[p].sessionId})
  <2>1. ASSUME Undisturbed(p)', NEW n \in Claims(p)' PROVE FALSE
    <3>1. n \in Claims(p)
      BY <1>2, <2>1
    <3>2. /\ n \in {sessions[p].replySerial, sessions[p].sessionId} /\ n # 0
          /\ sessions[p].sessionId \notin DOMAIN calls
          /\ sessions[p].replySerial = 0 \/ sessions[p].sessionId = 0
      BY <1>0, <1>4, <2>1, <3>1, ClaimsOf DEF NumbersOf
    <3>3. n = sessions[p].sessionId /\ n \notin DOMAIN calls' /\ n \notin DOMAIN live'
      BY <1>0, <1>4, <3>2 DEF Drop
    <3> QED  BY <2>1, <3>3 DEF Claims
  <2> QED  BY <1>0, <1>2, <1>4, <2>1, TrackedIfGone DEF Gone
<1> QED  BY <1>0, <1>1, <1>2, <1>3, <1>4, TrackedIfKept

LEMMA SendingTracked ==
  ASSUME IInv, Securing \/ Sending \/ UNCHANGED vars, flaws \subseteq flaws'
  PROVE  SessionsTracked'
<1>1. SessionsTracked /\ UNCHANGED sessions
  BY OutsideEntries DEF IInv
<1>2. ASSUME NEW n \in DOMAIN calls, calls' = Drop(calls, {n}),
             live' = Put(live, n, calls[n]) \/ UNCHANGED live
      PROVE  \A q : Claims(q)' \subseteq Claims(q)
  BY <1>2 DEF Claims, Drop, Put
<1>3. ASSUME NEW n, live' = Drop(live, {n}), UNCHANGED calls
      PROVE  \A q : Claims(q)' \subseteq Claims(q)
  BY <1>3 DEF Claims, Drop
<1>4. ASSUME UNCHANGED <<calls, live>> PROVE \A q : Claims(q)' \subseteq Claims(q)
  BY <1>4 DEF Claims
<1>5. CASE BusReply
  BY <1>1, <1>2, <1>5, TrackedIfKept DEF BusReply
<1>6. CASE BusLose
  BY <1>1, <1>3, <1>6, TrackedIfKept DEF BusLose
<1>7. CASE Securing \/ BusAnnounce \/ BusFound \/ BusConnect \/ UNCHANGED vars
  <2>1. UNCHANGED <<calls, live>>
    BY <1>7 DEF Securing, EnableSecurity, AuthCallback, ServiceSessions, BusAnnounce,
       BusFound, BusConnect, vars, bus
  <2> QED  BY <1>1, <1>4, <2>1, TrackedIfKept
<1> QED  BY <1>5, <1>6, <1>7 DEF Sending

LEMMA SessionsStayTracked == ASSUME IInv, [Next]_vars PROVE SessionsTracked'
  BY FlawsLast, NextCases, AnnouncedTracked, ReplyTracked, AcceptTracked, LostTracked,
     EndTracked, FinalizeTracked, SendingTracked

-----------------------------------------------------------------------------
(* The count of an entry                                                   *)

\* Objects stay of an entry that there was, if new ones are.
LEMMA KnownIf ==
  ASSUME TypeOK, ObjsKnown, \A q \in Remotes : gen[q] <= gen'[q], gen' \in [Remotes -> Nat],
         \A o \in Objs :
           \/ Alike(objs'[o], objs[o])
           \/ objs'[o] = Free
           \/ /\ objs'[o].peer \in Remotes /\ objs'[o].in # "free"
              /\ objs'[o].gen <= gen'[objs'[o].peer]
  PROVE  ObjsKnown'
<1>1. ASSUME NEW o \in Objs
      PROVE  /\ objs'[o].peer = None <=> objs'[o].in = "free"
             /\ objs'[o].peer \in Remotes => objs'[o].gen <= gen'[objs'[o].peer]
  <2>1. CASE Alike(objs'[o], objs[o])
    <3>1. objs[o].peer = None <=> objs[o].in = "free"
      BY DEF ObjsKnown
    <3>2. ASSUME objs[o].peer \in Remotes PROVE objs[o].gen <= gen'[objs[o].peer]
      <4>1. objs[o].gen \in Nat /\ gen[objs[o].peer] \in Nat /\ gen'[objs[o].peer] \in Nat
            /\ objs[o].gen <= gen[objs[o].peer] /\ gen[objs[o].peer] <= gen'[objs[o].peer]
        BY <3>2 DEF TypeOK, Object, ObjsKnown
      <4> QED  BY <4>1
    <3> QED  BY <2>1, <3>1, <3>2 DEF Alike
  <2>2. CASE objs'[o] = Free
    BY <2>2, FreeIsObject, SessionsAssumption
  <2>3. CASE /\ objs'[o].peer \in Remotes /\ objs'[o].in # "free"
             /\ objs'[o].gen <= gen'[objs'[o].peer]
    BY <2>3, SessionsAssumption
  <2> QED  BY <2>1, <2>2, <2>3
<1> QED  BY <1>1 DEF ObjsKnown

LEMMA ObjsStayKnown ==
  ASSUME IInv, [Next]_vars
  PROVE  ObjsKnown'
<1>0. /\ TypeOK /\ NumbersGiven /\ InboxSettled /\ ObjsKnown /\ gen' \in [Remotes -> Nat]
      /\ \A q \in Remotes : gen[q] <= gen'[q]
      /\ Peers \subseteq Remotes /\ Names \subseteq Remotes
  BY HistoryStaysTyped DEF IInv, HistoryTyped, Remotes
<1>1. ASSUME NEW p \in Remotes, NEW n, Made(p, n), Renewed(p) PROVE ObjsKnown'
  <2>1. gen'[p] = GenOf(p) /\ GenOf(p) \in Nat
    BY <1>0, <1>1, EntryKnown DEF Renewed, TypeOK
  <2> QED  BY <1>0, <1>1, <2>1, KnownIf DEF Made
<1>2. ASSUME \A o \in Objs : Alike(objs'[o], objs[o]) \/ objs'[o] = Free PROVE ObjsKnown'
  BY <1>0, <1>2, KnownIf
<1>u. ASSUME UNCHANGED objs PROVE ObjsKnown'
  BY <1>2, <1>u DEF Alike
<1>s. ASSUME NEW p, Spared(p) PROVE ObjsKnown'
  BY <1>2, <1>s DEF Spared
<1>3. CASE AboutAnnouncement
  BY <1>0, <1>1, <1>3, AnnouncementDoes DEF Grow
<1>4. CASE FoundAdvertisedName
  BY <1>0, <1>1, <1>u, <1>s, <1>4, FoundDoes DEF Grow, Gone
<1>5. CASE HandleJoinSessionReply
  BY <1>0, <1>2, <1>u, <1>5, ReplyDoes, NoneFresh DEF Answers, Made
<1>6. CASE HandleAcceptSession
  BY <1>0, <1>1, <1>6, AcceptDoes
<1>7. CASE SessionLost
  BY <1>0, <1>u, <1>s, <1>7, LostDoes DEF Gone
<1>8. CASE EndSessions
  BY <1>0, <1>2, <1>8, EndDoes
<1>9. ASSUME NEW o \in Objs, Finalize(o) PROVE ObjsKnown'
  <2>1. ASSUME Freed(o) PROVE ObjsKnown'
    BY <1>2, <2>1 DEF Freed, Alike
  <2> QED  BY <1>0, <1>s, <1>9, <2>1, FinalizeDoes DEF Gone
<1>10. ASSUME NEW o \in Objs, EnableSecurity(o) PROVE ObjsKnown'
  <2>1. \A x \in Objs : Alike(objs'[x], objs[x])
    <3>1. \A x \in Objs : objs[x] \in Object
      BY <1>0 DEF TypeOK
    <3> QED  BY <1>10, <3>1 DEF EnableSecurity, Alike, Object
  <2> QED  BY <1>2, <2>1
<1>11. CASE Securing \/ Sending \/ UNCHANGED vars
  BY <1>u, <1>10, <1>11 DEF Securing, AuthCallback, ServiceSessions, Sending, BusAnnounce,
     BusFound, BusReply, BusConnect, BusLose, vars
<1> QED  BY <1>3, <1>4, <1>5, <1>6, <1>7, <1>8, <1>9, <1>11, NextCases

LEMMA ObjsFinite ==
  /\ IsFiniteSet(Objs) /\ Cardinality(Objs) = MaxObjs /\ MaxObjs \in Nat
  /\ \A S \in SUBSET Objs :
       IsFiniteSet(S) /\ Cardinality(S) \in Nat /\ Cardinality(S) <= MaxObjs
<1>1. MaxObjs \in Nat
  BY SessionsAssumption
<1>2. IsFiniteSet(Objs) /\ Cardinality(Objs) = MaxObjs
  BY <1>1, FS_Interval DEF Objs
<1>3. ASSUME NEW S \in SUBSET Objs
      PROVE  IsFiniteSet(S) /\ Cardinality(S) \in Nat /\ Cardinality(S) <= MaxObjs
  BY <1>2, FS_Subset, FS_CardinalityType
<1> QED  BY <1>1, <1>2, <1>3

\* As many unused objects as are asked for, if there are.
LEMMA FreshCount ==
  ASSUME NEW n \in 0..1, CanCreate(n)
  PROVE  Cardinality(Fresh(n)) = n /\ Fresh(n) \subseteq Unused /\ Fresh(n) \subseteq Objs
<1>1. Fresh(n) \subseteq Unused /\ Unused \subseteq Objs
  BY DEF Fresh, Unused
<1>2. CASE n = 0
  BY <1>1, <1>2, NoneFresh, FS_EmptySet
<1>3. CASE n = 1
  <2>1. Unused # {}
    BY <1>3, FS_EmptySet DEF CanCreate
  <2>2. Unused \subseteq Nat
    BY <1>1 DEF Objs
  <2>3. PICK m \in Unused : \A x \in Unused : ~(<<x, m>> \in OpToRel(<, Nat))
    BY <2>1, <2>2, NatLessThanWellFounded, WFMin, Zenon
  <2>4. \A x \in Unused : <<x, m>> \in Nat \X Nat /\ <<x, m>>[1] = x /\ <<x, m>>[2] = m
    BY <2>2
  <2>5. \A x \in Unused : ~(x < m)
    BY <2>3, <2>4, Zenon DEF OpToRel
  <2>6. {x \in Unused : x < m} = {}
    BY <2>5
  <2>7. ASSUME NEW o \in Unused, o # m
        PROVE  ~(Cardinality({x \in Unused : x < o}) < 1)
    <3>1. m < o
      BY <2>2, <2>5, <2>7
    <3> DEFINE S == {x \in Unused : x < o}
    <3>2. m \in S /\ S \in SUBSET Objs
      BY <1>1, <3>1
    <3>3. IsFiniteSet(S) /\ Cardinality(S) \in Nat
      BY <3>2, ObjsFinite
    <3>4. Cardinality(S) # 0
      BY <3>2, <3>3, FS_EmptySet
    <3> QED  BY <3>3, <3>4
  <2>8. Fresh(1) = {m}
    BY <2>6, <2>7, FS_EmptySet DEF Fresh
  <2> QED  BY <1>1, <1>3, <2>8, FS_Singleton
<1> QED  BY <1>2, <1>3

Exact(p) == ~Flawed("stale", p) =>
  sessions[p].refCount = Cardinality(ObjsOf(p)) + sessions[p].inbound

\* The objects of the entry that p has, if it has one.
OfEntry(p) == IF p \in Listed THEN ObjsOf(p) ELSE {}

LEMMA ExactIfOnly ==
  ASSUME RefCountExact, flaws \subseteq flaws', NEW p, Only(p),
         \A q \in Listed \ {p} : ObjsOf(q)' = ObjsOf(q),
         p \in Listed' => Exact(p)'
  PROVE  RefCountExact'
<1>1. ASSUME NEW q \in Listed', q # p PROVE Exact(q)'
  <2>1. q \in Listed /\ sessions'[q] = sessions[q] /\ ObjsOf(q)' = ObjsOf(q)
    BY <1>1 DEF Only
  <2>2. ~Flawed("stale", q)' => ~Flawed("stale", q)
    BY DEF Flawed
  <2> QED  BY <2>1, <2>2 DEF RefCountExact, Exact
<1> QED  BY <1>1 DEF RefCountExact, Exact

LEMMA ExactIfAlike ==
  ASSUME RefCountExact, flaws \subseteq flaws', UNCHANGED <<sessions, gen>>,
         \A o \in Objs : Alike(objs'[o], objs[o])
  PROVE  RefCountExact'
<1>1. \A q : ObjsOf(q)' = ObjsOf(q)
  BY DEF ObjsOf, Alike
<1> QED  BY <1>1 DEF RefCountExact, Flawed, Listed

LEMMA EntryExact ==
  ASSUME TypeOK, NumbersGiven, RefCountExact, NEW p \in Remotes, ~Flawed("stale", p)
  PROVE  /\ Entry(p).refCount = Cardinality(OfEntry(p)) + Entry(p).inbound
         /\ Cardinality(OfEntry(p)) \in Nat /\ Entry(p).inbound \in Nat
<1>1. Cardinality(OfEntry(p)) \in Nat
  BY ObjsFinite, FS_EmptySet DEF OfEntry, ObjsOf
<1>2. Entry(p).inbound \in Nat
  BY EntryKnown DEF SessionInfo
<1> QED  BY <1>1, <1>2, FS_EmptySet DEF Entry, NewEntry, OfEntry, RefCountExact

\* New objects are of the entry of p, and of no other.
LEMMA MadeOf ==
  ASSUME TypeOK, NumbersGiven, ObjsKnown, NEW p \in Remotes, NEW n \in 0..1, CanCreate(n),
         Made(p, n), Renewed(p)
  PROVE  /\ \A q \in Listed \ {p} : ObjsOf(q)' = ObjsOf(q)
         /\ Cardinality(ObjsOf(p)') = Cardinality(OfEntry(p)) + n
<1>1. /\ gen' = [gen EXCEPT ![p] = GenOf(p)] /\ gen \in [Remotes -> Nat]
      /\ GenOf(p) = (IF p \in Listed THEN gen[p] ELSE gen[p] + 1) /\ Listed \subseteq Remotes
      /\ objs \in [Objs -> Object]
  BY DEF Renewed, TypeOK, GenOf
<1>2. \A o \in Fresh(n) : o \in Objs /\ objs[o].peer = None
  BY FreshCount DEF ObjsKnown, Unused
<1>3. None \notin Remotes
  BY SessionsAssumption
<1>4. ASSUME NEW q \in Listed, q # p PROVE ObjsOf(q)' = ObjsOf(q)
  <2>1. gen'[q] = gen[q] /\ q # None
    BY <1>1, <1>3, <1>4
  <2> QED  BY <1>2, <1>4, <2>1 DEF Made, Alike, ObjsOf
<1>5. gen'[p] = GenOf(p)
  BY <1>1
<1>6. ObjsOf(p)' = OfEntry(p) \union Fresh(n)
  <2>1. ASSUME NEW o \in Objs, o \notin Fresh(n), objs[o].peer = p
        PROVE  objs[o].gen = GenOf(p) <=> p \in Listed /\ objs[o].gen = gen[p]
    <3>1. objs[o].gen <= gen[p] /\ objs[o].gen \in Nat /\ gen[p] \in Nat
      BY <1>1, <2>1 DEF ObjsKnown, Object
    <3> QED  BY <1>1, <3>1
  <2>2. ASSUME NEW o \in Objs PROVE o \in ObjsOf(p)' <=> o \in OfEntry(p) \union Fresh(n)
    <3>1. CASE o \in Fresh(n)
      BY <1>5, <3>1 DEF Made, ObjsOf
    <3>2. CASE o \notin Fresh(n)
      <4>1. objs'[o].peer = objs[o].peer /\ objs'[o].gen = objs[o].gen
        BY <3>2 DEF Made, Alike
      <4>2. o \in ObjsOf(p)' <=> objs[o].peer = p /\ objs[o].gen = GenOf(p)
        BY <1>5, <4>1 DEF ObjsOf
      <4> QED  BY <2>1, <3>2, <4>2 DEF OfEntry, ObjsOf
    <3> QED  BY <3>1, <3>2
  <2>3. ObjsOf(p)' \subseteq Objs /\ OfEntry(p) \subseteq Objs
    BY DEF ObjsOf, OfEntry
  <2> QED  BY <1>2, <2>2, <2>3
<1>7. /\ Cardinality(Fresh(n)) = n /\ Fresh(n) \subseteq Objs /\ OfEntry(p) \subseteq Objs
      /\ OfEntry(p) \intersect Fresh(n) = {}
  <2>1. \A o \in OfEntry(p) : objs[o].peer = p
    BY DEF OfEntry, ObjsOf
  <2> QED  BY <1>2, <1>3, <2>1, FreshCount DEF OfEntry, ObjsOf
<1>8. Cardinality(OfEntry(p) \union Fresh(n)) = Cardinality(OfEntry(p)) + n
  <2>1. IsFiniteSet(OfEntry(p)) /\ IsFiniteSet(Fresh(n)) /\ Cardinality(OfEntry(p)) \in Nat
    BY <1>7, ObjsFinite
  <2>2. Cardinality(OfEntry(p) \union Fresh(n))
          = Cardinality(OfEntry(p)) + Cardinality(Fresh(n))
            - Cardinality(OfEntry(p) \intersect Fresh(n))
    BY <2>1, FS_Union
  <2>3. Cardinality(OfEntry(p) \intersect Fresh(n)) = 0
    BY <1>7, FS_EmptySet
  <2> QED  BY <1>7, <2>1, <2>2, <2>3
<1> QED  BY <1>4, <1>6, <1>8

\* A count that is exact does not wrap around.
LEMMA InRange ==
  ASSUME Small, TypeOK, NEW c \in Nat, c <= MaxObjs, NEW i \in Nat, i <= MaxSerial
  PROVE  (c + i) % Width = c + i
<1>1. c + i \in Nat /\ c + i < Width /\ Width \in Nat \ {0}
  BY SessionsAssumption, WidthIs DEF Small
<1> QED  BY <1>1

\* New objects are counted, and a session that is accepted.
LEMMA ExactIfCounted ==
  ASSUME Small, TypeOK, NumbersGiven, ObjsKnown, RefCountExact, flaws \subseteq flaws',
         NEW p \in Remotes, NEW n \in 0..1, CanCreate(n), Made(p, n), Renewed(p), Only(p),
         p \in Listed' =>
           \/ /\ sessions'[p].refCount = (Entry(p).refCount + n) % Width
              /\ sessions'[p].inbound = Entry(p).inbound
           \/ /\ sessions'[p].refCount = (((Entry(p).refCount + n) % Width) + 1) % Width
              /\ sessions'[p].inbound = Entry(p).inbound + 1
              /\ Entry(p).inbound < MaxSerial
  PROVE  RefCountExact'
<1>1. /\ \A q \in Listed \ {p} : ObjsOf(q)' = ObjsOf(q)
      /\ Cardinality(ObjsOf(p)') = Cardinality(OfEntry(p)) + n
  BY MadeOf
<1>2. Cardinality(ObjsOf(p)') \in Nat /\ Cardinality(ObjsOf(p)') <= MaxObjs
  BY ObjsFinite DEF ObjsOf
<1>3. Entry(p).inbound \in Nat /\ Entry(p).inbound <= MaxSerial /\ MaxSerial \in Nat
  <2>1. Entry(p).inbound \in Nat /\ Entry(p).inbound <= serial
    BY EntryKnown DEF SessionInfo
  <2> QED  BY <2>1, SerialIs
<1>4. ASSUME p \in Listed', ~Flawed("stale", p)'
      PROVE  sessions'[p].refCount = Cardinality(ObjsOf(p)') + sessions'[p].inbound
  <2>1. ~Flawed("stale", p)
    BY <1>4 DEF Flawed
  <2>2. /\ Entry(p).refCount = Cardinality(OfEntry(p)) + Entry(p).inbound
        /\ Cardinality(OfEntry(p)) \in Nat
    BY <2>1, EntryExact
  <2>3. PICK c \in Nat, i \in Nat :
          c = Cardinality(ObjsOf(p)') /\ i = Entry(p).inbound /\ c <= MaxObjs /\ i <= MaxSerial
    BY <1>2, <1>3
  <2>4. Entry(p).refCount + n = c + i
    BY <1>1, <2>2, <2>3
  <2>5. (Entry(p).refCount + n) % Width = c + i
    BY <2>3, <2>4, InRange
  <2>6. CASE /\ sessions'[p].refCount = (Entry(p).refCount + n) % Width
             /\ sessions'[p].inbound = Entry(p).inbound
    BY <2>3, <2>5, <2>6
  <2>7. CASE /\ sessions'[p].refCount = (((Entry(p).refCount + n) % Width) + 1) % Width
             /\ sessions'[p].inbound = Entry(p).inbound + 1
             /\ Entry(p).inbound < MaxSerial
    <3>1. i + 1 \in Nat /\ i + 1 <= MaxSerial /\ c + i + 1 = c + (i + 1)
      BY <1>3, <2>3, <2>7
    <3>2. (c + (i + 1)) % Width = c + (i + 1)
      BY <2>3, <3>1, InRange
    <3> QED  BY <2>3, <2>5, <2>7, <3>1, <3>2
  <2> QED  BY <1>4, <2>6, <2>7
<1>5. p \in Listed' => Exact(p)'
  BY <1>4 DEF Exact
<1> QED  BY <1>1, <1>5, ExactIfOnly

\* If the entry of a remote is gone, so are only objects of it.
LEMMA ExactIfGone ==
  ASSUME TypeOK, RefCountExact, flaws \subseteq flaws', UNCHANGED gen, NEW p, Gone(p)
  PROVE  RefCountExact'
<1>1. ASSUME NEW q \in Listed, q # p PROVE ObjsOf(q)' = ObjsOf(q)
  <2>1. q # None
    BY SessionsAssumption DEF TypeOK
  <2> QED  BY <1>1, <2>1, FreeIsObject DEF Gone, Spared, Alike, ObjsOf
<1> QED  BY <1>1, ExactIfOnly DEF Gone

LEMMA CountsStayExact ==
  ASSUME Small, IInv, [Next]_vars
  PROVE  RefCountExact'
<1>0. /\ TypeOK /\ NumbersGiven /\ InboxSettled /\ ObjsKnown /\ RefCountExact
      /\ flaws \subseteq flaws' /\ Peers \subseteq Remotes /\ Names \subseteq Remotes
      /\ Listed \subseteq Remotes
  BY FlawsLast DEF IInv, Remotes, TypeOK
<1>g. ASSUME NEW p \in Remotes, NEW n \in 0..1, Grow(p, n) PROVE RefCountExact'
  BY <1>0, <1>g, ExactIfCounted DEF Grow, Grown
<1>1. CASE AboutAnnouncement
  BY <1>0, <1>g, <1>1, AnnouncementDoes
<1>2. CASE FoundAdvertisedName
  <2>1. CASE \E p \in Names : Grow(p, 1)
    BY <1>0, <1>g, <2>1
  <2>2. CASE \E q : Gone(q) /\ UNCHANGED gen
    BY <1>0, <2>2, ExactIfGone
  <2>3. CASE UNCHANGED <<entries, objs>>
    BY <1>0, <2>3, ExactIfAlike DEF entries, Alike
  <2> QED  BY <1>0, <1>2, <2>1, <2>2, <2>3, FoundDoes
<1>3. CASE HandleJoinSessionReply
  <2>1. UNCHANGED gen
    BY <1>3 DEF HandleJoinSessionReply
  <2>2. ASSUME NEW p \in Remotes, Answers(p) PROVE RefCountExact'
    <3>1. \A q : ObjsOf(q)' = ObjsOf(q)
      BY <2>1, <2>2, NoneFresh DEF Answers, Made, Alike, ObjsOf
    <3>2. Only(p) /\ Exact(p)'
      BY <1>0, <2>2, <3>1 DEF Answers, Exact, RefCountExact, Flawed
    <3> QED  BY <1>0, <3>1, <3>2, ExactIfOnly
  <2> QED  BY <1>0, <1>3, <2>1, <2>2, ReplyDoes, ExactIfAlike DEF Alike
<1>4. CASE HandleAcceptSession
  <2>1. PICK p \in Remotes, n \in 0..1 :
          /\ CanCreate(n) /\ Made(p, n) /\ Renewed(p)
          /\ \/ Accepts(p, n)
             \/ Grown(p, n)
             \/ Only(p) /\ Listed' = Listed \ {p}
    BY <1>0, <1>4, AcceptDoes
  <2>2. CASE Accepts(p, n)
    <3>1. Entry(p).inbound < MaxSerial
      <4>1. sessions'[p].inbound <= serial' /\ p \in Listed' /\ serial' = serial
        BY <1>0, <1>4, <2>2, AcceptSettled DEF Accepts, NumbersGiven, HandleAcceptSession
      <4>2. Entry(p).inbound + 1 <= serial /\ Entry(p).inbound \in Nat
        BY <1>0, <2>2, <4>1, EntryKnown DEF Accepts, SessionInfo
      <4> QED  BY <1>0, <4>2, SerialIs
    <3> QED  BY <1>0, <2>1, <2>2, <3>1, ExactIfCounted DEF Accepts
  <2>3. CASE Grown(p, n)
    BY <1>0, <2>1, <2>3, ExactIfCounted DEF Grown
  <2>4. CASE Only(p) /\ Listed' = Listed \ {p}
    BY <1>0, <2>1, <2>4, ExactIfCounted
  <2> QED  BY <2>1, <2>2, <2>3, <2>4
<1>5. CASE SessionLost
  <2>1. UNCHANGED gen
    BY <1>5 DEF SessionLost
  <2> QED  BY <1>0, <1>5, <2>1, LostDoes, ExactIfAlike, ExactIfGone DEF Alike
<1>6. CASE EndSessions
  BY <1>0, <1>6, EndDoes DEF RefCountExact
<1>7. ASSUME NEW o \in Objs, Finalize(o) PROVE RefCountExact'
  <2>1. UNCHANGED gen
    BY <1>7 DEF Finalize
  <2>2. PICK p \in Remotes :
          /\ p = objs[o].peer
          /\ \/ p \notin Listed /\ Freed(o) /\ UNCHANGED sessions
             \/ Uncounts(p) /\ Freed(o) /\ Stale(o, p)
             \/ Gone(p)
    BY <1>0, <1>7, FinalizeDoes
  <2>3. ASSUME Freed(o) PROVE \A q \in Listed \ {p} : ObjsOf(q)' = ObjsOf(q)
    <3>1. \A q \in Listed : q # None
      BY <1>0, SessionsAssumption
    <3> QED  BY <2>1, <2>2, <2>3, <3>1, FreeIsObject DEF Freed, ObjsOf
  <2>4. CASE p \notin Listed /\ Freed(o) /\ UNCHANGED sessions
    <3>1. Only(p) /\ p \notin Listed'
      BY <2>4 DEF Only, Listed
    <3> QED  BY <1>0, <2>3, <2>4, <3>1, ExactIfOnly
  <2>5. CASE Uncounts(p) /\ Freed(o) /\ Stale(o, p)
    <3>1. ASSUME ~Flawed("stale", p)'
          PROVE  sessions'[p].refCount = Cardinality(ObjsOf(p)') + sessions'[p].inbound
      <4>1. ~Flawed("stale", p) /\ objs[o].gen = gen[p]
        BY <1>0, <2>5, <3>1 DEF Flawed, Stale, Flaw
      <4>2. o \in ObjsOf(p) /\ p # None
        BY <2>2, <4>1, SessionsAssumption DEF ObjsOf
      <4>3. ObjsOf(p)' = ObjsOf(p) \ {o}
        BY <2>1, <2>5, <4>2, FreeIsObject DEF Freed, ObjsOf
      <4>4. ObjsOf(p) \subseteq Objs /\ IsFiniteSet(ObjsOf(p)) /\ Cardinality(ObjsOf(p)) \in Nat
            /\ Cardinality(ObjsOf(p)) <= MaxObjs
        BY ObjsFinite DEF ObjsOf
      <4>5. Cardinality(ObjsOf(p)') = Cardinality(ObjsOf(p)) - 1
            /\ Cardinality(ObjsOf(p)') \in Nat
        <5>1. Cardinality(ObjsOf(p) \ {o}) = Cardinality(ObjsOf(p)) - 1
          BY <4>2, <4>4, FS_RemoveElement
        <5>2. Cardinality(ObjsOf(p) \ {o}) \in Nat
          BY <4>4, ObjsFinite
        <5> QED  BY <4>3, <5>1, <5>2
      <4>6. /\ sessions[p].refCount = Cardinality(ObjsOf(p)) + sessions[p].inbound
            /\ sessions[p].inbound \in Nat /\ sessions[p].inbound <= MaxSerial
        <5>1. p \in Listed
          BY <2>5 DEF Uncounts
        <5>2. sessions[p].inbound <= serial /\ sessions[p].inbound \in Nat
          BY <1>0, <5>1 DEF NumbersGiven, TypeOK, SessionInfo
        <5>3. sessions[p].refCount = Cardinality(ObjsOf(p)) + sessions[p].inbound
          BY <1>0, <4>1, <5>1 DEF RefCountExact
        <5> QED  BY <1>0, <5>2, <5>3, SerialIs
      <4>7. PICK c \in Nat, i \in Nat :
              /\ c = Cardinality(ObjsOf(p)') /\ i = sessions[p].inbound
              /\ c <= MaxObjs /\ i <= MaxSerial /\ sessions[p].refCount - 1 = c + i
        BY <4>4, <4>5, <4>6, SessionsAssumption
      <4>8. Decremented(sessions[p].refCount) = c + i
        BY <1>0, <4>7, InRange DEF Decremented
      <4> QED  BY <2>5, <4>7, <4>8 DEF Uncounts
    <3>2. Exact(p)'
      BY <3>1 DEF Exact
    <3> QED  BY <1>0, <2>3, <2>5, <3>2, ExactIfOnly DEF Uncounts
  <2> QED  BY <1>0, <2>1, <2>2, <2>4, <2>5, ExactIfGone
<1>8. ASSUME NEW o \in Objs, EnableSecurity(o) PROVE RefCountExact'
  <2>1. \A x \in Objs : Alike(objs'[x], objs[x])
    <3>1. \A x \in Objs : objs[x] \in Object
      BY <1>0 DEF TypeOK
    <3> QED  BY <1>8, <3>1 DEF EnableSecurity, Alike, Object
  <2> QED  BY <1>0, <1>8, <2>1, ExactIfAlike DEF EnableSecurity, entries
<1>9. CASE Securing \/ Sending \/ UNCHANGED vars
  <2>1. UNCHANGED objs \/ \E o \in Objs : EnableSecurity(o)
    BY <1>9 DEF Securing, AuthCallback, ServiceSessions, Sending, BusAnnounce,
       BusFound, BusReply, BusConnect, BusLose, vars
  <2> QED  BY <1>0, <1>8, <1>9, <2>1, OutsideEntries, ExactIfAlike DEF Alike
<1> QED  BY <1>1, <1>2, <1>3, <1>4, <1>5, <1>6, <1>7, <1>9, NextCases

-----------------------------------------------------------------------------
(* The invariant and the properties                                        *)

LEMMA InitInvariant == Init => IInv
<1> SUFFICES ASSUME Init PROVE IInv
  OBVIOUS
<1>1. /\ Listed = {} /\ DOMAIN calls = {} /\ DOMAIN live = {} /\ inbox = <<>> /\ serial = 0
      /\ objs = [o \in Objs |-> Free] /\ gen = [p \in Remotes |-> 0] /\ flaws = {}
      /\ auth = [p \in Remotes |-> "AUTH_ERROR"] /\ asked = <<>> /\ msgs = 0
      /\ granted = [p \in Remotes |-> 0] /\ called = [p \in Remotes |-> 0]
  BY DEF Init, NoMap, Listed
<1>2. MaxSerial \in Nat /\ MaxInbox \in Nat /\ MaxMsgs \in Nat /\ None \notin Remotes
  BY SessionsAssumption
<1>3. inbox \in Seq(Message) /\ Len(inbox) = 0 /\ asked \in Seq(Remotes)
  BY <1>1
<1>4. SessionsTyped /\ ObjsTyped /\ HistoryTyped /\ AuthTyped /\ BusTyped
  BY <1>1, <1>2, <1>3, FreeIsObject DEF SessionsTyped, ObjsTyped, HistoryTyped, AuthTyped,
     AuthStatus, BusTyped, Serials
<1>5. InboxSettled
  <2>1. Indices = {}
    BY <1>3 DEF Indices
  <2> QED  BY <1>3, <2>1 DEF InboxSettled
<1>6. NumbersGiven /\ EntriesSettled /\ SessionsTracked /\ RefCountExact
  BY <1>1 DEF NumbersGiven, EntriesSettled, SessionsTracked, RefCountExact
<1>7. ObjsKnown
  BY <1>1, <1>2, FreeIsObject DEF ObjsKnown
<1>8. CallsOwed
  BY <1>1 DEF CallsOwed, Owed
<1> QED  BY <1>4, <1>5, <1>6, <1>7, <1>8, TypesSplit DEF IInv

\* The conjunction that the three properties need is an invariant.
THEOREM Invariance == Spec => []IInv
<1>1. IInv /\ [Next]_vars => IInv'
  <2> SUFFICES ASSUME IInv, [Next]_vars PROVE IInv'
    OBVIOUS
  <2>1. TypeOK /\ NumbersGiven /\ InboxSettled /\ ObjsKnown /\ EntriesSettled
    BY DEF IInv
  <2>2. Small' <=> Small
    BY DEF Small
  <2> QED  BY <2>1, <2>2, TypesStay, NumbersStay, EntriesStaySettled, SessionsStayTracked,
       ObjsStayKnown, CountsStayExact, AuthStays DEF IInv
<1> QED  BY <1>1, InitInvariant, PTL DEF Spec

\* The variables of the session code keep their types.
THEOREM TypeCorrect == Spec => []TypeOK
<1>1. IInv => TypeOK
  BY DEF IInv
<1> QED  BY <1>1, Invariance, PTL

\* No session leaks: the entry of a remote knows its join calls and its sessions, unless
\* both sides opened one or the entry was deleted under it.
THEOREM NoSessionLeaks == Spec => []SessionsTracked
<1>1. IInv => SessionsTracked
  BY DEF IInv
<1> QED  BY <1>1, Invariance, PTL

\* The count that the finalizers of service objects go by is exact, while there are fewer
\* objects and sessions than a count of 16 bits can tell apart and no object outlived
\* its entry.
THEOREM CountsAreExact == Small => (Spec => []RefCountExact)
<1> SUFFICES ASSUME Small PROVE Spec => []RefCountExact
  OBVIOUS
<1>1. IInv => RefCountExact
  BY DEF IInv
<1> QED  BY <1>1, Invariance, PTL

\* The script is told at most once of each authentication that succeeded.
THEOREM ToldAtMostOnce == Spec => []ToldOnce
<1>1. IInv => ToldOnce
  <2> SUFFICES ASSUME IInv PROVE ToldOnce
    OBVIOUS
  <2>1. \A p \in Remotes : called[p] \in Nat /\ granted[p] \in Nat
    BY DEF IInv, TypeOK
  <2> QED  BY <2>1, OwedIs DEF IInv, CallsOwed, ToldOnce
<1> QED  BY <1>1, Invariance, PTL
=============================================================================
