------------------------------ MODULE Sessions ------------------------------
(***************************************************************************)
(* Sessions with remote peers (src/src/ajs_sessions.c): announcements and  *)
(* found names lead to a join, the reply to the join hands the peer's      *)
(* service objects to the script, peers may open a session themselves, and *)
(* a session is left when the finalizer of its last service object runs.   *)
(*                                                                         *)
(* The bus is external: it answers join calls in any order, loses sessions *)
(* and delivers its messages in the order it sent them.  A session joined  *)
(* by the call with serial n is numbered n, and the ids of sessions that   *)
(* peers open are drawn from the same counter.                             *)
(***************************************************************************)
EXTENDS Integers, Sequences, FiniteSets

CONSTANTS
  Peers,      \* unique names, which announce and connect
  Names,      \* advertised names the script looks for
  PrefixOf,   \* the prefix that each of Names is looked for by
  MaxObjs,    \* bound: the service objects that exist at a time
  MaxSerial,  \* bound: join calls and sessions opened by peers
  MaxMsgs,    \* bound: announcements and found names
  MaxInbox,   \* bound: messages of the bus on their way
  MaxSecure   \* bound: calls of enableSecurity

Remotes == Peers \union Names
Objs == 1..MaxObjs
Serials == 0..MaxSerial
None == "none"

ASSUME SessionsAssumption ==
  /\ None \notin Remotes /\ Peers \intersect Names = {} /\ DOMAIN PrefixOf = Names
  /\ MaxObjs \in Nat /\ MaxSerial \in Nat /\ MaxMsgs \in Nat
  /\ MaxInbox \in Nat /\ MaxSecure \in Nat

VARIABLES
  sessions,  \* the session table: remote -> entry
  objs,      \* the service objects
  gen,       \* history: per remote, the entries it has had
  flaws,     \* history: what happened to the entries of a remote
  auth,      \* per remote: status of its authentication
  asked,     \* authentications under way: one remote for each
  granted, called,  \* per remote: authentications that succeeded, callbacks made
  calls,     \* join calls the bus has not answered: serial -> remote
  live,      \* the sessions that the bus holds for us: id -> remote
  inbox,     \* messages of the bus on their way, the next one first
  serial,    \* the last serial or id given
  msgs       \* announcements and found names so far

entries == <<sessions, gen>>
authVars == <<auth, asked, granted, called>>
bus == <<calls, live, inbox, serial, msgs>>
vars == <<entries, objs, flaws, authVars, bus>>

AuthStatus == {"AUTHENTICATED", "NO_AUTH", "AUTHENTICATING", "AUTH_DONE", "AUTH_ERROR"}

\* "crossed": the remote opened a session while it had an entry; "dropped": the entry
\* was deleted under a join call or a session; "stale": a service object outlived its
\* entry and was finalized when there was a new one.
Flaws == {"crossed", "dropped", "stale"} \X Remotes

\* in: not allocated, waiting for the join, with the script, or in the peer's stash.
Object == [peer : Remotes \union {None}, gen : Nat, in : {"free", "anno", "script", "secured"}]
Free == [peer |-> None, gen |-> 0, in |-> "free"]

\* The count of an entry is 16 bits wide.
Width == 65536
UInt16 == 0..Width - 1

\* inbound is history: the sessions of the remote that were accepted into the entry.
SessionInfo == [refCount : UInt16, replySerial : Serials, sessionId : Serials, inbound : Nat]
NewEntry == [refCount |-> 0, replySerial |-> 0, sessionId |-> 0, inbound |-> 0]

Listed == DOMAIN sessions
NoMap == [x \in {} |-> 0]

TypeOK ==
  /\ Listed \subseteq Remotes /\ \A p \in Listed : sessions[p] \in SessionInfo
  /\ objs \in [Objs -> Object] /\ gen \in [Remotes -> Nat] /\ flaws \subseteq Flaws
  /\ auth \in [Remotes -> AuthStatus]
  /\ asked \in Seq(Remotes) /\ granted \in [Remotes -> Nat] /\ called \in [Remotes -> Nat]
  /\ DOMAIN calls \subseteq Serials /\ \A n \in DOMAIN calls : calls[n] \in Remotes
  /\ DOMAIN live \subseteq Serials /\ \A n \in DOMAIN live : live[n] \in Remotes
  /\ Len(inbox) <= MaxInbox /\ serial \in Serials /\ msgs \in 0..MaxMsgs

Init ==
  /\ sessions = NoMap /\ objs = [o \in Objs |-> Free]
  /\ gen = [p \in Remotes |-> 0] /\ flaws = {}
  /\ auth = [p \in Remotes |-> "AUTH_ERROR"] /\ asked = <<>>
  /\ granted = [p \in Remotes |-> 0] /\ called = [p \in Remotes |-> 0]
  /\ calls = NoMap /\ live = NoMap /\ inbox = <<>> /\ serial = 0 /\ msgs = 0

-----------------------------------------------------------------------------
(* The session table and the service objects                               *)

Drop(f, S) == [x \in DOMAIN f \ S |-> f[x]]
Put(f, k, v) == [x \in DOMAIN f \union {k} |-> IF x = k THEN v ELSE f[x]]

\* AllocSessionObject: the entry of p, a new one if it has none.
Entry(p) == IF p \in Listed THEN sessions[p] ELSE NewEntry
GenOf(p) == IF p \in Listed THEN gen[p] ELSE gen[p] + 1

\* n unused objects.
Unused == {o \in Objs : objs[o].in = "free"}
Fresh(n) == {o \in Unused : Cardinality({x \in Unused : x < o}) < n}
CanCreate(n) == n <= Cardinality(Unused)

\* Mutant: the objects are not counted.
Uncounted(e, n) == e

\* AddServiceObject, n times.
Counted(e, n) == [e EXCEPT !.refCount = (@ + n) % Width]

Created(p, n, in) ==
  [o \in Objs |-> IF o \in Fresh(n) THEN [peer |-> p, gen |-> GenOf(p), in |-> in] ELSE objs[o]]

\* The finalizers of the announcements of a deleted entry find no entry.
WithoutAnno(p) == [o \in Objs |-> IF objs[o].peer = p /\ objs[o].in = "anno" THEN Free ELSE objs[o]]

\* AnnouncementCallbacks: the service objects waiting are handed to the script, and
\* the authentication status of the peer starts anew.
AnnouncementCallbacks(p, os) ==
  /\ objs' = [o \in Objs |-> IF os[o].peer = p /\ os[o].in = "anno"
                             THEN [os[o] EXCEPT !.in = "script"] ELSE os[o]]
  /\ auth' = [auth EXCEPT ![p] =
                IF \E o \in Objs : os[o].peer = p /\ os[o].in = "anno" THEN "NO_AUTH" ELSE @]

Flawed(kind, p) == <<kind, p>> \in flaws
Flaw(kind, S) == flaws' = flaws \union ({kind} \X S)

\* AJ_BusJoinSession: the call is sent and its serial noted.
JoinSession(p, e) ==
  /\ serial < MaxSerial /\ serial' = serial + 1
  /\ calls' = Put(calls, serial', p)
  /\ sessions' = Put(sessions, p, [e EXCEPT !.replySerial = serial'])

NoJoin(table) == sessions' = table /\ UNCHANGED <<serial, calls>>

-----------------------------------------------------------------------------
(* The handlers of the messages from the bus                               *)

Handling(type) == inbox # <<>> /\ Head(inbox).type = type /\ inbox' = Tail(inbox)
Msg == Head(inbox)

\* Mutant: a join in progress is not noticed.
JoinsAgain(e) == e.sessionId = 0 /\ e.refCount # 0

MustJoin(e) == e.sessionId = 0 /\ e.replySerial = 0 /\ e.refCount # 0

\* n of the objects announced have a callback.  After a message that does not parse
\* and after a failed join the entry remains: the code deletes the sender's property
\* of the wrong object.
AboutAnnouncement == \E n \in 0..1 :
  LET p == Msg.peer
      e == Counted(Entry(p), n)
      os == Created(p, n, "anno")
      parses == Msg.parses
  IN
  /\ Handling("announce") /\ CanCreate(n)
  /\ gen' = [gen EXCEPT ![p] = GenOf(p)]
  /\ \/ /\ parses /\ e.sessionId # 0
        /\ AnnouncementCallbacks(p, os) /\ NoJoin(Put(sessions, p, e))
     \/ /\ parses /\ MustJoin(e)
        /\ JoinSession(p, e) \/ NoJoin(Put(sessions, p, e))
        /\ objs' = os /\ UNCHANGED auth
     \/ /\ ~parses \/ (e.sessionId = 0 /\ ~MustJoin(e))
        /\ NoJoin(Put(sessions, p, e))
        /\ objs' = os /\ UNCHANGED auth
  /\ UNCHANGED <<flaws, asked, granted, called, live, msgs>>

\* A listed name is ignored; a failed join deletes the entry of the prefix.
FoundAdvertisedName ==
  LET p == Msg.peer
      q == PrefixOf[p]
  IN
  /\ Handling("found")
  /\ \/ /\ p \in Listed
        /\ UNCHANGED <<entries, objs, serial, calls, flaws>>
     \/ /\ p \notin Listed /\ CanCreate(1)
        /\ JoinSession(p, Counted(NewEntry, 1))
        /\ objs' = Created(p, 1, "anno") /\ gen' = [gen EXCEPT ![p] = GenOf(p)]
        /\ UNCHANGED flaws
     \/ /\ p \notin Listed
        /\ NoJoin(Drop(sessions, {q}))
        /\ objs' = WithoutAnno(q) /\ Flaw("dropped", {q} \intersect Listed)
        /\ UNCHANGED gen
  /\ UNCHANGED <<authVars, live, msgs>>

\* Mutant: a failed reply leaves the join in progress.
AnsweredIfJoined(e, id) ==
  IF id = 0 THEN e ELSE [e EXCEPT !.sessionId = id, !.replySerial = 0]

\* A reply with the id of the session, or 0 if the join failed.
Answered(e, id) == [e EXCEPT !.sessionId = IF id = 0 THEN @ ELSE id, !.replySerial = 0]

HandleJoinSessionReply ==
  LET waiting == {p \in Listed : sessions[p].replySerial = Msg.serial} IN
  /\ Handling("reply")
  /\ \/ waiting = {} /\ UNCHANGED <<sessions, objs, auth>>
     \/ \E p \in waiting :
          /\ sessions' = [sessions EXCEPT ![p] = Answered(@, Msg.id)]
          /\ IF Msg.id = 0 THEN UNCHANGED <<objs, auth>> ELSE AnnouncementCallbacks(p, objs)
  /\ UNCHANGED <<gen, flaws, asked, granted, called, calls, live, serial, msgs>>

\* The script may have a callback that gets a service object, which it keeps or not,
\* and that may reject the session.  A session accepted is counted, and never uncounted.
HandleAcceptSession == \E kept \in 0..1 :
  LET p == Msg.peer
      e == Counted(Entry(p), kept)
  IN
  /\ Handling("accept") /\ CanCreate(kept)
  /\ gen' = [gen EXCEPT ![p] = GenOf(p)]
  /\ objs' = Created(p, kept, "script")
  /\ Flaw("crossed", {p} \intersect Listed)
  /\ \/ /\ sessions' = Put(sessions, p, [Counted(e, 1) EXCEPT !.inbound = @ + 1,
                                                              !.sessionId = Msg.id])
        /\ live' = Put(live, Msg.id, p)
     \/ /\ sessions' = IF e.refCount = 0 THEN Drop(sessions, {p}) ELSE Put(sessions, p, e)
        /\ UNCHANGED live
  /\ UNCHANGED <<authVars, calls, serial, msgs>>

\* RemoveSessions for one session: it is left as well.
SessionLost ==
  LET lost == {p \in Listed : sessions[p].sessionId = Msg.id} IN
  /\ Handling("lost")
  /\ \/ lost = {} /\ UNCHANGED <<sessions, objs>>
     \/ \E p \in lost : sessions' = Drop(sessions, {p}) /\ objs' = WithoutAnno(p)
  /\ UNCHANGED <<gen, flaws, authVars, calls, live, serial, msgs>>

\* RemoveSessions for all of them, when the console starts to install a script.
EndSessions ==
  /\ Listed # {}
  /\ live' = Drop(live, {sessions[p].sessionId : p \in Listed})
  /\ sessions' = NoMap
  /\ objs' = [o \in Objs |-> IF objs[o].in = "anno" THEN Free ELSE objs[o]]
  /\ Flaw("dropped", {p \in Listed : sessions[p].replySerial # 0})
  /\ UNCHANGED <<gen, authVars, calls, inbox, serial, msgs>>

-----------------------------------------------------------------------------
(* The service objects of the script                                       *)

\* Mutant: the count is signed.
SignedDecrement(n) == n - 1

Decremented(n) == (n - 1) % Width

\* NativeServiceObjectFinalizer: it goes by the name of the peer, not by the entry that
\* the object was counted in, and fails if there is none.
Finalize(o) ==
  LET p == objs[o].peer
      n == Decremented(sessions[p].refCount)
      stale == {r \in {p} : objs[o].gen # gen[r]}
  IN
  /\ objs[o].in = "script"
  /\ \/ /\ p \notin Listed
        /\ objs' = [objs EXCEPT ![o] = Free]
        /\ UNCHANGED <<sessions, live, flaws>>
     \/ /\ p \in Listed /\ (n # 0 \/ sessions[p].sessionId = 0)
        /\ sessions' = [sessions EXCEPT ![p].refCount = n]
        /\ objs' = [objs EXCEPT ![o] = Free]
        /\ Flaw("stale", stale) /\ UNCHANGED live
     \/ /\ p \in Listed /\ n = 0 /\ sessions[p].sessionId # 0
        /\ sessions' = Drop(sessions, {p})
        /\ live' = Drop(live, {sessions[p].sessionId})
        /\ objs' = [WithoutAnno(p) EXCEPT ![o] = Free]
        /\ Flaw("stale", stale)
  /\ UNCHANGED <<gen, authVars, calls, inbox, serial, msgs>>

Asked(p) == Cardinality({k \in DOMAIN asked : asked[k] = p})

\* NativeEnableSecurity: the service object is kept in the stash of the peer, in place
\* of the one before, even if the authentication cannot be started.
EnableSecurity(o) ==
  LET p == objs[o].peer IN
  /\ objs[o].in \in {"script", "secured"}
  /\ Len(asked) + granted[p] < MaxSecure
  /\ objs' = [x \in Objs |->
       IF x = o THEN [objs[o] EXCEPT !.in = "secured"]
       ELSE IF objs[x].peer = p /\ objs[x].in = "secured" THEN [objs[x] EXCEPT !.in = "script"]
       ELSE objs[x]]
  /\ auth' = [auth EXCEPT ![p] = "AUTHENTICATING"]
  /\ asked' = Append(asked, p) \/ UNCHANGED asked
  /\ UNCHANGED <<entries, flaws, granted, called, bus>>

\* AuthCallback: the bus has finished the authentication of a peer.
AuthCallback(k) ==
  LET p == asked[k] IN
  /\ asked' = SubSeq(asked, 1, k - 1) \o SubSeq(asked, k + 1, Len(asked))
  /\ \/ /\ auth' = [auth EXCEPT ![p] = "AUTHENTICATED"]
        /\ granted' = [granted EXCEPT ![p] = @ + 1]
     \/ auth' = [auth EXCEPT ![p] = "AUTHENTICATING"] /\ UNCHANGED granted
  /\ UNCHANGED <<entries, objs, flaws, called, bus>>

\* Mutant: the status is left for the next loop.
StillAuthenticated(status) == status

Served(status) == "AUTH_DONE"

\* AJS_ServiceSessions: the callback of one authenticated peer that is listed.
ServiceSessions == \E p \in Listed :
  /\ auth[p] = "AUTHENTICATED"
  /\ auth' = [auth EXCEPT ![p] = Served(@)]
  /\ called' = [called EXCEPT ![p] = @ + 1]
  /\ UNCHANGED <<entries, objs, flaws, asked, granted, bus>>

-----------------------------------------------------------------------------
(* The bus and the remotes                                                 *)

Send(m) == Len(inbox) < MaxInbox /\ inbox' = Append(inbox, m)

BusAnnounce == \E p \in Peers, parses \in BOOLEAN :
  /\ msgs < MaxMsgs /\ msgs' = msgs + 1
  /\ Send([type |-> "announce", peer |-> p, parses |-> parses])
  /\ UNCHANGED <<entries, objs, flaws, authVars, calls, live, serial>>

BusFound == \E p \in Names :
  /\ msgs < MaxMsgs /\ msgs' = msgs + 1
  /\ Send([type |-> "found", peer |-> p])
  /\ UNCHANGED <<entries, objs, flaws, authVars, calls, live, serial>>

BusReply == \E n \in DOMAIN calls :
  /\ calls' = Drop(calls, {n})
  /\ \/ live' = Put(live, n, calls[n]) /\ Send([type |-> "reply", serial |-> n, id |-> n])
     \/ UNCHANGED live /\ Send([type |-> "reply", serial |-> n, id |-> 0])
  /\ UNCHANGED <<entries, objs, flaws, authVars, serial, msgs>>

BusConnect == \E p \in Peers :
  /\ serial < MaxSerial /\ serial' = serial + 1
  /\ Send([type |-> "accept", peer |-> p, id |-> serial'])
  /\ UNCHANGED <<entries, objs, flaws, authVars, calls, live, msgs>>

BusLose == \E id \in DOMAIN live :
  /\ live' = Drop(live, {id}) /\ Send([type |-> "lost", id |-> id])
  /\ UNCHANGED <<entries, objs, flaws, authVars, calls, serial, msgs>>

Handle ==
  \/ AboutAnnouncement \/ FoundAdvertisedName \/ HandleJoinSessionReply
  \/ HandleAcceptSession \/ SessionLost

Next ==
  \/ Handle \/ EndSessions \/ ServiceSessions
  \/ \E o \in Objs : Finalize(o) \/ EnableSecurity(o)
  \/ \E k \in DOMAIN asked : AuthCallback(k)
  \/ BusAnnounce \/ BusFound \/ BusReply \/ BusConnect \/ BusLose

Spec == Init /\ [][Next]_vars

\* The message loop goes on handling what arrives, and the bus answers its calls.
FairSpec == Spec /\ WF_vars(Handle) /\ WF_vars(BusReply)

-----------------------------------------------------------------------------
(* Properties                                                              *)

Undisturbed(p) == ~Flawed("crossed", p) /\ ~Flawed("dropped", p)

\* No session leaks: unless both sides opened one, or the entry was deleted under it,
\* the entry of a remote knows each of its join calls and each of its sessions that is
\* not still being answered.
Knows(p, n) == p \in Listed /\ n \in {sessions[p].replySerial, sessions[p].sessionId}

SessionsTracked ==
  /\ \A n \in DOMAIN calls : Undisturbed(calls[n]) => Knows(calls[n], n)
  /\ \A n \in DOMAIN live : Undisturbed(live[n]) => Knows(live[n], n)

\* The count of an entry is the service objects there are of it and the sessions it
\* accepted, unless an object of an earlier entry was finalized into it.
ObjsOf(p) == {o \in Objs : objs[o].peer = p /\ objs[o].gen = gen[p]}

RefCountExact == \A p \in Listed : ~Flawed("stale", p) =>
  sessions[p].refCount = Cardinality(ObjsOf(p)) + sessions[p].inbound

\* However announcements, connections and authentications interleave, the script is
\* told at most once of each authentication that succeeded.
ToldOnce == \A p \in Remotes : called[p] <= granted[p]

\* Services announced by a remote never wait for an answer that does not come: a join
\* in progress ends, with the session, without it, or with its entry.
Joining(p) == p \in Listed /\ sessions[p].replySerial # 0

JoinsEnd == \A p \in Remotes : Joining(p) ~> ~Joining(p)

\* What the assertion in NativeServiceObjectFinalizer says: the finalizer of a service
\* object never finds a count of zero.
RefCountNotZero == \A o \in Objs :
  objs[o].in = "script" /\ objs[o].peer \in Listed => sessions[objs[o].peer].refCount # 0

\* What the comment at the end of AJS_AboutAnnouncement says: when a whole announcement
\* has been handled and no join is in progress, the sender has an entry only for a session.
NoIdleEntry ==
  [][\A p \in Peers :
       AboutAnnouncement /\ Msg.peer = p /\ Msg.parses /\ p \in DOMAIN sessions'
         => sessions'[p].replySerial # 0 \/ sessions'[p].sessionId # 0]_vars
=============================================================================
