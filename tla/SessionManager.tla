--------------------------- MODULE SessionManager ---------------------------
(***************************************************************************)
(* The session manager of sessions.go: who is connected, who is online,    *)
(* which session listens to which room, and how events reach the buffered  *)
(* channel (event bus) of each session.                                    *)
(*                                                                         *)
(* Goroutines.  A session identifier in SessionId also names the goroutine *)
(* that serves the session's event stream (handler session): it registers  *)
(* the session, announces that its user came online, streams, removes the  *)
(* session and announces that its user went offline.  A Request is a       *)
(* goroutine that serves any other request: it may move a session to a     *)
(* server or channel room, or publish an event, and then serves the next   *)
(* request.                                                                *)
(*                                                                         *)
(* Atomicity.  All fields of the manager are written under the write lock  *)
(* of sm.mutex, so a write section is one step that needs no read lock to  *)
(* be held.  An emission holds the read lock over several steps, one per   *)
(* listener: emissions interleave with each other and with the receivers.  *)
(* What happens before or after a lock section (a database read, the       *)
(* announcement made "specially after mutex is unlocked") is a step of its *)
(* own.                                                                    *)
(***************************************************************************)
EXTENDS Naturals, Sequences

CONSTANTS
  UserId, ServerId, ChannelId,   \* identifiers of database rows
  SessionId,                     \* identifiers the session goroutines will get
  Request,                       \* goroutines serving the other requests
  Payload,                       \* events other than user_online
  NoId,                          \* the zero value of an identifier
  EventBusCap                    \* capacity of an event bus (32 in the code)

RoomId == UserId \cup ServerId \cup ChannelId
Goroutine == SessionId \cup Request

(* Identifiers of every kind come from one snowflake generator, so they    *)
(* are never 0 and no two rows share one.                                  *)
ASSUME IdsAssumption ==
  /\ NoId \notin RoomId
  /\ UserId \cap ServerId = {}
  /\ UserId \cap ChannelId = {}
  /\ ServerId \cap ChannelId = {}
  /\ SessionId \cap Request = {}

ASSUME CapAssumption == EventBusCap \in Nat \ {0}

VARIABLES
  sessions,     \* sm.sessions: map from session ID to Session
  onlineUsers,  \* sm.onlineUsers: set of user IDs
  rooms,        \* sm.rooms: map from room ID to the IDs of its sessions
  eventBus,     \* the channel made by NewSession for each session
  pc,           \* where each goroutine is
  stage,        \* how far a goroutine is with an emission
  outbox,       \* that emission: its event, its rooms, the sends left
  owner,        \* userId of each session goroutine (from AuthUser)
  ctx,          \* user and session IDs in the context of each request
  guessed       \* history: the session IDs a request has named too early,
                \* before NewSession generated them

smVars == <<sessions, onlineUsers, rooms>>
vars == <<sessions, onlineUsers, rooms, eventBus, pc, stage, outbox, owner, ctx, guessed>>

(***************************************************************************)
(* Data                                                                    *)
(***************************************************************************)
(* hasBus is FALSE where the field eventBus is the nil channel.            *)
Session == [userId : UserId \cup {NoId}, serverId : ServerId \cup {NoId},
            channelId : ChannelId \cup {NoId}, hasBus : BOOLEAN]

(* What reading a missing key of the map returns.                          *)
ZeroSession == [userId |-> NoId, serverId |-> NoId, channelId |-> NoId, hasBus |-> FALSE]

UserOnline(u, on) == [user |-> u, online |-> on]
Event == [user : UserId, online : BOOLEAN] \cup Payload

Bus == [state : {"unmade", "open", "closed"}, queue : Seq(Event)]

Place == {"new", "online", "stream", "offline", "done", "ready", "subscribe"}

(* An emission: its event, its rooms, and the pairs of a room and a session*)
(* in it that are still to be sent to.                                     *)
Outbox == [event : Event \cup {UserOnline(NoId, FALSE)}, rooms : SUBSET RoomId,
           todo : SUBSET (RoomId \X SessionId)]
IdleOutbox == [event |-> UserOnline(NoId, FALSE), rooms |-> {}, todo |-> {}]

NoCtx == [user |-> NoId, session |-> NoId]

(* The record NewSession stores for a session of user u.                   *)
NewRecord(u) == [userId |-> u, serverId |-> NoId, channelId |-> NoId, hasBus |-> TRUE]

(* The rooms a session record says its session is in.                      *)
RoomsOf(x) == {x.userId, x.serverId, x.channelId} \ {NoId}

(* Reading and writing a Go map.                                           *)
Lookup(s) == IF s \in DOMAIN sessions THEN sessions[s] ELSE ZeroSession
Put(f, k, v) == [x \in DOMAIN f \cup {k} |-> IF x = k THEN v ELSE f[x]]
Delete(f, k) == [x \in DOMAIN f \ {k} |-> f[x]]
Members(rm, r) == IF r \in DOMAIN rm THEN rm[r] ELSE {}

(* Goroutines that hold sm.mutex for reading.                              *)
Readers == {g \in Goroutine : stage[g] = "emit"}
Unlocked == Readers = {}

Init ==
  /\ sessions = [s \in {} |-> ZeroSession]
  /\ onlineUsers = {}
  /\ rooms = [r \in {} |-> {}]
  /\ eventBus = [s \in SessionId |-> [state |-> "unmade", queue |-> <<>>]]
  /\ pc = [g \in Goroutine |-> IF g \in SessionId THEN "new" ELSE "ready"]
  /\ stage = [g \in Goroutine |-> "idle"]
  /\ outbox = [g \in Goroutine |-> IdleOutbox]
  /\ owner = [s \in SessionId |-> NoId]
  /\ ctx = [r \in Request |-> NoCtx]
  /\ guessed = {}

(***************************************************************************)
(* Rooms                                                                   *)
(***************************************************************************)
(* Mutant: the room that its last session leaves is kept.                  *)
LeaveRoomKeepsEmpty(rm, s, room) ==
  IF room \in DOMAIN rm THEN [rm EXCEPT ![room] = @ \ {s}] ELSE rm

(* A room that its last session leaves is deleted.                         *)
LeaveRoom(rm, s, room) ==
  IF Members(rm, room) \ {s} = {} THEN Delete(rm, room)
  ELSE [rm EXCEPT ![room] = @ \ {s}]

(* Mutant: the arguments for the previous and the new room are swapped.    *)
EnterRoomSwapped(rm, s, prev, new) ==
  LET left == LeaveRoom(rm, s, new)
  IN  Put(left, prev, Members(left, prev) \cup {s})

(* Mutant: the previous room is not left.                                  *)
EnterRoomStays(rm, s, prev, new) == Put(rm, new, Members(rm, new) \cup {s})

EnterRoom(rm, s, prev, new) ==
  LET left == IF prev = NoId THEN rm ELSE LeaveRoom(rm, s, prev)
  IN  Put(left, new, Members(left, new) \cup {s})

LeaveIfSet(rm, s, room) == IF room = NoId THEN rm ELSE LeaveRoom(rm, s, room)

(***************************************************************************)
(* The session goroutine                                                   *)
(***************************************************************************)
(* Mutant: every new session announces its user, not only the first.       *)
NewSessionAlwaysAnnounces(s, u) ==
  /\ pc[s] = "new" /\ Unlocked
  /\ sessions' = Put(sessions, s, NewRecord(u))
  /\ eventBus' = [eventBus EXCEPT ![s].state = "open"]
  /\ rooms' = EnterRoom(rooms, s, NoId, u)
  /\ onlineUsers' = onlineUsers \cup {u}
  /\ owner' = [owner EXCEPT ![s] = u]
  /\ pc' = [pc EXCEPT ![s] = "online"]
  /\ UNCHANGED <<stage, outbox, ctx, guessed>>

(* The write section of NewSession.  The goroutine whose session is its    *)
(* user's first one goes on to announce it, the others start streaming.  A *)
(* record that requests stored for the ID before is overwritten, and the   *)
(* rooms it named are not left.                                            *)
NewSession(s, u) ==
  /\ pc[s] = "new" /\ Unlocked
  /\ sessions' = Put(sessions, s, NewRecord(u))
  /\ eventBus' = [eventBus EXCEPT ![s].state = "open"]
  /\ rooms' = EnterRoom(rooms, s, NoId, u)
  /\ onlineUsers' = onlineUsers \cup {u}
  /\ owner' = [owner EXCEPT ![s] = u]
  /\ pc' = [pc EXCEPT ![s] = IF u \in onlineUsers THEN "stream" ELSE "online"]
  /\ UNCHANGED <<stage, outbox, ctx, guessed>>

(* The loop of handler session takes the next event off the bus and writes *)
(* it to the client.                                                       *)
Receive(s) ==
  /\ pc[s] = "stream"
  /\ eventBus[s].queue # <<>>
  /\ eventBus' = [eventBus EXCEPT ![s].queue = Tail(@)]
  /\ UNCHANGED <<smVars, pc, stage, outbox, owner, ctx, guessed>>

(* Mutant: the sessions of the user are counted before this one has left.  *)
RemoveSessionCountsItself(s) ==
  LET x == sessions[s]
      rm == LeaveRoom(LeaveIfSet(LeaveIfSet(rooms, s, x.serverId), s, x.channelId),
                      s, x.userId)
  IN
  /\ pc[s] = "stream" /\ Unlocked
  /\ s \in DOMAIN sessions
  /\ eventBus' = [eventBus EXCEPT ![s].state = "closed"]
  /\ rooms' = rm
  /\ sessions' = Delete(sessions, s)
  /\ onlineUsers' = IF Members(rooms, x.userId) = {} THEN onlineUsers \ {x.userId}
                    ELSE onlineUsers
  /\ pc' = [pc EXCEPT ![s] = IF Members(rooms, x.userId) = {} THEN "offline" ELSE "done"]
  /\ UNCHANGED <<stage, outbox, owner, ctx, guessed>>

(* Mutant: the session leaves its rooms but not the map.                   *)
RemoveSessionKeepsRecord(s) ==
  LET x == sessions[s]
      rm == LeaveRoom(LeaveIfSet(LeaveIfSet(rooms, s, x.serverId), s, x.channelId),
                      s, x.userId)
      last == Members(rm, x.userId) = {}
  IN
  /\ pc[s] = "stream" /\ Unlocked
  /\ eventBus' = [eventBus EXCEPT ![s].state = "closed"]
  /\ rooms' = rm
  /\ onlineUsers' = IF last THEN onlineUsers \ {x.userId} ELSE onlineUsers
  /\ pc' = [pc EXCEPT ![s] = IF last THEN "offline" ELSE "done"]
  /\ UNCHANGED <<sessions, stage, outbox, owner, ctx, guessed>>

(* The client is gone (its context is done or a write failed) and the      *)
(* deferred RemoveSession runs its write section.  That the session is     *)
(* registered and has a user, which the code tests on the way, is the      *)
(* invariant StreamingSessionRegistered.                                   *)
RemoveSession(s) ==
  LET x == sessions[s]
      rm == LeaveRoom(LeaveIfSet(LeaveIfSet(rooms, s, x.serverId), s, x.channelId),
                      s, x.userId)
      last == Members(rm, x.userId) = {}
  IN
  /\ pc[s] = "stream" /\ Unlocked
  /\ s \in DOMAIN sessions
  /\ eventBus' = [eventBus EXCEPT ![s].state = "closed"]
  /\ rooms' = rm
  /\ sessions' = Delete(sessions, s)
  /\ onlineUsers' = IF last THEN onlineUsers \ {x.userId} ELSE onlineUsers
  /\ pc' = [pc EXCEPT ![s] = IF last THEN "offline" ELSE "done"]
  /\ UNCHANGED <<stage, outbox, owner, ctx, guessed>>

(* Where an announcement leaves the session goroutine, and where a         *)
(* publication leaves a request.                                           *)
AfterEmit(p) == CASE p = "online" -> "stream" [] p = "offline" -> "done" [] OTHER -> "ready"

(* EmitUserOlineChange reads the servers of the user from the database,    *)
(* which may hold any, before it takes the read lock.                      *)
EmitUserOnlineChange(s, serverIds) ==
  /\ pc[s] \in {"online", "offline"} /\ stage[s] = "idle"
  /\ stage' = [stage EXCEPT ![s] = "ready"]
  /\ outbox' = [outbox EXCEPT ![s] = [event |-> UserOnline(owner[s], pc[s] = "online"),
                                      rooms |-> serverIds, todo |-> {}]]
  /\ UNCHANGED <<smVars, eventBus, pc, owner, ctx, guessed>>

(* The query fails: the error is logged and nobody hears of the change.    *)
EmitUserOnlineChangeFails(s) ==
  /\ pc[s] \in {"online", "offline"} /\ stage[s] = "idle"
  /\ pc' = [pc EXCEPT ![s] = AfterEmit(@)]
  /\ UNCHANGED <<smVars, eventBus, stage, outbox, owner, ctx, guessed>>

(***************************************************************************)
(* Emission: emit under the read lock                                      *)
(***************************************************************************)
(* RLock; the sends are those to the sessions in the rooms.                *)
BeginEmit(g) ==
  /\ stage[g] = "ready"
  /\ stage' = [stage EXCEPT ![g] = "emit"]
  /\ outbox' = [outbox EXCEPT ![g].todo =
                  {p \in RoomId \X SessionId :
                     p[1] \in outbox[g].rooms /\ p[2] \in Members(rooms, p[1])}]
  /\ UNCHANGED <<smVars, eventBus, pc, owner, ctx, guessed>>

(* The send that does not block: on a full bus, as on the nil channel, the *)
(* event is dropped.                                                       *)
Send(g, room, s) ==
  /\ stage[g] = "emit"
  /\ <<room, s>> \in outbox[g].todo
  /\ outbox' = [outbox EXCEPT ![g].todo = @ \ {<<room, s>>}]
  /\ eventBus' = IF Lookup(s).hasBus /\ Len(eventBus[s].queue) < EventBusCap
                 THEN [eventBus EXCEPT ![s].queue = Append(@, outbox[g].event)]
                 ELSE eventBus
  /\ UNCHANGED <<smVars, pc, stage, owner, ctx, guessed>>

(* RUnlock.                                                                *)
EndEmit(g) ==
  /\ stage[g] = "emit" /\ outbox[g].todo = {}
  /\ stage' = [stage EXCEPT ![g] = "idle"]
  /\ outbox' = [outbox EXCEPT ![g] = IdleOutbox]
  /\ pc' = [pc EXCEPT ![g] = AfterEmit(@)]
  /\ UNCHANGED <<smVars, eventBus, owner, ctx, guessed>>

(***************************************************************************)
(* The other requests                                                      *)
(***************************************************************************)
Publish(r, e, roomIds) ==
  /\ pc[r] = "ready" /\ stage[r] = "idle"
  /\ stage' = [stage EXCEPT ![r] = "ready"]
  /\ outbox' = [outbox EXCEPT ![r] = [event |-> e, rooms |-> roomIds, todo |-> {}]]
  /\ UNCHANGED <<smVars, eventBus, pc, owner, ctx, guessed>>

EmitToRoom(r, e, room) == Publish(r, e, {room})

(* The servers come from a database read that precedes the lock.           *)
EmitToServersUserIsIn(r, e, serverIds) == Publish(r, e, serverIds)

(* The members come from a database read filtered by who is online, under  *)
(* a read lock that is released before the one of the emission is taken.   *)
EmitToServerMembers(r, e, memberIds) ==
  Publish(r, e, memberIds \cap onlineUsers)

(* Mutant: whose session it is does not matter.                            *)
AuthSessionIdUnchecked(r, u, s) ==
  /\ pc[r] = "ready" /\ stage[r] = "idle"
  /\ pc' = [pc EXCEPT ![r] = "subscribe"]
  /\ ctx' = [ctx EXCEPT ![r] = [user |-> u, session |-> s]]
  /\ guessed' = IF pc[s] = "new" THEN guessed \cup {s} ELSE guessed
  /\ UNCHANGED <<smVars, eventBus, stage, outbox, owner>>

(* AuthSessionId: the session named by a request of user u must be u's,    *)
(* unless it is not registered.  The header may hold any number, also one  *)
(* that a session gets later.                                              *)
AuthSessionId(r, u, s) ==
  /\ pc[r] = "ready" /\ stage[r] = "idle"
  /\ s \in DOMAIN sessions => sessions[s].userId = u
  /\ pc' = [pc EXCEPT ![r] = "subscribe"]
  /\ ctx' = [ctx EXCEPT ![r] = [user |-> u, session |-> s]]
  /\ guessed' = IF pc[s] = "new" THEN guessed \cup {s} ELSE guessed
  /\ UNCHANGED <<smVars, eventBus, stage, outbox, owner>>

(* The request ends before it subscribes: access is refused, a query       *)
(* fails, or it asks for older messages only.                              *)
GiveUp(r) ==
  /\ pc[r] = "subscribe"
  /\ pc' = [pc EXCEPT ![r] = "ready"]
  /\ ctx' = [ctx EXCEPT ![r] = NoCtx]
  /\ UNCHANGED <<smVars, eventBus, stage, outbox, owner, guessed>>

(* Mutant: a fresh record is stored instead of the updated one.            *)
SetServerForgets(r, newServerId) ==
  LET s == ctx[r].session IN
  /\ pc[r] = "subscribe" /\ Unlocked
  /\ rooms' = EnterRoom(rooms, s, Lookup(s).serverId, newServerId)
  /\ sessions' = Put(sessions, s, [ZeroSession EXCEPT !.serverId = newServerId])
  /\ pc' = [pc EXCEPT ![r] = "ready"]
  /\ ctx' = [ctx EXCEPT ![r] = NoCtx]
  /\ UNCHANGED <<onlineUsers, eventBus, stage, outbox, owner, guessed>>

(* Mutant: the lock is taken for reading.                                  *)
SetServerReadLocked(r, newServerId) ==
  LET s == ctx[r].session IN
  /\ pc[r] = "subscribe"
  /\ rooms' = EnterRoom(rooms, s, Lookup(s).serverId, newServerId)
  /\ sessions' = Put(sessions, s, [Lookup(s) EXCEPT !.serverId = newServerId])
  /\ pc' = [pc EXCEPT ![r] = "ready"]
  /\ ctx' = [ctx EXCEPT ![r] = NoCtx]
  /\ UNCHANGED <<onlineUsers, eventBus, stage, outbox, owner, guessed>>

(* The session moves from the server it is in, if any, to the new one.  A  *)
(* session that is not registered (no more, or not yet) is taken for the   *)
(* zero record, which is then stored.                                      *)
SetServer(r, newServerId) ==
  LET s == ctx[r].session IN
  /\ pc[r] = "subscribe" /\ Unlocked
  /\ rooms' = EnterRoom(rooms, s, Lookup(s).serverId, newServerId)
  /\ sessions' = Put(sessions, s, [Lookup(s) EXCEPT !.serverId = newServerId])
  /\ pc' = [pc EXCEPT ![r] = "ready"]
  /\ ctx' = [ctx EXCEPT ![r] = NoCtx]
  /\ UNCHANGED <<onlineUsers, eventBus, stage, outbox, owner, guessed>>

SetChannel(r, newChannelId) ==
  LET s == ctx[r].session IN
  /\ pc[r] = "subscribe" /\ Unlocked
  /\ rooms' = EnterRoom(rooms, s, Lookup(s).channelId, newChannelId)
  /\ sessions' = Put(sessions, s, [Lookup(s) EXCEPT !.channelId = newChannelId])
  /\ pc' = [pc EXCEPT ![r] = "ready"]
  /\ ctx' = [ctx EXCEPT ![r] = NoCtx]
  /\ UNCHANGED <<onlineUsers, eventBus, stage, outbox, owner, guessed>>

(***************************************************************************)
(* Specification                                                           *)
(***************************************************************************)
SessionStep(s) ==
  \/ \E u \in UserId : NewSession(s, u)
  \/ Receive(s)
  \/ RemoveSession(s)
  \/ \E ids \in SUBSET ServerId : EmitUserOnlineChange(s, ids)
  \/ EmitUserOnlineChangeFails(s)

EmitStep(g) ==
  \/ BeginEmit(g)
  \/ \E room \in RoomId, s \in SessionId : Send(g, room, s)
  \/ EndEmit(g)

RequestStep(r) ==
  \/ \E e \in Payload, room \in RoomId : EmitToRoom(r, e, room)
  \/ \E e \in Payload, ids \in SUBSET ServerId : EmitToServersUserIsIn(r, e, ids)
  \/ \E e \in Payload, ids \in SUBSET UserId : EmitToServerMembers(r, e, ids)
  \/ \E u \in UserId, s \in SessionId : AuthSessionId(r, u, s)
  \/ GiveUp(r)
  \/ \E v \in ServerId : SetServer(r, v)
  \/ \E c \in ChannelId : SetChannel(r, c)

Next ==
  \/ \E s \in SessionId : SessionStep(s)
  \/ \E g \in Goroutine : EmitStep(g)
  \/ \E r \in Request : RequestStep(r)

Spec == Init /\ [][Next]_vars

(***************************************************************************)
(* Properties                                                              *)
(***************************************************************************)
TypeOK ==
  /\ DOMAIN sessions \subseteq SessionId
  /\ sessions \in [DOMAIN sessions -> Session]
  /\ onlineUsers \subseteq UserId
  /\ DOMAIN rooms \subseteq RoomId
  /\ rooms \in [DOMAIN rooms -> SUBSET SessionId]
  /\ eventBus \in [SessionId -> Bus]
  /\ pc \in [Goroutine -> Place]
  /\ stage \in [Goroutine -> {"idle", "ready", "emit"}]
  /\ outbox \in [Goroutine -> Outbox]
  /\ \A g \in Goroutine : stage[g] # "idle" => outbox[g].event \in Event
  /\ owner \in [SessionId -> UserId \cup {NoId}]
  /\ ctx \in [Request -> [user : UserId \cup {NoId}, session : SessionId \cup {NoId}]]
  /\ guessed \subseteq SessionId

(* A room of a server or a channel that a session may be in although its   *)
(* record names another one or none: a request entered it when the session *)
(* had not got its ID, and NewSession overwrote the record.                *)
LeftBehind(r, s) == s \in guessed /\ r \notin UserId

(* The rooms and the session records agree: a room holds the sessions whose*)
(* record names it and no others, whatever moves, connections and          *)
(* disconnections interleave, and no empty room is left behind (sessions.go*)
(* keeps this by hand in NewSession, RemoveSession, SetServer, SetChannel).*)
(* The exception is the rooms entered under an ID before NewSession        *)
(* generated it; the room of a user knows no exception.                    *)
RoomsMatchSessions ==
  /\ \A r \in RoomId :
       LET named == {s \in DOMAIN sessions : r \in RoomsOf(sessions[s])}
       IN  /\ named \subseteq Members(rooms, r)
           /\ \A s \in Members(rooms, r) \ named : LeftBehind(r, s)
  /\ \A r \in DOMAIN rooms : rooms[r] # {}

(* A user is online exactly while one of the user's sessions is registered:*)
(* RemoveSession, which counts the sessions left in the user's room, never *)
(* loses a user that has another tab open and never leaves one behind.     *)
OnlineMatchesSessions ==
  onlineUsers = {sessions[s].userId : s \in DOMAIN sessions} \ {NoId}

(* When the deferred RemoveSession runs, the session is in the map with    *)
(* its user and its channel is open: the error it logs for a missing       *)
(* session, its panic for a missing user, and the panic of a second close  *)
(* are unreachable, even though late requests re-register removed sessions.*)
StreamingSessionRegistered ==
  \A s \in SessionId : pc[s] \in {"online", "stream"} =>
    /\ s \in DOMAIN sessions
    /\ sessions[s].userId = owner[s] /\ owner[s] \in UserId
    /\ sessions[s].hasBus
    /\ eventBus[s].state = "open"

(* AuthSessionId tests the session's user before any lock is taken and the *)
(* subscription happens much later, yet a session that streams is only ever*)
(* moved by a request of its own user: the test cannot go stale, neither by*)
(* a removal nor by a record that a late request stored again.  What the   *)
(* test does let through is an ID named before NewSession generated it.    *)
SubscribersMoveOwnSession ==
  \A r \in Request : pc[r] = "subscribe" =>
    LET s == ctx[r].session
    IN  pc[s] \in {"online", "stream"} => sessions[s].userId = ctx[r].user \/ s \in guessed

(* Every send of an emission under way goes to a session whose record names*)
(* the room at that moment: once SetServer or SetChannel has returned,     *)
(* nothing from the room left behind reaches the session any more, unless  *)
(* the room was entered under an ID that was not generated yet.            *)
EmissionTargetsSubscribers ==
  \A g \in Goroutine : stage[g] = "emit" =>
    \A p \in outbox[g].todo :
      \/ p[2] \in DOMAIN sessions /\ p[1] \in RoomsOf(sessions[p[2]])
      \/ LeftBehind(p[1], p[2])

(* No emission sends on a closed channel, which would panic: RemoveSession *)
(* closes the channel and leaves the rooms in one write section.           *)
NoSendOnClosedBus ==
  \A g \in Goroutine : stage[g] = "emit" =>
    \A p \in outbox[g].todo : Lookup(p[2]).hasBus => eventBus[p[2]].state = "open"

(* An emission to the servers of a user, or to the members of a server,    *)
(* reaches each session at most once, although it visits several rooms     *)
(* (with the exception RoomsMatchSessions names).                          *)
OneCopyPerSession ==
  \A g \in Goroutine : stage[g] = "emit" =>
    \A p, q \in outbox[g].todo :
      p[2] = q[2] => p = q \/ LeftBehind(p[1], p[2]) \/ LeftBehind(q[1], q[2])

(* The user comes online in this step if and only if a session goroutine of*)
(* the user now has that to announce; the same for going offline.          *)
CameOnline(u) ==
  (u \notin onlineUsers /\ u \in onlineUsers') <=>
    \E s \in SessionId : pc[s] # "online" /\ pc'[s] = "online" /\ owner'[s] = u
WentOffline(u) ==
  (u \in onlineUsers /\ u \notin onlineUsers') <=>
    \E s \in SessionId : pc[s] # "offline" /\ pc'[s] = "offline" /\ owner'[s] = u

(* A step changes whether a user is online if and only if the goroutine    *)
(* that takes it goes on to announce that very change: no change goes      *)
(* unannounced and nothing is announced twice.                             *)
PresenceChangeAnnounced ==
  [][\A u \in UserId : CameOnline(u) /\ WentOffline(u)]_vars

(* What sessions.go:101 takes for granted ("this isn't supposed to happen  *)
(* as user ID is set in AddSession"): a registered session has a user.     *)
EverySessionHasUser ==
  \A s \in DOMAIN sessions : sessions[s].userId # NoId

(* The manager as the abstract specification sees it: a session listens to *)
(* the rooms it is in, those left behind excepted.                         *)
Listens == {p \in RoomId \X SessionId :
              /\ p[2] \in Members(rooms, p[1])
              /\ LeftBehind(p[1], p[2]) => p[1] \in RoomsOf(Lookup(p[2]))}

Abstract == INSTANCE Subscriptions WITH listens <- Listens, online <- onlineUsers

(* The manager implements Subscriptions.                                   *)
ImplementsSubscriptions == Abstract!Spec
=============================================================================
