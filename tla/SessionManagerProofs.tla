------------------------ MODULE SessionManagerProofs ------------------------
(***************************************************************************)
(* Proofs about SessionManager, for any number of users, servers,          *)
(* channels, sessions and requests and any bus capacity.                   *)
(*                                                                         *)
(* The argument.  The two maps rooms and sessions describe one relation    *)
(* (RoomsMatchSessions); because rooms of different kinds have different   *)
(* identifiers, the sessions in a user's room are exactly the sessions of  *)
(* the user, which makes RemoveSession's count right.  A record that has a *)
(* user or a bus belongs to a goroutine between NewSession and             *)
(* RemoveSession (RecordsOK), so the records that late requests leave      *)
(* behind never count and are never sent to.  A request that names an ID   *)
(* before NewSession generates it may leave a session in a server or       *)
(* channel room its record does not name; the set guessed bounds these     *)
(* sessions, and no such room is a user's.                                 *)
(***************************************************************************)
EXTENDS SessionManager, TLAPS

(***************************************************************************)
(* The inductive invariant                                                 *)
(***************************************************************************)
(* Where a goroutine can be, and what an emission under way looks like: it *)
(* visits servers only, users only, or a single room.                      *)
ControlOK ==
  /\ \A s \in SessionId :
       /\ pc[s] \in {"new", "online", "stream", "offline", "done"}
       /\ stage[s] # "idle" => pc[s] \in {"online", "offline"}
       /\ pc[s] \in {"online", "stream", "offline"} => owner[s] \in UserId
  /\ \A r \in Request :
       /\ pc[r] \in {"ready", "subscribe"}
       /\ pc[r] = "subscribe" => /\ stage[r] = "idle"
                                 /\ ctx[r].session \in SessionId
                                 /\ pc[ctx[r].session] = "new" => ctx[r].session \in guessed

OutboxOK ==
  \A g \in Goroutine :
    /\ \/ outbox[g].rooms \subseteq ServerId
       \/ outbox[g].rooms \subseteq UserId
       \/ \E room \in RoomId : outbox[g].rooms = {room}
    /\ \A p \in outbox[g].todo : p[1] \in outbox[g].rooms

(* A record exists only once its goroutine has called NewSession or its ID *)
(* has been named too early; one with a user or a bus is the record of a   *)
(* goroutine that has not removed it.                                      *)
RecordsOK ==
  \A s \in DOMAIN sessions :
    /\ pc[s] = "new" => s \in guessed
    /\ sessions[s].hasBus \/ sessions[s].userId # NoId => pc[s] \in {"online", "stream"}

IInv ==
  /\ TypeOK
  /\ RoomsMatchSessions
  /\ OnlineMatchesSessions
  /\ StreamingSessionRegistered
  /\ SubscribersMoveOwnSession
  /\ EmissionTargetsSubscribers
  /\ ControlOK
  /\ OutboxOK
  /\ RecordsOK

(***************************************************************************)
(* The room map                                                            *)
(***************************************************************************)
RoomMap(rm) ==
  /\ DOMAIN rm \subseteq RoomId
  /\ rm \in [DOMAIN rm -> SUBSET SessionId]
  /\ \A r \in DOMAIN rm : rm[r] # {}

(* leaveRoom takes one session out of one room and leaves no empty room.   *)
LEMMA LeaveRoomFacts ==
  ASSUME NEW rm, RoomMap(rm), NEW s \in SessionId, NEW room
  PROVE  /\ RoomMap(LeaveRoom(rm, s, room))
         /\ \A r, t : t \in Members(LeaveRoom(rm, s, room), r) <=>
                        t \in Members(rm, r) /\ ~(r = room /\ t = s)
<1>1. CASE Members(rm, room) \ {s} = {}
  <2>1. LeaveRoom(rm, s, room) = [x \in DOMAIN rm \ {room} |-> rm[x]]
    BY <1>1 DEF LeaveRoom, Delete
  <2> QED BY <1>1, <2>1 DEF Members, RoomMap
<1>2. CASE Members(rm, room) \ {s} # {}
  <2>1. LeaveRoom(rm, s, room) = [rm EXCEPT ![room] = @ \ {s}]
    BY <1>2 DEF LeaveRoom
  <2>2. room \in DOMAIN rm
    BY <1>2 DEF Members
  <2> QED BY <1>2, <2>1, <2>2 DEF Members, RoomMap
<1> QED BY <1>1, <1>2

(* The same for a room that may be unset.                                  *)
LEMMA LeaveIfSetFacts ==
  ASSUME NEW rm, RoomMap(rm), NEW s \in SessionId, NEW room
  PROVE  /\ RoomMap(LeaveIfSet(rm, s, room))
         /\ \A r, t : t \in Members(LeaveIfSet(rm, s, room), r) <=>
                        t \in Members(rm, r) /\ ~(r = room /\ t = s)
<1>1. CASE room = NoId
  BY <1>1, IdsAssumption DEF LeaveIfSet, RoomMap, Members
<1>2. CASE room # NoId
  BY <1>2, LeaveRoomFacts DEF LeaveIfSet
<1> QED BY <1>1, <1>2

(* enterRoom moves one session from the previous room to the new one.      *)
LEMMA EnterRoomFacts ==
  ASSUME NEW rm, RoomMap(rm), NEW s \in SessionId, NEW prev, NEW new \in RoomId
  PROVE  /\ RoomMap(EnterRoom(rm, s, prev, new))
         /\ \A r, t : t \in Members(EnterRoom(rm, s, prev, new), r) <=>
                        \/ t \in Members(rm, r) /\ ~(r = prev /\ t = s)
                        \/ r = new /\ t = s
<1> DEFINE left == LeaveIfSet(rm, s, prev)
           res == EnterRoom(rm, s, prev, new)
<1>1. /\ RoomMap(left)
      /\ \A r, t : t \in Members(left, r) <=> t \in Members(rm, r) /\ ~(r = prev /\ t = s)
  BY LeaveIfSetFacts
<1>2. res = [x \in DOMAIN left \cup {new} |->
               IF x = new THEN Members(left, new) \cup {s} ELSE left[x]]
  BY DEF EnterRoom, LeaveIfSet, Put
<1>3. Members(left, new) \subseteq SessionId
  BY <1>1 DEF Members, RoomMap
<1> HIDE DEF left, res
<1>4. RoomMap(res)
  BY <1>1, <1>2, <1>3 DEF RoomMap
<1>5. \A r, t : t \in Members(res, r) <=> t \in Members(left, r) \/ (r = new /\ t = s)
  BY <1>2 DEF Members
<1> QED BY <1>1, <1>4, <1>5 DEF res

(* RoomsMatchSessions, said of one room and one session at a time.         *)
Named(ss, t, r) ==
  /\ t \in DOMAIN ss
  /\ \/ r = ss[t].userId
     \/ r = ss[t].serverId
     \/ r = ss[t].channelId

Match(rm, ss, early) ==
  /\ RoomMap(rm)
  /\ \A r \in RoomId : \A t :
       /\ Named(ss, t, r) => t \in Members(rm, r)
       /\ t \in Members(rm, r) => Named(ss, t, r) \/ (t \in early /\ r \notin UserId)

LEMMA MatchRooms ==
  ASSUME NEW rm, NEW ss, NEW early, RoomMap(rm)
  PROVE  Match(rm, ss, early) <=>
           \A r \in RoomId :
             /\ {s \in DOMAIN ss : r \in RoomsOf(ss[s])} \subseteq Members(rm, r)
             /\ \A s \in Members(rm, r) \ {t \in DOMAIN ss : r \in RoomsOf(ss[t])} :
                  s \in early /\ r \notin UserId
<1>1. \A r \in RoomId : \A t : Named(ss, t, r) <=> t \in {s \in DOMAIN ss : r \in RoomsOf(ss[s])}
  BY IdsAssumption DEF RoomsOf, Named
<1> QED BY <1>1 DEF Match

LEMMA InvMatch == TypeOK /\ RoomsMatchSessions => Match(rooms, sessions, guessed)
<1> SUFFICES ASSUME TypeOK, RoomsMatchSessions PROVE Match(rooms, sessions, guessed)
  OBVIOUS
<1>1. RoomMap(rooms)
  BY DEF TypeOK, RoomsMatchSessions, RoomMap
<1> QED BY <1>1, MatchRooms DEF RoomsMatchSessions, LeftBehind

LEMMA InvMatchNext == TypeOK' /\ RoomsMatchSessions' => Match(rooms', sessions', guessed')
<1> SUFFICES ASSUME TypeOK', RoomsMatchSessions' PROVE Match(rooms', sessions', guessed')
  OBVIOUS
<1>1. RoomMap(rooms')
  BY DEF TypeOK, RoomsMatchSessions, RoomMap
<1> QED BY <1>1, MatchRooms DEF RoomsMatchSessions, LeftBehind

LEMMA MatchNextInv == Match(rooms', sessions', guessed') => RoomsMatchSessions'
<1> SUFFICES ASSUME Match(rooms', sessions', guessed') PROVE RoomsMatchSessions'
  OBVIOUS
<1>1. RoomMap(rooms')
  BY DEF Match
<1> QED BY <1>1, MatchRooms DEF RoomsMatchSessions, LeftBehind, RoomMap

(* Naming one more ID too early leaves everything that is said of them.    *)
LEMMA MatchMore ==
  ASSUME NEW rm, NEW ss, NEW early, NEW more, early \subseteq more, Match(rm, ss, early)
  PROVE  Match(rm, ss, more)
BY DEF Match

(***************************************************************************)
(* The invariant is inductive                                              *)
(***************************************************************************)
LEMMA InitIInv == Init => IInv
<1> SUFFICES ASSUME Init PROVE IInv
  OBVIOUS
<1>1. TypeOK
  BY DEF Init, TypeOK, Goroutine, Place, Bus, Outbox, IdleOutbox, UserOnline, NoCtx
<1>2. RoomsMatchSessions /\ OnlineMatchesSessions
  BY DEF Init, RoomsMatchSessions, OnlineMatchesSessions, Members
<1>3. StreamingSessionRegistered /\ SubscribersMoveOwnSession /\ EmissionTargetsSubscribers
  BY IdsAssumption DEF Init, StreamingSessionRegistered, SubscribersMoveOwnSession,
     EmissionTargetsSubscribers, Goroutine
<1>4. ControlOK /\ OutboxOK /\ RecordsOK
  BY IdsAssumption DEF Init, ControlOK, OutboxOK, RecordsOK, Goroutine, IdleOutbox
<1> QED BY <1>1, <1>2, <1>3, <1>4 DEF IInv

LEMMA NewSessionIInv ==
  ASSUME IInv, NEW s \in SessionId, NEW u \in UserId, NewSession(s, u)
  PROVE  IInv'
<1> USE DEF IInv
<1>1. s \in DOMAIN sessions =>
        s \in guessed /\ sessions[s] \in Session /\ sessions[s].userId = NoId
  BY DEF NewSession, RecordsOK, TypeOK
<1>2. /\ DOMAIN sessions' = DOMAIN sessions \cup {s}
      /\ sessions' = [t \in DOMAIN sessions' |-> sessions'[t]]
      /\ sessions'[s] = NewRecord(u)
      /\ \A t \in DOMAIN sessions \ {s} : sessions'[t] = sessions[t]
  BY DEF NewSession, Put
<1>3. Match(rooms', sessions', guessed')
  <2>1. Match(rooms, sessions, guessed) /\ u \in RoomId /\ guessed' = guessed
    BY InvMatch DEF RoomId, NewSession
  <2>2. /\ RoomMap(rooms')
        /\ \A r, t : t \in Members(rooms', r) <=>
                       \/ t \in Members(rooms, r) /\ ~(r = NoId /\ t = s)
                       \/ r = u /\ t = s
    BY <2>1, EnterRoomFacts DEF NewSession, Match
  <2>3. ASSUME NEW r \in RoomId, NEW t, t # s
        PROVE  /\ Named(sessions', t, r) <=> Named(sessions, t, r)
               /\ t \in Members(rooms', r) <=> t \in Members(rooms, r)
    BY <1>2, <2>2, <2>3 DEF Named
  <2>4. ASSUME NEW r \in RoomId
        PROVE  /\ Named(sessions', s, r) <=> r = u
               /\ s \in Members(rooms', r) => r = u \/ (s \in guessed /\ r \notin UserId)
    <3>1. Named(sessions', s, r) <=> r = u
      BY <1>2, IdsAssumption DEF Named, NewRecord
    <3>2. Named(sessions, s, r) => s \in guessed /\ r \notin UserId
      BY <1>1, IdsAssumption DEF Named, Session, RoomId
    <3> QED BY <2>1, <2>2, <3>1, <3>2 DEF Match
  <2> QED BY <2>1, <2>2, <2>3, <2>4 DEF Match
<1>4. /\ pc[s] = "new"
      /\ pc' \in [Goroutine -> Place]
      /\ pc'[s] \in {"online", "stream"}
      /\ \A g \in Goroutine \ {s} : pc'[g] = pc[g]
  BY DEF NewSession, TypeOK, Goroutine, Place
<1>5. /\ owner' \in [SessionId -> UserId \cup {NoId}]
      /\ owner'[s] = u /\ \A t \in SessionId \ {s} : owner'[t] = owner[t]
  BY DEF NewSession, TypeOK
<1>6. /\ eventBus' \in [SessionId -> Bus]
      /\ eventBus'[s].state = "open" /\ \A t \in SessionId \ {s} : eventBus'[t] = eventBus[t]
  BY DEF NewSession, TypeOK, Bus
<1>7. UNCHANGED <<stage, outbox, ctx, guessed>> /\ \A g \in Goroutine : stage[g] # "emit"
  BY DEF NewSession, Unlocked, Readers
<1>8. TypeOK'
  <2>1. \A t \in DOMAIN sessions' : sessions'[t] \in Session
    <3>1. NewRecord(u) \in Session
      BY DEF NewRecord, Session
    <3> QED BY <1>2, <3>1 DEF TypeOK
  <2>2. onlineUsers' \subseteq UserId
    BY DEF NewSession, TypeOK
  <2>3. DOMAIN sessions' \subseteq SessionId /\ sessions' \in [DOMAIN sessions' -> Session]
    BY <1>2, <2>1 DEF TypeOK
  <2>4. DOMAIN rooms' \subseteq RoomId /\ rooms' \in [DOMAIN rooms' -> SUBSET SessionId]
    BY <1>3 DEF Match, RoomMap
  <2> QED BY <1>4, <1>5, <1>6, <1>7, <2>2, <2>3, <2>4 DEF TypeOK
<1>9. RoomsMatchSessions'
  BY <1>3, MatchNextInv
<1>10. OnlineMatchesSessions'
  <2>1. onlineUsers' = onlineUsers \cup {u} /\ u # NoId
    BY IdsAssumption DEF NewSession, RoomId
  <2>2. {sessions'[t].userId : t \in DOMAIN sessions'} \ {NoId} =
          ({sessions[t].userId : t \in DOMAIN sessions} \ {NoId}) \cup {u}
    <3>1. sessions'[s].userId = u
      BY <1>2 DEF NewRecord
    <3> QED BY <1>1, <1>2, <2>1, <3>1
  <2> QED BY <2>1, <2>2 DEF OnlineMatchesSessions
<1>11. StreamingSessionRegistered'
  BY <1>2, <1>4, <1>5, <1>6 DEF StreamingSessionRegistered, NewRecord, Goroutine
<1>12. SubscribersMoveOwnSession'
  BY <1>2, <1>4, <1>7, IdsAssumption DEF SubscribersMoveOwnSession, StreamingSessionRegistered,
     ControlOK, Goroutine
<1>13. EmissionTargetsSubscribers'
  BY <1>7 DEF EmissionTargetsSubscribers, LeftBehind
<1>14. ControlOK'
  BY <1>4, <1>5, <1>7, IdsAssumption DEF ControlOK, Goroutine
<1>15. OutboxOK'
  BY <1>7 DEF OutboxOK
<1>16. RecordsOK'
  BY <1>2, <1>4, <1>7 DEF RecordsOK, TypeOK, Goroutine
<1> QED BY <1>8, <1>9, <1>10, <1>11, <1>12, <1>13, <1>14, <1>15, <1>16

LEMMA ReceiveIInv ==
  ASSUME IInv, NEW s \in SessionId, Receive(s)
  PROVE  IInv'
<1> USE DEF IInv
<1>1. /\ eventBus' \in [SessionId -> Bus]
      /\ \A t \in SessionId : eventBus'[t].state = eventBus[t].state
  <2>1. eventBus[s].queue \in Seq(Event) /\ eventBus[s].queue # <<>>
    BY DEF Receive, TypeOK, Bus
  <2>2. Tail(eventBus[s].queue) \in Seq(Event)
    BY <2>1
  <2> QED BY <2>2 DEF Receive, TypeOK, Bus
<1>2. UNCHANGED <<sessions, onlineUsers, rooms, pc, stage, outbox, owner, ctx, guessed>>
  BY DEF Receive, smVars
<1>3. TypeOK'
  BY <1>1, <1>2 DEF TypeOK
<1>4. RoomsMatchSessions' /\ OnlineMatchesSessions'
  BY <1>2 DEF RoomsMatchSessions, LeftBehind, OnlineMatchesSessions
<1>5. StreamingSessionRegistered' /\ SubscribersMoveOwnSession' /\ EmissionTargetsSubscribers'
  BY <1>1, <1>2 DEF StreamingSessionRegistered, SubscribersMoveOwnSession,
     EmissionTargetsSubscribers, LeftBehind
<1>6. ControlOK' /\ OutboxOK' /\ RecordsOK'
  BY <1>2 DEF ControlOK, OutboxOK, RecordsOK
<1> QED BY <1>3, <1>4, <1>5, <1>6

(* The session goroutine reads the servers of its user.                    *)
LEMMA EmitUserOnlineChangeIInv ==
  ASSUME IInv, NEW s \in SessionId, NEW ids \in SUBSET ServerId,
         EmitUserOnlineChange(s, ids)
  PROVE  IInv'
<1> USE DEF IInv
<1>1. /\ stage' \in [Goroutine -> {"idle", "ready", "emit"}]
      /\ stage'[s] = "ready" /\ \A g \in Goroutine \ {s} : stage'[g] = stage[g]
  BY DEF EmitUserOnlineChange, TypeOK, Goroutine
<1>2. UserOnline(owner[s], pc[s] = "online") \in Event
  BY DEF EmitUserOnlineChange, ControlOK, UserOnline, Event
<1>3. /\ outbox' \in [Goroutine -> Outbox]
      /\ outbox'[s].event \in Event /\ outbox'[s].rooms = ids /\ outbox'[s].todo = {}
      /\ \A g \in Goroutine \ {s} : outbox'[g] = outbox[g]
  BY <1>2 DEF EmitUserOnlineChange, TypeOK, Goroutine, Outbox, RoomId
<1>4. /\ UNCHANGED <<sessions, onlineUsers, rooms, eventBus, pc, owner, ctx, guessed>>
      /\ pc[s] \in {"online", "offline"}
  BY DEF EmitUserOnlineChange, smVars
<1>5. TypeOK'
  BY <1>1, <1>3, <1>4 DEF TypeOK
<1>6. RoomsMatchSessions' /\ OnlineMatchesSessions'
  BY <1>4 DEF RoomsMatchSessions, LeftBehind, OnlineMatchesSessions
<1>7. StreamingSessionRegistered' /\ SubscribersMoveOwnSession'
  BY <1>4 DEF StreamingSessionRegistered, SubscribersMoveOwnSession
<1>8. EmissionTargetsSubscribers'
  BY <1>1, <1>3, <1>4 DEF EmissionTargetsSubscribers, LeftBehind
<1>9. ControlOK'
  BY <1>1, <1>4, IdsAssumption DEF ControlOK, Goroutine
<1>10. OutboxOK' /\ RecordsOK'
  BY <1>3, <1>4 DEF OutboxOK, RecordsOK
<1> QED BY <1>5, <1>6, <1>7, <1>8, <1>9, <1>10

LEMMA EmitUserOnlineChangeFailsIInv ==
  ASSUME IInv, NEW s \in SessionId, EmitUserOnlineChangeFails(s)
  PROVE  IInv'
<1> USE DEF IInv
<1>1. /\ pc[s] \in {"online", "offline"} /\ stage[s] = "idle"
      /\ pc' \in [Goroutine -> Place]
      /\ pc'[s] = IF pc[s] = "online" THEN "stream" ELSE "done"
      /\ \A g \in Goroutine \ {s} : pc'[g] = pc[g]
  BY DEF EmitUserOnlineChangeFails, AfterEmit, TypeOK, Goroutine, Place
<1>2. UNCHANGED <<sessions, onlineUsers, rooms, eventBus, stage, outbox, owner, ctx, guessed>>
  BY DEF EmitUserOnlineChangeFails, smVars
<1>3. TypeOK'
  BY <1>1, <1>2 DEF TypeOK
<1>4. RoomsMatchSessions' /\ OnlineMatchesSessions' /\ EmissionTargetsSubscribers' /\ OutboxOK'
  BY <1>2 DEF RoomsMatchSessions, LeftBehind, OnlineMatchesSessions,
     EmissionTargetsSubscribers, OutboxOK
<1>5. StreamingSessionRegistered' /\ SubscribersMoveOwnSession'
  BY <1>1, <1>2, IdsAssumption DEF StreamingSessionRegistered, SubscribersMoveOwnSession,
     Goroutine, ControlOK
<1>6. ControlOK'
  BY <1>1, <1>2, IdsAssumption DEF ControlOK, Goroutine
<1>7. RecordsOK'
  BY <1>1, <1>2 DEF RecordsOK, TypeOK, Goroutine
<1> QED BY <1>3, <1>4, <1>5, <1>6, <1>7

LEMMA BeginEmitIInv ==
  ASSUME IInv, NEW g \in Goroutine, BeginEmit(g)
  PROVE  IInv'
<1> USE DEF IInv
<1> DEFINE todo == {p \in RoomId \X SessionId :
                      p[1] \in outbox[g].rooms /\ p[2] \in Members(rooms, p[1])}
<1>1. /\ stage[g] = "ready"
      /\ stage' \in [Goroutine -> {"idle", "ready", "emit"}]
      /\ stage'[g] = "emit" /\ \A h \in Goroutine \ {g} : stage'[h] = stage[h]
  BY DEF BeginEmit, TypeOK
<1>2. todo \in SUBSET (RoomId \X SessionId)
  OBVIOUS
<1>3. /\ outbox' \in [Goroutine -> Outbox]
      /\ outbox'[g].event = outbox[g].event /\ outbox'[g].rooms = outbox[g].rooms
      /\ outbox'[g].todo = todo
      /\ \A h \in Goroutine \ {g} : outbox'[h] = outbox[h]
  <2> HIDE DEF todo
  <2>1. outbox' = [outbox EXCEPT ![g].todo = todo]
    BY DEF BeginEmit, todo
  <2> QED BY <1>2, <2>1 DEF TypeOK, Outbox
<1>4. UNCHANGED <<sessions, onlineUsers, rooms, eventBus, pc, owner, ctx, guessed>>
  BY DEF BeginEmit, smVars
<1>5. TypeOK'
  <2> HIDE DEF todo
  <2> QED BY <1>1, <1>3, <1>4 DEF TypeOK
<1>6. RoomsMatchSessions' /\ OnlineMatchesSessions'
  BY <1>4 DEF RoomsMatchSessions, LeftBehind, OnlineMatchesSessions
<1>7. StreamingSessionRegistered' /\ SubscribersMoveOwnSession'
  BY <1>4 DEF StreamingSessionRegistered, SubscribersMoveOwnSession
<1>8. EmissionTargetsSubscribers'
  <2>1. \A p \in todo : \/ p[2] \in DOMAIN sessions /\ p[1] \in RoomsOf(sessions[p[2]])
                        \/ LeftBehind(p[1], p[2])
    BY DEF RoomsMatchSessions
  <2> HIDE DEF todo
  <2> QED BY <2>1, <1>1, <1>3, <1>4 DEF EmissionTargetsSubscribers, LeftBehind
<1>9. ControlOK'
  BY <1>1, <1>4, IdsAssumption DEF ControlOK, Goroutine
<1>10. OutboxOK'
  BY <1>3 DEF OutboxOK
<1>11. RecordsOK'
  BY <1>4 DEF RecordsOK
<1> QED BY <1>5, <1>6, <1>7, <1>8, <1>9, <1>10, <1>11

LEMMA SendIInv ==
  ASSUME IInv, NEW g \in Goroutine, NEW room \in RoomId, NEW s \in SessionId,
         Send(g, room, s)
  PROVE  IInv'
<1> USE DEF IInv
<1>1. /\ outbox' \in [Goroutine -> Outbox]
      /\ outbox'[g].event = outbox[g].event /\ outbox'[g].rooms = outbox[g].rooms
      /\ outbox'[g].todo \subseteq outbox[g].todo
      /\ \A h \in Goroutine \ {g} : outbox'[h] = outbox[h]
  BY DEF Send, TypeOK, Outbox
<1>2. UNCHANGED <<sessions, onlineUsers, rooms, pc, stage, owner, ctx, guessed>>
  BY DEF Send, smVars
<1>3. /\ eventBus' \in [SessionId -> Bus]
      /\ \A t \in SessionId : eventBus'[t].state = eventBus[t].state
  <2>1. outbox[g].event \in Event
    BY DEF Send, TypeOK
  <2>2. Append(eventBus[s].queue, outbox[g].event) \in Seq(Event)
    BY <2>1 DEF TypeOK, Bus
  <2> QED BY <2>2 DEF Send, TypeOK, Bus
<1>4. TypeOK'
  BY <1>1, <1>2, <1>3 DEF TypeOK
<1>5. RoomsMatchSessions' /\ OnlineMatchesSessions'
  BY <1>2 DEF RoomsMatchSessions, LeftBehind, OnlineMatchesSessions
<1>6. StreamingSessionRegistered' /\ SubscribersMoveOwnSession'
  BY <1>2, <1>3 DEF StreamingSessionRegistered, SubscribersMoveOwnSession
<1>7. EmissionTargetsSubscribers'
  BY <1>1, <1>2 DEF EmissionTargetsSubscribers, LeftBehind
<1>8. ControlOK' /\ RecordsOK'
  BY <1>2 DEF ControlOK, RecordsOK
<1>9. OutboxOK'
  BY <1>1 DEF OutboxOK
<1> QED BY <1>4, <1>5, <1>6, <1>7, <1>8, <1>9

LEMMA EndEmitIInv ==
  ASSUME IInv, NEW g \in Goroutine, EndEmit(g)
  PROVE  IInv'
<1> USE DEF IInv
<1>1. /\ stage[g] = "emit"
      /\ stage' \in [Goroutine -> {"idle", "ready", "emit"}]
      /\ stage'[g] = "idle" /\ \A h \in Goroutine \ {g} : stage'[h] = stage[h]
  BY DEF EndEmit, TypeOK
<1>2. /\ outbox' \in [Goroutine -> Outbox]
      /\ outbox'[g].rooms = {} /\ outbox'[g].todo = {}
      /\ \A h \in Goroutine \ {g} : outbox'[h] = outbox[h]
  <2>1. IdleOutbox \in Outbox /\ IdleOutbox.rooms = {} /\ IdleOutbox.todo = {}
    BY DEF IdleOutbox, Outbox
  <2> QED BY <2>1 DEF EndEmit, TypeOK
<1>3. /\ pc' \in [Goroutine -> Place]
      /\ \A h \in Goroutine \ {g} : pc'[h] = pc[h]
      /\ pc[g] = "online" => pc'[g] = "stream"
      /\ pc[g] = "offline" => pc'[g] = "done"
      /\ pc[g] = "ready" => pc'[g] = "ready"
      /\ pc[g] \in {"online", "offline", "ready"}
  BY <1>1 DEF EndEmit, AfterEmit, TypeOK, Place, ControlOK, Goroutine
<1>4. UNCHANGED <<sessions, onlineUsers, rooms, eventBus, owner, ctx, guessed>>
  BY DEF EndEmit, smVars
<1>5. TypeOK'
  BY <1>1, <1>2, <1>3, <1>4 DEF TypeOK
<1>6. RoomsMatchSessions' /\ OnlineMatchesSessions'
  BY <1>4 DEF RoomsMatchSessions, LeftBehind, OnlineMatchesSessions
<1>7. \A s \in SessionId :
        /\ pc[s] = "new" <=> pc'[s] = "new"
        /\ pc[s] \in {"online", "stream"} <=> pc'[s] \in {"online", "stream"}
  BY <1>3, IdsAssumption DEF ControlOK, Goroutine
<1>8. \A r \in Request : pc'[r] = pc[r]
  BY <1>1, <1>3, IdsAssumption DEF ControlOK, Goroutine
<1>9. StreamingSessionRegistered' /\ SubscribersMoveOwnSession'
  BY <1>4, <1>7, <1>8 DEF StreamingSessionRegistered, SubscribersMoveOwnSession, ControlOK
<1>10. EmissionTargetsSubscribers'
  BY <1>1, <1>2, <1>4 DEF EmissionTargetsSubscribers, LeftBehind
<1>11. ControlOK'
  <2>1. \A s \in SessionId : pc[s] \in {"new", "online", "stream", "offline", "done"} => 
          /\ pc'[s] \in {"new", "online", "stream", "offline", "done"}
          /\ stage'[s] # "idle" => pc'[s] \in {"online", "offline"}
          /\ pc'[s] \in {"online", "stream", "offline"} => owner'[s] \in UserId
    BY <1>1, <1>3, <1>4 DEF ControlOK, Goroutine
  <2>2. \A r \in Request : pc[r] = "subscribe" => stage'[r] = "idle"
    BY <1>1, IdsAssumption DEF ControlOK, Goroutine
  <2> QED BY <1>4, <1>7, <1>8, <2>1, <2>2 DEF ControlOK
<1>12. OutboxOK'
  BY <1>2 DEF OutboxOK
<1>13. RecordsOK'
  BY <1>4, <1>7 DEF RecordsOK, TypeOK
<1> QED BY <1>5, <1>6, <1>9, <1>10, <1>11, <1>12, <1>13

(* EmitToRoom, EmitToServersUserIsIn and EmitToServerMembers.              *)
LEMMA PublishIInv ==
  ASSUME IInv, NEW r \in Request, NEW e \in Payload, NEW ids \in SUBSET RoomId,
         \/ ids \subseteq ServerId
         \/ ids \subseteq UserId
         \/ \E room \in RoomId : ids = {room},
         Publish(r, e, ids)
  PROVE  IInv'
<1> USE DEF IInv
<1>1. /\ pc[r] = "ready"
      /\ stage' \in [Goroutine -> {"idle", "ready", "emit"}]
      /\ stage'[r] = "ready" /\ \A g \in Goroutine \ {r} : stage'[g] = stage[g]
  BY DEF Publish, TypeOK, Goroutine
<1>2. /\ outbox' \in [Goroutine -> Outbox]
      /\ outbox'[r].event \in Event /\ outbox'[r].rooms = ids /\ outbox'[r].todo = {}
      /\ \A g \in Goroutine \ {r} : outbox'[g] = outbox[g]
  <2>1. e \in Event
    BY DEF Event
  <2> QED BY <2>1 DEF Publish, TypeOK, Goroutine, Outbox
<1>3. UNCHANGED <<sessions, onlineUsers, rooms, eventBus, pc, owner, ctx, guessed>>
  BY DEF Publish, smVars
<1>4. TypeOK'
  BY <1>1, <1>2, <1>3 DEF TypeOK
<1>5. RoomsMatchSessions' /\ OnlineMatchesSessions'
  BY <1>3 DEF RoomsMatchSessions, LeftBehind, OnlineMatchesSessions
<1>6. StreamingSessionRegistered' /\ SubscribersMoveOwnSession'
  BY <1>3 DEF StreamingSessionRegistered, SubscribersMoveOwnSession
<1>7. EmissionTargetsSubscribers'
  BY <1>1, <1>2, <1>3 DEF EmissionTargetsSubscribers, LeftBehind
<1>8. ControlOK'
  BY <1>1, <1>3, IdsAssumption DEF ControlOK, Goroutine
<1>9. OutboxOK'
  BY <1>2 DEF OutboxOK
<1>10. RecordsOK'
  BY <1>3 DEF RecordsOK
<1> QED BY <1>4, <1>5, <1>6, <1>7, <1>8, <1>9, <1>10

LEMMA AuthSessionIdIInv ==
  ASSUME IInv, NEW r \in Request, NEW u \in UserId, NEW s \in SessionId,
         AuthSessionId(r, u, s)
  PROVE  IInv'
<1> USE DEF IInv
<1>1. /\ pc[r] = "ready" /\ stage[r] = "idle"
      /\ pc' \in [Goroutine -> Place]
      /\ pc'[r] = "subscribe" /\ \A g \in Goroutine \ {r} : pc'[g] = pc[g]
  BY DEF AuthSessionId, TypeOK, Goroutine, Place
<1>2. /\ ctx' \in [Request -> [user : UserId \cup {NoId}, session : SessionId \cup {NoId}]]
      /\ ctx'[r].user = u /\ ctx'[r].session = s
      /\ \A q \in Request \ {r} : ctx'[q] = ctx[q]
  BY DEF AuthSessionId, TypeOK
<1>3. UNCHANGED <<sessions, onlineUsers, rooms, eventBus, stage, outbox, owner>>
  BY DEF AuthSessionId, smVars
<1>10. /\ guessed \subseteq guessed' /\ guessed' \subseteq SessionId
       /\ pc[s] = "new" => s \in guessed'
  BY DEF AuthSessionId, TypeOK
<1>4. \A t \in SessionId : pc'[t] = pc[t]
  BY <1>1, IdsAssumption DEF Goroutine
<1>5. TypeOK'
  BY <1>1, <1>2, <1>3, <1>10 DEF TypeOK
<1>6. RoomsMatchSessions' /\ OnlineMatchesSessions' /\ EmissionTargetsSubscribers' /\ OutboxOK'
  <2>1. RoomsMatchSessions'
    BY <1>3, <1>10, InvMatch, MatchMore, MatchNextInv
  <2> QED BY <1>3, <1>10, <2>1 DEF OnlineMatchesSessions, EmissionTargetsSubscribers,
          LeftBehind, OutboxOK
<1>7. StreamingSessionRegistered' /\ RecordsOK'
  BY <1>3, <1>4, <1>10 DEF StreamingSessionRegistered, RecordsOK, TypeOK
<1>8. SubscribersMoveOwnSession'
  <2>1. pc[s] \in {"online", "stream"} => sessions[s].userId = u
    BY DEF AuthSessionId, StreamingSessionRegistered
  <2> QED BY <1>1, <1>2, <1>3, <1>4, <1>10, <2>1 DEF SubscribersMoveOwnSession, ControlOK,
          Goroutine
<1>9. ControlOK'
  BY <1>1, <1>2, <1>3, <1>4, <1>10 DEF ControlOK, Goroutine
<1> QED BY <1>5, <1>6, <1>7, <1>8, <1>9

LEMMA GiveUpIInv ==
  ASSUME IInv, NEW r \in Request, GiveUp(r)
  PROVE  IInv'
<1> USE DEF IInv
<1>1. /\ pc' \in [Goroutine -> Place]
      /\ pc'[r] = "ready" /\ \A g \in Goroutine \ {r} : pc'[g] = pc[g]
  BY DEF GiveUp, TypeOK, Goroutine, Place
<1>2. /\ ctx' \in [Request -> [user : UserId \cup {NoId}, session : SessionId \cup {NoId}]]
      /\ \A q \in Request \ {r} : ctx'[q] = ctx[q]
  BY DEF GiveUp, TypeOK, NoCtx
<1>3. UNCHANGED <<sessions, onlineUsers, rooms, eventBus, stage, outbox, owner, guessed>>
  BY DEF GiveUp, smVars
<1>4. \A t \in SessionId : pc'[t] = pc[t]
  BY <1>1, IdsAssumption DEF Goroutine
<1>5. TypeOK'
  BY <1>1, <1>2, <1>3 DEF TypeOK
<1>6. RoomsMatchSessions' /\ OnlineMatchesSessions' /\ EmissionTargetsSubscribers' /\ OutboxOK'
  BY <1>3 DEF RoomsMatchSessions, LeftBehind, OnlineMatchesSessions,
     EmissionTargetsSubscribers, OutboxOK
<1>7. StreamingSessionRegistered' /\ RecordsOK'
  BY <1>3, <1>4 DEF StreamingSessionRegistered, RecordsOK, TypeOK
<1>8. SubscribersMoveOwnSession'
  BY <1>1, <1>2, <1>3, <1>4 DEF SubscribersMoveOwnSession, ControlOK, Goroutine
<1>9. ControlOK'
  BY <1>1, <1>2, <1>3, <1>4 DEF ControlOK, Goroutine
<1> QED BY <1>5, <1>6, <1>7, <1>8, <1>9

LEMMA SetServerIInv ==
  ASSUME IInv, NEW r \in Request, NEW v \in ServerId, SetServer(r, v)
  PROVE  IInv'
<1> USE DEF IInv
<1> DEFINE s == ctx[r].session
           x == Lookup(s)
<1>1. s \in SessionId /\ (pc[s] = "new" => s \in guessed) /\ pc[r] = "subscribe"
  BY DEF SetServer, ControlOK
<1>2. /\ x \in Session
      /\ s \in DOMAIN sessions => x = sessions[s]
      /\ s \notin DOMAIN sessions => x = ZeroSession
  BY DEF Lookup, ZeroSession, Session, TypeOK
<1> HIDE DEF s, x
<1>3. /\ DOMAIN sessions' = DOMAIN sessions \cup {s}
      /\ \A t \in DOMAIN sessions \ {s} : sessions'[t] = sessions[t]
  BY DEF SetServer, Put, s, x
<1>4. /\ sessions'[s] \in Session
      /\ sessions'[s].userId = x.userId /\ sessions'[s].hasBus = x.hasBus
      /\ sessions'[s].serverId = v /\ sessions'[s].channelId = x.channelId
  <2>1. sessions'[s] = [x EXCEPT !.serverId = v]
    BY DEF SetServer, Put, s, x
  <2> QED BY <1>2, <2>1 DEF Session
<1>5. /\ \A t \in DOMAIN sessions : /\ sessions'[t].userId = sessions[t].userId
                                   /\ sessions'[t].hasBus = sessions[t].hasBus
      /\ s \notin DOMAIN sessions => /\ sessions'[s].userId = NoId
                                     /\ sessions'[s].hasBus = FALSE
  BY <1>2, <1>3, <1>4 DEF ZeroSession
<1>6. Match(rooms', sessions', guessed')
  <2>1. Match(rooms, sessions, guessed) /\ v \in RoomId /\ guessed' = guessed
    BY InvMatch DEF RoomId, SetServer
  <2>2. /\ RoomMap(rooms')
        /\ \A d, t : t \in Members(rooms', d) <=>
                       \/ t \in Members(rooms, d) /\ ~(d = x.serverId /\ t = s)
                       \/ d = v /\ t = s
    BY <1>1, <2>1, EnterRoomFacts DEF SetServer, Match, s, x
  <2>3. ASSUME NEW d \in RoomId, NEW t, t # s
        PROVE  /\ Named(sessions', t, d) <=> Named(sessions, t, d)
               /\ t \in Members(rooms', d) <=> t \in Members(rooms, d)
    BY <1>3, <2>2, <2>3 DEF Named
  <2>4. ASSUME NEW d \in RoomId
        PROVE  /\ Named(sessions', s, d) => s \in Members(rooms', d)
               /\ s \in Members(rooms', d) =>
                    Named(sessions', s, d) \/ (s \in guessed /\ d \notin UserId)
    <3>1. Named(sessions', s, d) <=> d \in {x.userId, v, x.channelId}
      BY <1>3, <1>4 DEF Named
    <3>2. Named(sessions, s, d) <=> d \in {x.userId, x.serverId, x.channelId}
      BY <1>2, IdsAssumption DEF Named, ZeroSession
    <3>3. d \in {x.userId, x.channelId} => d # x.serverId
      BY <1>2, IdsAssumption DEF Session, RoomId
    <3> QED BY <2>1, <2>2, <3>1, <3>2, <3>3 DEF Match
  <2> QED BY <2>1, <2>2, <2>3, <2>4 DEF Match
<1>7. /\ pc' \in [Goroutine -> Place]
      /\ pc'[r] = "ready" /\ \A g \in Goroutine \ {r} : pc'[g] = pc[g]
      /\ \A t \in SessionId : pc'[t] = pc[t]
  BY IdsAssumption DEF SetServer, TypeOK, Goroutine, Place
<1>8. /\ ctx' \in [Request -> [user : UserId \cup {NoId}, session : SessionId \cup {NoId}]]
      /\ \A q \in Request \ {r} : ctx'[q] = ctx[q]
  BY DEF SetServer, TypeOK, NoCtx
<1>9. /\ UNCHANGED <<onlineUsers, eventBus, stage, outbox, owner, guessed>>
      /\ \A g \in Goroutine : stage[g] # "emit"
  BY DEF SetServer, Unlocked, Readers
<1>10. TypeOK'
  <2>1. DOMAIN sessions' \subseteq SessionId /\ sessions' \in [DOMAIN sessions' -> Session]
    <3>1. sessions' = [t \in DOMAIN sessions' |-> sessions'[t]]
      BY DEF SetServer, Put, s
    <3> QED BY <3>1, <1>1, <1>3, <1>4 DEF TypeOK
  <2>2. DOMAIN rooms' \subseteq RoomId /\ rooms' \in [DOMAIN rooms' -> SUBSET SessionId]
    BY <1>6 DEF Match, RoomMap
  <2> QED BY <1>7, <1>8, <1>9, <2>1, <2>2 DEF TypeOK
<1>11. RoomsMatchSessions'
  BY <1>6, MatchNextInv
<1>12. OnlineMatchesSessions'
  <2>1. {sessions'[t].userId : t \in DOMAIN sessions'} \ {NoId} =
          {sessions[t].userId : t \in DOMAIN sessions} \ {NoId}
    BY <1>3, <1>5
  <2> QED BY <1>9, <2>1 DEF OnlineMatchesSessions
<1>13. StreamingSessionRegistered' /\ SubscribersMoveOwnSession'
  <2>1. StreamingSessionRegistered'
    BY <1>3, <1>7, <1>9, <1>5 DEF StreamingSessionRegistered
  <2> QED BY <1>7, <1>8, <1>9, <1>5, <2>1 DEF SubscribersMoveOwnSession,
          StreamingSessionRegistered, ControlOK, Goroutine
<1>14. EmissionTargetsSubscribers'
  BY <1>9 DEF EmissionTargetsSubscribers, LeftBehind
<1>15. ControlOK'
  BY <1>7, <1>8, <1>9 DEF ControlOK, Goroutine
<1>16. OutboxOK'
  BY <1>9 DEF OutboxOK
<1>17. RecordsOK'
  BY <1>1, <1>3, <1>7, <1>5, <1>9 DEF RecordsOK, TypeOK
<1> QED BY <1>10, <1>11, <1>12, <1>13, <1>14, <1>15, <1>16, <1>17

LEMMA SetChannelIInv ==
  ASSUME IInv, NEW r \in Request, NEW c \in ChannelId, SetChannel(r, c)
  PROVE  IInv'
<1> USE DEF IInv
<1> DEFINE s == ctx[r].session
           x == Lookup(s)
<1>1. s \in SessionId /\ (pc[s] = "new" => s \in guessed) /\ pc[r] = "subscribe"
  BY DEF SetChannel, ControlOK
<1>2. /\ x \in Session
      /\ s \in DOMAIN sessions => x = sessions[s]
      /\ s \notin DOMAIN sessions => x = ZeroSession
  BY DEF Lookup, ZeroSession, Session, TypeOK
<1> HIDE DEF s, x
<1>3. /\ DOMAIN sessions' = DOMAIN sessions \cup {s}
      /\ \A t \in DOMAIN sessions \ {s} : sessions'[t] = sessions[t]
  BY DEF SetChannel, Put, s, x
<1>4. /\ sessions'[s] \in Session
      /\ sessions'[s].userId = x.userId /\ sessions'[s].hasBus = x.hasBus
      /\ sessions'[s].channelId = c /\ sessions'[s].serverId = x.serverId
  <2>1. sessions'[s] = [x EXCEPT !.channelId = c]
    BY DEF SetChannel, Put, s, x
  <2> QED BY <1>2, <2>1 DEF Session
<1>5. /\ \A t \in DOMAIN sessions : /\ sessions'[t].userId = sessions[t].userId
                                   /\ sessions'[t].hasBus = sessions[t].hasBus
      /\ s \notin DOMAIN sessions => /\ sessions'[s].userId = NoId
                                     /\ sessions'[s].hasBus = FALSE
  BY <1>2, <1>3, <1>4 DEF ZeroSession
<1>6. Match(rooms', sessions', guessed')
  <2>1. Match(rooms, sessions, guessed) /\ c \in RoomId /\ guessed' = guessed
    BY InvMatch DEF RoomId, SetChannel
  <2>2. /\ RoomMap(rooms')
        /\ \A d, t : t \in Members(rooms', d) <=>
                       \/ t \in Members(rooms, d) /\ ~(d = x.channelId /\ t = s)
                       \/ d = c /\ t = s
    BY <1>1, <2>1, EnterRoomFacts DEF SetChannel, Match, s, x
  <2>3. ASSUME NEW d \in RoomId, NEW t, t # s
        PROVE  /\ Named(sessions', t, d) <=> Named(sessions, t, d)
               /\ t \in Members(rooms', d) <=> t \in Members(rooms, d)
    BY <1>3, <2>2, <2>3 DEF Named
  <2>4. ASSUME NEW d \in RoomId
        PROVE  /\ Named(sessions', s, d) => s \in Members(rooms', d)
               /\ s \in Members(rooms', d) =>
                    Named(sessions', s, d) \/ (s \in guessed /\ d \notin UserId)
    <3>1. Named(sessions', s, d) <=> d \in {x.userId, c, x.serverId}
      BY <1>3, <1>4 DEF Named
    <3>2. Named(sessions, s, d) <=> d \in {x.userId, x.serverId, x.channelId}
      BY <1>2, IdsAssumption DEF Named, ZeroSession
    <3>3. d \in {x.userId, x.serverId} => d # x.channelId
      BY <1>2, IdsAssumption DEF Session, RoomId
    <3> QED BY <2>1, <2>2, <3>1, <3>2, <3>3 DEF Match
  <2> QED BY <2>1, <2>2, <2>3, <2>4 DEF Match
<1>7. /\ pc' \in [Goroutine -> Place]
      /\ pc'[r] = "ready" /\ \A g \in Goroutine \ {r} : pc'[g] = pc[g]
      /\ \A t \in SessionId : pc'[t] = pc[t]
  BY IdsAssumption DEF SetChannel, TypeOK, Goroutine, Place
<1>8. /\ ctx' \in [Request -> [user : UserId \cup {NoId}, session : SessionId \cup {NoId}]]
      /\ \A q \in Request \ {r} : ctx'[q] = ctx[q]
  BY DEF SetChannel, TypeOK, NoCtx
<1>9. /\ UNCHANGED <<onlineUsers, eventBus, stage, outbox, owner, guessed>>
      /\ \A g \in Goroutine : stage[g] # "emit"
  BY DEF SetChannel, Unlocked, Readers
<1>10. TypeOK'
  <2>1. DOMAIN sessions' \subseteq SessionId /\ sessions' \in [DOMAIN sessions' -> Session]
    <3>1. sessions' = [t \in DOMAIN sessions' |-> sessions'[t]]
      BY DEF SetChannel, Put, s
    <3> QED BY <3>1, <1>1, <1>3, <1>4 DEF TypeOK
  <2>2. DOMAIN rooms' \subseteq RoomId /\ rooms' \in [DOMAIN rooms' -> SUBSET SessionId]
    BY <1>6 DEF Match, RoomMap
  <2> QED BY <1>7, <1>8, <1>9, <2>1, <2>2 DEF TypeOK
<1>11. RoomsMatchSessions'
  BY <1>6, MatchNextInv
<1>12. OnlineMatchesSessions'
  <2>1. {sessions'[t].userId : t \in DOMAIN sessions'} \ {NoId} =
          {sessions[t].userId : t \in DOMAIN sessions} \ {NoId}
    BY <1>3, <1>5
  <2> QED BY <1>9, <2>1 DEF OnlineMatchesSessions
<1>13. StreamingSessionRegistered' /\ SubscribersMoveOwnSession'
  <2>1. StreamingSessionRegistered'
    BY <1>3, <1>7, <1>9, <1>5 DEF StreamingSessionRegistered
  <2> QED BY <1>7, <1>8, <1>9, <1>5, <2>1 DEF SubscribersMoveOwnSession,
          StreamingSessionRegistered, ControlOK, Goroutine
<1>14. EmissionTargetsSubscribers'
  BY <1>9 DEF EmissionTargetsSubscribers, LeftBehind
<1>15. ControlOK'
  BY <1>7, <1>8, <1>9 DEF ControlOK, Goroutine
<1>16. OutboxOK'
  BY <1>9 DEF OutboxOK
<1>17. RecordsOK'
  BY <1>1, <1>3, <1>7, <1>5, <1>9 DEF RecordsOK, TypeOK
<1> QED BY <1>10, <1>11, <1>12, <1>13, <1>14, <1>15, <1>16, <1>17

(* RemoveSession takes the session out of every room it is in, so the room *)
(* of its user is left with the user's other sessions.                     *)
LEMMA RemoveSessionIInv ==
  ASSUME IInv, NEW s \in SessionId, RemoveSession(s)
  PROVE  IInv'
<1> USE DEF IInv
<1> DEFINE x == sessions[s]
           rm1 == LeaveIfSet(rooms, s, x.serverId)
           rm2 == LeaveIfSet(rm1, s, x.channelId)
           last == Members(rooms', x.userId) = {}
<1>1. /\ s \in DOMAIN sessions /\ x \in Session
      /\ x.userId \in UserId /\ x.userId # NoId /\ x.userId \in RoomId
      /\ x.userId = owner[s] /\ pc[s] = "stream"
  <2>1. s \in DOMAIN sessions /\ pc[s] = "stream"
    BY DEF RemoveSession
  <2>2. x.userId \in UserId /\ x.userId = owner[s]
    BY <2>1 DEF StreamingSessionRegistered
  <2> QED BY <2>1, <2>2, IdsAssumption DEF TypeOK, RoomId
<1>2. /\ DOMAIN sessions' = DOMAIN sessions \ {s}
      /\ \A t \in DOMAIN sessions' : sessions'[t] = sessions[t]
  BY DEF RemoveSession, Delete
<1>3. Match(rooms', sessions', guessed')
  <2>1. Match(rooms, sessions, guessed) /\ guessed' = guessed
    BY InvMatch DEF RemoveSession
  <2>2. rooms' = LeaveRoom(rm2, s, x.userId)
    BY DEF RemoveSession
  <2>3. /\ RoomMap(rm1)
        /\ \A d, t : t \in Members(rm1, d) <=> t \in Members(rooms, d) /\ ~(d = x.serverId /\ t = s)
    BY <2>1, LeaveIfSetFacts DEF Match
  <2> HIDE DEF rm1
  <2>4. /\ RoomMap(rm2)
        /\ \A d, t : t \in Members(rm2, d) <=> t \in Members(rm1, d) /\ ~(d = x.channelId /\ t = s)
    BY <2>3, LeaveIfSetFacts
  <2> HIDE DEF rm2
  <2>5. /\ RoomMap(rooms')
        /\ \A d, t : t \in Members(rooms', d) <=> t \in Members(rm2, d) /\ ~(d = x.userId /\ t = s)
    BY <2>2, <2>4, LeaveRoomFacts
  <2>6. ASSUME NEW d \in RoomId, s \in Members(rooms', d)
        PROVE  s \in guessed /\ d \notin UserId
    BY <2>1, <2>3, <2>4, <2>5, <2>6 DEF Match, Named
  <2>7. \A d, t : t # s => (t \in Members(rooms', d) <=> t \in Members(rooms, d))
    BY <2>3, <2>4, <2>5
  <2>8. /\ \A d : ~Named(sessions', s, d)
        /\ \A d, t : t # s => (Named(sessions', t, d) <=> Named(sessions, t, d))
    BY <1>2 DEF Named
  <2> QED BY <2>1, <2>5, <2>6, <2>7, <2>8 DEF Match
<1>4. /\ pc' = [pc EXCEPT ![s] = IF last THEN "offline" ELSE "done"]
      /\ onlineUsers' = IF last THEN onlineUsers \ {x.userId} ELSE onlineUsers
  BY DEF RemoveSession
<1> HIDE DEF x, last
<1>5. /\ pc' \in [Goroutine -> Place]
      /\ pc'[s] \in {"offline", "done"} /\ \A g \in Goroutine \ {s} : pc'[g] = pc[g]
  BY <1>4 DEF TypeOK, Goroutine, Place
<1>6. /\ eventBus' \in [SessionId -> Bus]
      /\ \A t \in SessionId \ {s} : eventBus'[t] = eventBus[t]
  BY DEF RemoveSession, TypeOK, Bus
<1>7. /\ UNCHANGED <<stage, outbox, owner, ctx, guessed>>
      /\ \A g \in Goroutine : stage[g] # "emit"
  BY DEF RemoveSession, Unlocked, Readers
<1>8. TypeOK'
  <2>1. sessions' = [t \in DOMAIN sessions' |-> sessions'[t]]
    BY DEF RemoveSession, Delete
  <2>2. DOMAIN sessions' \subseteq SessionId /\ sessions' \in [DOMAIN sessions' -> Session]
    BY <1>2, <2>1 DEF TypeOK
  <2>3. DOMAIN rooms' \subseteq RoomId /\ rooms' \in [DOMAIN rooms' -> SUBSET SessionId]
    BY <1>3 DEF Match, RoomMap
  <2>4. onlineUsers' \subseteq UserId
    BY <1>4 DEF TypeOK
  <2> QED BY <1>5, <1>6, <1>7, <2>2, <2>3, <2>4 DEF TypeOK
<1>9. RoomsMatchSessions'
  BY <1>3, MatchNextInv
<1>10. OnlineMatchesSessions'
  <2>1. last <=> ~\E t \in DOMAIN sessions' : sessions'[t].userId = x.userId
    <3>1. \A t : t \in Members(rooms', x.userId) <=>
                   t \in DOMAIN sessions' /\ sessions'[t].userId = x.userId
      BY <1>1, <1>3, <1>8, IdsAssumption DEF Match, Named, TypeOK, Session
    <3> QED BY <3>1 DEF last
  <2>2. \A u : u \in onlineUsers <=> u # NoId /\ \E t \in DOMAIN sessions : sessions[t].userId = u
    BY DEF OnlineMatchesSessions
  <2>3. \A u : u \in onlineUsers' <=> u # NoId /\ \E t \in DOMAIN sessions' : sessions'[t].userId = u
    <3>1. \A u : u # x.userId => (u \in onlineUsers' <=> u \in onlineUsers)
      BY <1>4
    <3>2. x.userId \in onlineUsers' <=> \E t \in DOMAIN sessions' : sessions'[t].userId = x.userId
      BY <1>1, <1>2, <1>4, <2>1, <2>2
    <3>3. \A u : u # x.userId =>
            ((\E t \in DOMAIN sessions' : sessions'[t].userId = u) <=>
               \E t \in DOMAIN sessions : sessions[t].userId = u)
      BY <1>2 DEF x
    <3> QED BY <1>1, <2>2, <3>1, <3>2, <3>3
  <2> QED BY <2>3 DEF OnlineMatchesSessions
<1>11. StreamingSessionRegistered'
  BY <1>2, <1>5, <1>6, <1>7 DEF StreamingSessionRegistered, Goroutine
<1>12. SubscribersMoveOwnSession'
  BY <1>2, <1>5, <1>7, IdsAssumption DEF SubscribersMoveOwnSession, StreamingSessionRegistered,
     ControlOK, Goroutine
<1>13. EmissionTargetsSubscribers'
  BY <1>7 DEF EmissionTargetsSubscribers, LeftBehind
<1>14. ControlOK'
  <2>1. \A r \in Request : pc'[r] = pc[r]
    BY <1>5, IdsAssumption DEF Goroutine
  <2>2. \A t \in SessionId : pc'[t] = "new" => pc[t] = "new"
    BY <1>5 DEF Goroutine
  <2>3. owner[s] \in UserId /\ stage[s] = "idle"
    BY <1>1 DEF ControlOK, TypeOK, Goroutine
  <2> QED BY <1>1, <1>5, <1>7, <2>1, <2>2, <2>3 DEF ControlOK, Goroutine
<1>15. OutboxOK'
  BY <1>7 DEF OutboxOK
<1>16. RecordsOK'
  BY <1>2, <1>5, <1>7 DEF RecordsOK, TypeOK, Goroutine
<1> QED BY <1>8, <1>9, <1>10, <1>11, <1>12, <1>13, <1>14, <1>15, <1>16

LEMMA NextIInv == IInv /\ [Next]_vars => IInv'
<1> SUFFICES ASSUME IInv, [Next]_vars PROVE IInv'
  OBVIOUS
<1>1. ASSUME NEW s \in SessionId, SessionStep(s) PROVE IInv'
  BY <1>1, NewSessionIInv, ReceiveIInv, RemoveSessionIInv, EmitUserOnlineChangeIInv,
     EmitUserOnlineChangeFailsIInv DEF SessionStep
<1>2. ASSUME NEW g \in Goroutine, EmitStep(g) PROVE IInv'
  BY <1>2, BeginEmitIInv, SendIInv, EndEmitIInv DEF EmitStep
<1>3. ASSUME NEW r \in Request, RequestStep(r) PROVE IInv'
  <2>1. CASE \E e \in Payload, room \in RoomId : EmitToRoom(r, e, room)
    <3>1. PICK e \in Payload, room \in RoomId : Publish(r, e, {room})
      BY <2>1 DEF EmitToRoom
    <3> QED BY <3>1, PublishIInv
  <2>2. CASE \E e \in Payload, ids \in SUBSET ServerId : EmitToServersUserIsIn(r, e, ids)
    <3>1. PICK e \in Payload, ids \in SUBSET ServerId : Publish(r, e, ids)
      BY <2>2 DEF EmitToServersUserIsIn
    <3>2. ids \in SUBSET RoomId
      BY DEF RoomId
    <3> QED BY <3>1, <3>2, PublishIInv
  <2>3. CASE \E e \in Payload, ids \in SUBSET UserId : EmitToServerMembers(r, e, ids)
    <3>1. PICK e \in Payload, ids \in SUBSET UserId : Publish(r, e, ids \cap onlineUsers)
      BY <2>3 DEF EmitToServerMembers
    <3>2. ids \cap onlineUsers \in SUBSET RoomId /\ ids \cap onlineUsers \subseteq UserId
      BY DEF RoomId
    <3> QED BY <3>1, <3>2, PublishIInv
  <2>4. CASE \E u \in UserId, s \in SessionId : AuthSessionId(r, u, s)
    BY <2>4, AuthSessionIdIInv
  <2>5. CASE GiveUp(r)
    BY <2>5, GiveUpIInv
  <2>6. CASE \E v \in ServerId : SetServer(r, v)
    BY <2>6, SetServerIInv
  <2>7. CASE \E c \in ChannelId : SetChannel(r, c)
    BY <2>7, SetChannelIInv
  <2> QED BY <1>3, <2>1, <2>2, <2>3, <2>4, <2>5, <2>6, <2>7 DEF RequestStep
<1>4. CASE UNCHANGED vars
  BY <1>4 DEF vars, IInv, TypeOK, RoomsMatchSessions, OnlineMatchesSessions,
     StreamingSessionRegistered, SubscribersMoveOwnSession, EmissionTargetsSubscribers,
     LeftBehind, ControlOK, OutboxOK, RecordsOK
<1> QED BY <1>1, <1>2, <1>3, <1>4 DEF Next

(* The inductive invariant holds in every reachable state.                 *)
THEOREM Invariance == Spec => []IInv
BY InitIInv, NextIInv, PTL DEF Spec

(***************************************************************************)
(* What follows                                                            *)
(***************************************************************************)
(* Every variable of the manager keeps its type.                           *)
THEOREM TypeCorrect == Spec => []TypeOK
<1>1. IInv => TypeOK
  BY DEF IInv
<1> QED BY <1>1, Invariance, PTL

(* The two maps that NewSession, RemoveSession, SetServer and SetChannel   *)
(* keep by hand describe the same subscriptions, but for rooms entered     *)
(* under an ID that NewSession generated later.                            *)
THEOREM RoomsConsistent == Spec => []RoomsMatchSessions
<1>1. IInv => RoomsMatchSessions
  BY DEF IInv
<1> QED BY <1>1, Invariance, PTL

(* The online users are those with a registered session: the count in      *)
(* RemoveSession is right however sessions of one user come and go.        *)
THEOREM PresenceCorrect == Spec => []OnlineMatchesSessions
<1>1. IInv => OnlineMatchesSessions
  BY DEF IInv
<1> QED BY <1>1, Invariance, PTL

(* The logged error and the panic of RemoveSession, and a second close of  *)
(* a channel, are unreachable.                                             *)
THEOREM RemovalFindsSession == Spec => []StreamingSessionRegistered
<1>1. IInv => StreamingSessionRegistered
  BY DEF IInv
<1> QED BY <1>1, Invariance, PTL

(* The check of AuthSessionId does not go stale while its session streams, *)
(* unless the ID was named before the session had it.                      *)
THEOREM SubscriptionsAreOwn == Spec => []SubscribersMoveOwnSession
<1>1. IInv => SubscribersMoveOwnSession
  BY DEF IInv
<1> QED BY <1>1, Invariance, PTL

(* Emissions send to nobody who has left the room: EmitToRoom and its kin  *)
(* keep the read lock over the whole loop.  Rooms entered under an ID that *)
(* was not generated yet are the exception.                                *)
THEOREM EmissionsOnTarget == Spec => []EmissionTargetsSubscribers
<1>1. IInv => EmissionTargetsSubscribers
  BY DEF IInv
<1> QED BY <1>1, Invariance, PTL

(* No emission ever sends on a closed channel: a record with a bus belongs *)
(* to a goroutine that has not run RemoveSession, and its bus is open.     *)
THEOREM NoPanicOnSend == Spec => []NoSendOnClosedBus
<1>1. IInv => NoSendOnClosedBus
  <2> SUFFICES ASSUME IInv, NEW g \in Goroutine, stage[g] = "emit",
                      NEW p \in outbox[g].todo, Lookup(p[2]).hasBus
               PROVE  eventBus[p[2]].state = "open"
    BY DEF NoSendOnClosedBus
  <2>1. p[2] \in DOMAIN sessions /\ p[2] \in SessionId /\ sessions[p[2]].hasBus
    BY DEF Lookup, ZeroSession, IInv, TypeOK
  <2>2. pc[p[2]] \in {"online", "stream"}
    BY <2>1 DEF IInv, RecordsOK
  <2> QED BY <2>1, <2>2 DEF IInv, StreamingSessionRegistered
<1> QED BY <1>1, Invariance, PTL

(* No session is sent the same emission twice, although an emission visits *)
(* many rooms: it visits rooms of one kind, or a single one, and a session *)
(* is in at most one room of a kind that was not left behind.              *)
THEOREM SentOnce == Spec => []OneCopyPerSession
<1>1. IInv => OneCopyPerSession
  <2> SUFFICES ASSUME IInv, NEW g \in Goroutine, stage[g] = "emit",
                      NEW p \in outbox[g].todo, NEW q \in outbox[g].todo, p[2] = q[2],
                      ~LeftBehind(p[1], p[2]), ~LeftBehind(q[1], q[2])
               PROVE  p = q
    BY DEF OneCopyPerSession
  <2> DEFINE x == sessions[p[2]]
  <2>1. p \in RoomId \X SessionId /\ q \in RoomId \X SessionId
    BY DEF IInv, TypeOK, Outbox
  <2>2. x \in Session /\ p[1] \in RoomsOf(x) /\ q[1] \in RoomsOf(x)
    BY DEF IInv, TypeOK, EmissionTargetsSubscribers
  <2>3. p[1] \in outbox[g].rooms /\ q[1] \in outbox[g].rooms
    BY DEF IInv, OutboxOK
  <2>4. /\ p[1] \in ServerId => p[1] = x.serverId
        /\ q[1] \in ServerId => q[1] = x.serverId
        /\ p[1] \in UserId => p[1] = x.userId
        /\ q[1] \in UserId => q[1] = x.userId
    <3> HIDE DEF x
    <3> QED BY <2>2, IdsAssumption DEF RoomsOf, Session, RoomId
  <2>5. p[1] = q[1]
    <3>1. \/ outbox[g].rooms \subseteq ServerId
          \/ outbox[g].rooms \subseteq UserId
          \/ \E room \in RoomId : outbox[g].rooms = {room}
      BY DEF IInv, OutboxOK
    <3>2. CASE outbox[g].rooms \subseteq ServerId
      <4>1. p[1] \in ServerId /\ q[1] \in ServerId
        BY <2>3, <3>2
      <4> QED BY <2>4, <4>1
    <3>3. CASE outbox[g].rooms \subseteq UserId
      <4>1. p[1] \in UserId /\ q[1] \in UserId
        BY <2>3, <3>3
      <4> QED BY <2>4, <4>1
    <3>4. CASE \E room \in RoomId : outbox[g].rooms = {room}
      BY <2>3, <3>4
    <3> QED BY <3>1, <3>2, <3>3, <3>4
  <2> QED BY <2>1, <2>5
<1> QED BY <1>1, Invariance, PTL

(***************************************************************************)
(* The manager implements Subscriptions                                    *)
(***************************************************************************)
(* What each listener pair means for the records, before and after a step. *)
LEMMA ListensFacts ==
  ASSUME IInv, IInv'
  PROVE  /\ Listens \subseteq RoomId \X SessionId
         /\ Listens' \subseteq RoomId \X SessionId
         /\ \A r \in RoomId, t \in SessionId : <<r, t>> \in Listens <=>
              t \in DOMAIN sessions /\ r \in {sessions[t].userId, sessions[t].serverId,
                                             sessions[t].channelId}
         /\ \A r \in RoomId, t \in SessionId : <<r, t>> \in Listens' <=>
              t \in DOMAIN sessions' /\ r \in {sessions'[t].userId, sessions'[t].serverId,
                                              sessions'[t].channelId}
<1>1. Match(rooms, sessions, guessed) /\ Match(rooms', sessions', guessed')
  BY InvMatch, InvMatchNext DEF IInv
<1>2. \A r \in RoomId, t \in SessionId : <<r, t>> \in Listens <=> Named(sessions, t, r)
  <2>1. \A r \in RoomId, t \in SessionId : r \in RoomsOf(Lookup(t)) <=> Named(sessions, t, r)
    BY IdsAssumption DEF RoomsOf, Lookup, ZeroSession, Named
  <2> QED BY <1>1, <2>1 DEF Listens, Match, LeftBehind
<1>3. \A r \in RoomId, t \in SessionId : <<r, t>> \in Listens' <=> Named(sessions', t, r)
  <2>1. \A r \in RoomId, t \in SessionId : r \in RoomsOf(Lookup(t)') <=> Named(sessions', t, r)
    BY IdsAssumption DEF RoomsOf, Lookup, ZeroSession, Named
  <2> QED BY <1>1, <2>1 DEF Listens, Match, LeftBehind
<1>4. Listens \subseteq RoomId \X SessionId /\ Listens' \subseteq RoomId \X SessionId
  BY DEF Listens
<1> QED BY <1>2, <1>3, <1>4 DEF Named

LEMMA SamePairs ==
  ASSUME NEW A \in SUBSET (RoomId \X SessionId), NEW B \in SUBSET (RoomId \X SessionId),
         \A r \in RoomId, t \in SessionId : <<r, t>> \in A <=> <<r, t>> \in B
  PROVE  A = B
OBVIOUS

LEMMA NewSessionConnects ==
  ASSUME IInv, IInv', NEW s \in SessionId, NEW u \in UserId, NewSession(s, u)
  PROVE  Abstract!Connect(s, u)
<1>1. s \in DOMAIN sessions => sessions[s] \in Session /\ sessions[s].userId = NoId
  BY DEF NewSession, IInv, RecordsOK, TypeOK
<1>2. /\ DOMAIN sessions' = DOMAIN sessions \cup {s}
      /\ sessions'[s] = NewRecord(u)
      /\ \A t \in DOMAIN sessions \ {s} : sessions'[t] = sessions[t]
  BY DEF NewSession, Put
<1>3. \A x \in UserId : <<x, s>> \notin Listens
  <2>1. ASSUME NEW x \in UserId, s \in DOMAIN sessions
        PROVE  x \notin {sessions[s].userId, sessions[s].serverId, sessions[s].channelId}
    BY <1>1, <2>1, IdsAssumption DEF Session, RoomId
  <2> QED BY <2>1, ListensFacts DEF RoomId
<1>4. Listens' = {p \in Listens : p[2] # s} \cup {<<u, s>>}
  <2> DEFINE B == {p \in Listens : p[2] # s} \cup {<<u, s>>}
  <2>1. u \in RoomId /\ B \in SUBSET (RoomId \X SessionId)
    BY ListensFacts DEF RoomId
  <2>2. ASSUME NEW r \in RoomId, NEW t \in SessionId
        PROVE  <<r, t>> \in Listens' <=> <<r, t>> \in B
    <3>1. CASE t = s
      <4>1. <<r, s>> \in Listens' <=> r \in {u, NoId}
        BY <1>2, ListensFacts DEF NewRecord
      <4> QED BY <3>1, <4>1, IdsAssumption
    <3>2. CASE t # s
      BY <1>2, <3>2, ListensFacts
    <3> QED BY <3>1, <3>2
  <2> HIDE DEF B
  <2>3. Listens' = B
    BY <2>1, <2>2, ListensFacts, SamePairs
  <2> QED BY <2>3 DEF B
<1>5. onlineUsers' = onlineUsers \cup {u}
  BY DEF NewSession
<1> QED BY <1>3, <1>4, <1>5 DEF Abstract!Connect

LEMMA RemoveSessionDisconnects ==
  ASSUME IInv, IInv', NEW s \in SessionId, RemoveSession(s)
  PROVE  Abstract!Disconnect(s)
<1>1. /\ DOMAIN sessions' = DOMAIN sessions \ {s}
      /\ \A t \in DOMAIN sessions' : sessions'[t] = sessions[t]
  BY DEF RemoveSession, Delete
<1>2. \E u \in UserId : <<u, s>> \in Listens
  <2>1. s \in DOMAIN sessions /\ sessions[s].userId \in UserId
    BY DEF RemoveSession, IInv, StreamingSessionRegistered
  <2> QED BY <2>1, ListensFacts DEF RoomId
<1>3. Listens' = {p \in Listens : p[2] # s}
  <2>1. \A r \in RoomId, t \in SessionId :
          <<r, t>> \in Listens' <=> <<r, t>> \in Listens /\ t # s
    <3> SUFFICES ASSUME NEW r \in RoomId, NEW t \in SessionId
                 PROVE  <<r, t>> \in Listens' <=> <<r, t>> \in Listens /\ t # s
      OBVIOUS
    <3>1. CASE t = s
      BY <1>1, <3>1, ListensFacts
    <3>2. CASE t # s
      BY <1>1, <3>2, ListensFacts
    <3> QED BY <3>1, <3>2
  <2> QED BY <2>1, ListensFacts, SamePairs
<1>4. onlineUsers' = {u \in UserId : \E t \in SessionId : <<u, t>> \in Listens'}
  <2>1. \A u \in UserId, t \in SessionId :
          <<u, t>> \in Listens' <=> t \in DOMAIN sessions' /\ sessions'[t].userId = u
    <3> SUFFICES ASSUME NEW u \in UserId, NEW t \in SessionId
                 PROVE  <<u, t>> \in Listens' <=> t \in DOMAIN sessions' /\ sessions'[t].userId = u
      OBVIOUS
    <3>1. t \in DOMAIN sessions' => u \notin {sessions'[t].serverId, sessions'[t].channelId}
      BY IdsAssumption DEF IInv, TypeOK, Session, RoomId
    <3>2. u \in RoomId
      BY DEF RoomId
    <3>3. <<u, t>> \in Listens' <=>
            t \in DOMAIN sessions' /\ u \in {sessions'[t].userId, sessions'[t].serverId,
                                            sessions'[t].channelId}
      BY <3>2, ListensFacts
    <3> QED BY <3>1, <3>3
  <2>2. \A u \in UserId : u \in onlineUsers' <=> \E t \in DOMAIN sessions' : sessions'[t].userId = u
    BY IdsAssumption DEF IInv, OnlineMatchesSessions, RoomId
  <2>3. onlineUsers' \subseteq UserId /\ DOMAIN sessions' \subseteq SessionId
    BY DEF IInv, TypeOK
  <2> QED BY <2>1, <2>2, <2>3
<1> QED BY <1>2, <1>3, <1>4 DEF Abstract!Disconnect

LEMMA SetServerTurns ==
  ASSUME IInv, IInv', NEW r \in Request, NEW v \in ServerId, SetServer(r, v)
  PROVE  \E s \in SessionId : Abstract!TurnTo(s, v, ServerId)
<1> DEFINE s == ctx[r].session
           x == Lookup(s)
<1>1. s \in SessionId
  BY DEF SetServer, IInv, ControlOK
<1>2. /\ x \in Session
      /\ s \in DOMAIN sessions => x = sessions[s]
      /\ s \notin DOMAIN sessions => x = ZeroSession
  BY DEF Lookup, ZeroSession, Session, IInv, TypeOK
<1> HIDE DEF s, x
<1>3. /\ DOMAIN sessions' = DOMAIN sessions \cup {s}
      /\ \A t \in DOMAIN sessions \ {s} : sessions'[t] = sessions[t]
  BY DEF SetServer, Put, s
<1>4. /\ sessions'[s].userId = x.userId /\ sessions'[s].serverId = v
      /\ sessions'[s].channelId = x.channelId
  <2>1. sessions'[s] = [x EXCEPT !.serverId = v]
    BY DEF SetServer, Put, s, x
  <2> QED BY <1>2, <2>1 DEF Session
<1>5. Listens' = {p \in Listens : ~(p[2] = s /\ p[1] \in ServerId)} \cup {<<v, s>>}
  <2> DEFINE B == {p \in Listens : ~(p[2] = s /\ p[1] \in ServerId)} \cup {<<v, s>>}
  <2>1. v \in RoomId /\ B \in SUBSET (RoomId \X SessionId)
    BY <1>1, ListensFacts DEF RoomId
  <2>2. ASSUME NEW d \in RoomId, NEW t \in SessionId
        PROVE  <<d, t>> \in Listens' <=> <<d, t>> \in B
    <3>1. CASE t # s
      BY <1>3, <3>1, ListensFacts
    <3>2. CASE t = s
      <4>1. <<d, s>> \in Listens' <=> d \in {x.userId, v, x.channelId}
        BY <1>1, <1>3, <1>4, ListensFacts
      <4>2. <<d, s>> \in Listens <=> d \in {x.userId, x.serverId, x.channelId}
        BY <1>1, <1>2, ListensFacts, IdsAssumption DEF ZeroSession
      <4>3. /\ d \in {x.userId, x.channelId} => d \notin ServerId
            /\ d = x.serverId => d \in ServerId
        BY <1>2, IdsAssumption DEF Session, RoomId
      <4> QED BY <3>2, <4>1, <4>2, <4>3
    <3> QED BY <3>1, <3>2
  <2> HIDE DEF B
  <2>3. Listens' = B
    BY <2>1, <2>2, ListensFacts, SamePairs
  <2> QED BY <2>3 DEF B
<1>6. UNCHANGED onlineUsers
  BY DEF SetServer
<1> QED BY <1>1, <1>5, <1>6 DEF Abstract!TurnTo

LEMMA SetChannelTurns ==
  ASSUME IInv, IInv', NEW r \in Request, NEW c \in ChannelId, SetChannel(r, c)
  PROVE  \E s \in SessionId : Abstract!TurnTo(s, c, ChannelId)
<1> DEFINE s == ctx[r].session
           x == Lookup(s)
<1>1. s \in SessionId
  BY DEF SetChannel, IInv, ControlOK
<1>2. /\ x \in Session
      /\ s \in DOMAIN sessions => x = sessions[s]
      /\ s \notin DOMAIN sessions => x = ZeroSession
  BY DEF Lookup, ZeroSession, Session, IInv, TypeOK
<1> HIDE DEF s, x
<1>3. /\ DOMAIN sessions' = DOMAIN sessions \cup {s}
      /\ \A t \in DOMAIN sessions \ {s} : sessions'[t] = sessions[t]
  BY DEF SetChannel, Put, s
<1>4. /\ sessions'[s].userId = x.userId /\ sessions'[s].channelId = c
      /\ sessions'[s].serverId = x.serverId
  <2>1. sessions'[s] = [x EXCEPT !.channelId = c]
    BY DEF SetChannel, Put, s, x
  <2> QED BY <1>2, <2>1 DEF Session
<1>5. Listens' = {p \in Listens : ~(p[2] = s /\ p[1] \in ChannelId)} \cup {<<c, s>>}
  <2> DEFINE B == {p \in Listens : ~(p[2] = s /\ p[1] \in ChannelId)} \cup {<<c, s>>}
  <2>1. c \in RoomId /\ B \in SUBSET (RoomId \X SessionId)
    BY <1>1, ListensFacts DEF RoomId
  <2>2. ASSUME NEW d \in RoomId, NEW t \in SessionId
        PROVE  <<d, t>> \in Listens' <=> <<d, t>> \in B
    <3>1. CASE t # s
      BY <1>3, <3>1, ListensFacts
    <3>2. CASE t = s
      <4>1. <<d, s>> \in Listens' <=> d \in {x.userId, c, x.serverId}
        BY <1>1, <1>3, <1>4, ListensFacts
      <4>2. <<d, s>> \in Listens <=> d \in {x.userId, x.channelId, x.serverId}
        BY <1>1, <1>2, ListensFacts, IdsAssumption DEF ZeroSession
      <4>3. /\ d \in {x.userId, x.serverId} => d \notin ChannelId
            /\ d = x.channelId => d \in ChannelId
        BY <1>2, IdsAssumption DEF Session, RoomId
      <4> QED BY <3>2, <4>1, <4>2, <4>3
    <3> QED BY <3>1, <3>2
  <2> HIDE DEF B
  <2>3. Listens' = B
    BY <2>1, <2>2, ListensFacts, SamePairs
  <2> QED BY <2>3 DEF B
<1>6. UNCHANGED onlineUsers
  BY DEF SetChannel
<1> QED BY <1>1, <1>5, <1>6 DEF Abstract!TurnTo

(* Every other step changes neither the rooms nor who is online.           *)
LEMMA StepImplements ==
  ASSUME IInv, IInv', [Next]_vars
  PROVE  [Abstract!Next]_(Abstract!vars)
<1> USE DEF Abstract!Next, Abstract!vars
<1>1. ASSUME UNCHANGED <<sessions, rooms, onlineUsers>>
      PROVE  UNCHANGED Abstract!vars
  <2>1. \A r \in RoomId, t \in SessionId : <<r, t>> \in Listens' <=> <<r, t>> \in Listens
    BY <1>1, ListensFacts
  <2>2. Listens' = Listens
    BY <2>1, ListensFacts, SamePairs
  <2> QED BY <1>1, <2>2
<1>2. ASSUME NEW s \in SessionId, SessionStep(s)
      PROVE  [Abstract!Next]_(Abstract!vars)
  <2>1. ASSUME NEW u \in UserId, NewSession(s, u)
        PROVE  Abstract!Next
    BY <2>1, NewSessionConnects
  <2>2. CASE RemoveSession(s)
    BY <2>2, RemoveSessionDisconnects
  <2>3. CASE Receive(s)
    BY <1>1, <2>3 DEF Receive, smVars
  <2>4. CASE \E ids \in SUBSET ServerId : EmitUserOnlineChange(s, ids)
    BY <1>1, <2>4 DEF EmitUserOnlineChange, smVars
  <2>5. CASE EmitUserOnlineChangeFails(s)
    BY <1>1, <2>5 DEF EmitUserOnlineChangeFails, smVars
  <2> QED BY <1>2, <2>1, <2>2, <2>3, <2>4, <2>5 DEF SessionStep
<1>3. ASSUME NEW g \in Goroutine, EmitStep(g)
      PROVE  UNCHANGED Abstract!vars
  BY <1>1, <1>3 DEF EmitStep, BeginEmit, Send, EndEmit, smVars
<1>4. ASSUME NEW r \in Request, RequestStep(r)
      PROVE  [Abstract!Next]_(Abstract!vars)
  <2>1. ASSUME NEW v \in ServerId, SetServer(r, v)
        PROVE  Abstract!Next
    BY <2>1, SetServerTurns
  <2>2. ASSUME NEW c \in ChannelId, SetChannel(r, c)
        PROVE  Abstract!Next
    BY <2>2, SetChannelTurns
  <2>3. CASE GiveUp(r) \/ \E u \in UserId, s \in SessionId : AuthSessionId(r, u, s)
    BY <1>1, <2>3 DEF GiveUp, AuthSessionId, smVars
  <2>4. ASSUME NEW e, NEW ids, Publish(r, e, ids)
        PROVE  UNCHANGED Abstract!vars
    BY <1>1, <2>4 DEF Publish, smVars
  <2> QED BY <1>4, <2>1, <2>2, <2>3, <2>4 DEF RequestStep, EmitToRoom,
          EmitToServersUserIsIn, EmitToServerMembers
<1>5. CASE UNCHANGED vars
  BY <1>1, <1>5 DEF vars
<1> QED BY <1>2, <1>3, <1>4, <1>5 DEF Next

(* The session manager, with its maps, lock sections, stepwise emissions   *)
(* and late requests, implements the relation of Subscriptions.            *)
THEOREM Implements == Spec => ImplementsSubscriptions
<1>1. Init => Abstract!Init
  BY DEF Init, Abstract!Init, Listens, Members
<1>2. IInv /\ IInv' /\ [Next]_vars => [Abstract!Next]_(Abstract!vars)
  BY StepImplements
<1> QED BY <1>1, <1>2, Invariance, PTL DEF Spec, ImplementsSubscriptions, Abstract!Spec

(***************************************************************************)
(* Presence is announced                                                   *)
(***************************************************************************)
(* A step that changes nobody's presence and starts no announcement.       *)
Quiet ==
  /\ UNCHANGED onlineUsers
  /\ \A s \in SessionId : pc'[s] \in {"online", "offline"} => pc'[s] = pc[s]

LEMMA OtherStepsQuiet ==
  ASSUME IInv, [Next]_vars
  PROVE  \/ Quiet
         \/ \E s \in SessionId, u \in UserId : NewSession(s, u)
         \/ \E s \in SessionId : RemoveSession(s)
<1> USE DEF Quiet
<1>1. ASSUME NEW s \in SessionId, SessionStep(s)
      PROVE  Quiet \/ RemoveSession(s) \/ \E u \in UserId : NewSession(s, u)
  <2>1. CASE Receive(s) \/ \E ids \in SUBSET ServerId : EmitUserOnlineChange(s, ids)
    BY <2>1 DEF Receive, EmitUserOnlineChange, smVars
  <2>2. CASE EmitUserOnlineChangeFails(s)
    BY <2>2 DEF EmitUserOnlineChangeFails, AfterEmit, smVars, IInv, TypeOK, Goroutine
  <2> QED BY <1>1, <2>1, <2>2 DEF SessionStep
<1>2. ASSUME NEW g \in Goroutine, EmitStep(g)
      PROVE  Quiet
  <2>1. CASE EndEmit(g)
    BY <2>1 DEF EndEmit, AfterEmit, smVars, IInv, TypeOK, Goroutine
  <2>2. CASE BeginEmit(g) \/ \E room \in RoomId, s \in SessionId : Send(g, room, s)
    BY <2>2 DEF BeginEmit, Send, smVars
  <2> QED BY <1>2, <2>1, <2>2 DEF EmitStep
<1>3. ASSUME NEW r \in Request, RequestStep(r)
      PROVE  Quiet
  <2>1. CASE \/ GiveUp(r) \/ \E u \in UserId, s \in SessionId : AuthSessionId(r, u, s)
             \/ \E v \in ServerId : SetServer(r, v)
             \/ \E c \in ChannelId : SetChannel(r, c)
    BY <2>1, IdsAssumption DEF GiveUp, AuthSessionId, SetServer, SetChannel, smVars,
       IInv, TypeOK, Goroutine
  <2>2. ASSUME NEW e, NEW ids, Publish(r, e, ids)
        PROVE  Quiet
    BY <2>2 DEF Publish, smVars
  <2> QED BY <1>3, <2>1, <2>2 DEF RequestStep, EmitToRoom, EmitToServersUserIsIn,
          EmitToServerMembers
<1>4. CASE UNCHANGED vars
  BY <1>4 DEF vars
<1> QED BY <1>1, <1>2, <1>3, <1>4 DEF Next

LEMMA NewSessionAnnounced ==
  ASSUME IInv, NEW s \in SessionId, NEW v \in UserId, NewSession(s, v), NEW u \in UserId
  PROVE  CameOnline(u) /\ WentOffline(u)
<1>1. /\ onlineUsers' = onlineUsers \cup {v}
      /\ owner'[s] = v /\ pc[s] = "new"
      /\ pc'[s] = IF v \in onlineUsers THEN "stream" ELSE "online"
      /\ \A t \in SessionId \ {s} : pc'[t] = pc[t]
  BY DEF NewSession, IInv, TypeOK, Goroutine
<1> QED BY <1>1 DEF CameOnline, WentOffline

LEMMA RemoveSessionAnnounced ==
  ASSUME IInv, NEW s \in SessionId, RemoveSession(s), NEW u \in UserId
  PROVE  CameOnline(u) /\ WentOffline(u)
<1> DEFINE x == sessions[s]
           rm == LeaveRoom(LeaveIfSet(LeaveIfSet(rooms, s, x.serverId), s, x.channelId),
                           s, x.userId)
           last == Members(rm, x.userId) = {}
<1>1. x.userId = owner[s] /\ x.userId \in UserId /\ x.userId \in onlineUsers
  <2>1. s \in DOMAIN sessions /\ x.userId = owner[s] /\ x.userId \in UserId
    BY DEF RemoveSession, IInv, StreamingSessionRegistered
  <2> QED BY <2>1, IdsAssumption DEF IInv, OnlineMatchesSessions, RoomId
<1>2. /\ onlineUsers' = IF last THEN onlineUsers \ {x.userId} ELSE onlineUsers
      /\ pc' = [pc EXCEPT ![s] = IF last THEN "offline" ELSE "done"]
      /\ owner' = owner /\ pc[s] = "stream"
  BY DEF RemoveSession
<1> HIDE DEF x, last
<1>3. /\ pc'[s] = IF last THEN "offline" ELSE "done"
      /\ \A t \in SessionId \ {s} : pc'[t] = pc[t]
  BY <1>2 DEF IInv, TypeOK, Goroutine
<1> QED BY <1>1, <1>2, <1>3 DEF CameOnline, WentOffline

(* A user's presence changes in exactly the steps after which a goroutine  *)
(* of the user announces the change.                                       *)
THEOREM Announced == Spec => PresenceChangeAnnounced
<1>1. ASSUME IInv, [Next]_vars
      PROVE  \A u \in UserId : CameOnline(u) /\ WentOffline(u)
  <2>1. CASE Quiet
    BY <2>1 DEF Quiet, CameOnline, WentOffline
  <2>2. CASE \E s \in SessionId, u \in UserId : NewSession(s, u)
    BY <1>1, <2>2, NewSessionAnnounced
  <2>3. CASE \E s \in SessionId : RemoveSession(s)
    BY <1>1, <2>3, RemoveSessionAnnounced
  <2> QED BY <1>1, <2>1, <2>2, <2>3, OtherStepsQuiet
<1> QED BY <1>1, Invariance, PTL DEF Spec, PresenceChangeAnnounced
=============================================================================
