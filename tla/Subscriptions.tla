--------------------------- MODULE Subscriptions ---------------------------
(***************************************************************************)
(* What the session manager promises, without its maps, its lock or its    *)
(* channels: a relation saying which session listens to which room, and    *)
(* the set of users that are online.  A session listens to the room of its *)
(* user, to at most one server and to at most one channel; a user is       *)
(* online exactly while one of its sessions listens to the user's room.    *)
(*                                                                         *)
(* SessionManager implements this specification (MCSessionManager checks   *)
(* it, SessionManagerProofs proves it).                                    *)
(***************************************************************************)
CONSTANTS UserId, ServerId, ChannelId, SessionId

RoomId == UserId \cup ServerId \cup ChannelId

VARIABLES
  listens,   \* set of pairs <<room, session>>
  online     \* users with at least one connected session

vars == <<listens, online>>

HasSession(u) == \E s \in SessionId : <<u, s>> \in listens

Init ==
  /\ listens = {}
  /\ online = {}

(* A session without a user connects for user u.  What was listened to     *)
(* under its identifier before is forgotten.                               *)
Connect(s, u) ==
  /\ \A x \in UserId : <<x, s>> \notin listens
  /\ listens' = {p \in listens : p[2] # s} \cup {<<u, s>>}
  /\ online' = online \cup {u}

(* A connected session goes away and stops listening to anything.  Its     *)
(* user goes offline if no other session of the user is left.              *)
Disconnect(s) ==
  /\ \E u \in UserId : <<u, s>> \in listens
  /\ listens' = {p \in listens : p[2] # s}
  /\ online' = {u \in UserId : \E x \in SessionId : <<u, x>> \in listens'}

(* Session s turns to a room of the given kind (the servers or the         *)
(* channels) and stops listening to every other room of that kind.         *)
TurnTo(s, room, kind) ==
  /\ listens' = {p \in listens : ~(p[2] = s /\ p[1] \in kind)} \cup {<<room, s>>}
  /\ UNCHANGED online

Next ==
  \E s \in SessionId :
    \/ \E u \in UserId : Connect(s, u)
    \/ Disconnect(s)
    \/ \E v \in ServerId : TurnTo(s, v, ServerId)
    \/ \E c \in ChannelId : TurnTo(s, c, ChannelId)

Spec == Init /\ [][Next]_vars
=============================================================================
