------------------------------ MODULE Presence ------------------------------
(***************************************************************************)
(* Whether one user is online, as the sessions that look at a server the   *)
(* user is a member of see it: from the list of members, and from the      *)
(* announcements USER_ONLINE.                                              *)
(*                                                                         *)
(* SessionManager has the change and that it will be announced; here is    *)
(* what becomes of the announcement.  It starts when the mutex is released *)
(* and queries the database for the user's servers first, so that the      *)
(* announcements of two changes may overtake each other; it may fail; and a*)
(* session that has the list of members but is not in the room, or whose   *)
(* bus is full, misses it.                                                 *)
(*                                                                         *)
(* The changes of presence are numbered: after an odd one the user is      *)
(* online, after an even one offline.                                      *)
(***************************************************************************)
EXTENDS Naturals, FiniteSets

CONSTANTS
  Listener, Request,
  MaxChanges     \* bound on the changes of presence

VARIABLES
  changes,   \* how often the user came online or went offline
  req,       \* what each goroutine that serves a stream announces
  room,      \* the listeners in the room of the server
  view,      \* the last change each listener knows of
  missed,    \* the announcements each missed since it got the list
  silent,    \* the changes whose announcement failed
  crossed    \* listeners that announcements which overlapped may have misled

vars == <<changes, req, room, view, missed, silent, crossed>>

(* alone: no other announcement was under way since the change.            *)
Idle == [at |-> "idle", no |-> 0, alone |-> TRUE]
NoList == 0

Online == changes % 2 = 1
Announcing == {r \in Request : req[r] # Idle}
Answer(r) == req' = [req EXCEPT ![r] = Idle]
Listed == {l \in Listener : view[l] # NoList}

Init ==
  /\ changes = 1
  /\ req = [r \in Request |-> Idle]
  /\ room = {}
  /\ view = [l \in Listener |-> NoList]
  /\ missed = [l \in Listener |-> {}]
  /\ silent = {} /\ crossed = {}

(***************************************************************************)
(* NewSession, RemoveSession and EmitUserOlineChange                       *)
(***************************************************************************)
Begin(r) ==
  /\ changes < MaxChanges
  /\ changes' = changes + 1
  /\ req' = [q \in Request |->
       IF q = r THEN [at |-> "query", no |-> changes + 1, alone |-> Announcing = {}]
       ELSE [req[q] EXCEPT !.alone = req[q] = Idle]]
  /\ crossed' = IF Announcing = {} THEN crossed ELSE Listener
  /\ UNCHANGED <<room, view, missed, silent>>

(* Mutant: a further session of the user is announced as well.             *)
NewSessionAgain(r) ==
  \/ req[r] = Idle /\ ~Online /\ Begin(r)
  \/ /\ req[r] = Idle /\ Online
     /\ req' = [req EXCEPT ![r] = [at |-> "query", no |-> changes, alone |-> FALSE]]
     /\ UNCHANGED <<changes, room, view, missed, silent, crossed>>

(* The first session of the user.                                          *)
NewSession(r) == req[r] = Idle /\ ~Online /\ Begin(r)

(* Mutant: only coming online is announced.                                *)
RemoveSessionUnannounced(r) ==
  /\ req[r] = Idle /\ Online /\ changes < MaxChanges
  /\ changes' = changes + 1
  /\ UNCHANGED <<req, room, view, missed, silent, crossed>>

(* The last session of the user.                                           *)
RemoveSession(r) == req[r] = Idle /\ Online /\ Begin(r)

Query(r) ==
  /\ req[r].at = "query"
  /\ req' = [req EXCEPT ![r].at = "emit"]
  /\ UNCHANGED <<changes, room, view, missed, silent, crossed>>

(* The error is logged.                                                    *)
QueryFails(r) ==
  /\ req[r].at = "query"
  /\ silent' = silent \cup {req[r].no}
  /\ Answer(r)
  /\ UNCHANGED <<changes, room, view, missed, crossed>>

(* Mutant: the first full bus ends the emission.                           *)
EmitUntilFull(r) ==
  /\ req[r].at = "emit"
  /\ \E told \in SUBSET (room \cap Listed) :
       /\ view' = [l \in Listener |-> IF l \in told THEN req[r].no ELSE view[l]]
       /\ \E l \in Listener : missed' = [missed EXCEPT ![l] = @ \cup {req[r].no}]
       /\ crossed' = IF req[r].alone THEN crossed \ told ELSE crossed
  /\ Answer(r)
  /\ UNCHANGED <<changes, room, silent>>

(* Those in the room are told, except for some whose buses are full.       *)
Emit(r) ==
  /\ req[r].at = "emit"
  /\ \E told \in SUBSET (room \cap Listed) :
       /\ view' = [l \in Listener |-> IF l \in told THEN req[r].no ELSE view[l]]
       /\ missed' = [l \in Listener |->
            IF l \in Listed \ told THEN missed[l] \cup {req[r].no} ELSE missed[l]]
       /\ crossed' = IF req[r].alone THEN crossed \ told ELSE crossed
  /\ Answer(r)
  /\ UNCHANGED <<changes, room, silent>>

(***************************************************************************)
(* The listeners: getMembers, and getChannels, which moves the session     *)
(***************************************************************************)
(* The members are read from the database, and who of them is online from  *)
(* onlineUsers.                                                            *)
GetMembers(l) ==
  /\ view' = [view EXCEPT ![l] = changes]
  /\ missed' = [missed EXCEPT ![l] = {}]
  /\ crossed' = IF Announcing = {} THEN crossed \ {l} ELSE crossed
  /\ UNCHANGED <<changes, req, room, silent>>

SetServer(l) ==
  /\ l \notin room
  /\ room' = room \cup {l}
  /\ UNCHANGED <<changes, req, view, missed, silent, crossed>>

(* The session turns to another server, or is removed.                     *)
LeaveServer(l) ==
  /\ l \in room
  /\ room' = room \ {l}
  /\ view' = [view EXCEPT ![l] = NoList]
  /\ missed' = [missed EXCEPT ![l] = {}]
  /\ UNCHANGED <<changes, req, silent, crossed>>

Next ==
  \/ \E r \in Request :
       NewSession(r) \/ RemoveSession(r) \/ Query(r) \/ QueryFails(r) \/ Emit(r)
  \/ \E l \in Listener : GetMembers(l) \/ SetServer(l) \/ LeaveServer(l)

Spec == Init /\ [][Next]_vars

(***************************************************************************)
(* Properties                                                              *)
(***************************************************************************)
TypeOK ==
  /\ changes \in 0..MaxChanges
  /\ req \in [Request -> [at : {"idle", "query", "emit"}, no : 0..changes, alone : BOOLEAN]]
  /\ room \subseteq Listener
  /\ view \in [Listener -> 0..changes]
  /\ missed \in [Listener -> SUBSET (1..changes)]
  /\ silent \subseteq 1..changes /\ crossed \subseteq Listener
  /\ \A q, r \in Announcing : q # r => req[q].no # req[r].no

(* Once nothing is left to be announced, a listener that has the list of   *)
(* members shows the user online if and only if the user is: unless the    *)
(* last change was not told, or not to this listener; or announcements     *)
(* overlapped, of which the older may have come last.  The next change that*)
(* is announced by itself repairs that, and so does a new list.            *)
PresenceConverges ==
  \A l \in Listed \ crossed :
    Announcing = {} /\ changes \notin missed[l] \cup silent =>
      (view[l] % 2 = 1) = Online

(* A listener is never more than the announcements under way behind: what  *)
(* it shows is the last change but those still to be announced, dropped, or*)
(* lost, as long as no announcements overlapped.                           *)
NothingElseMissed ==
  \A l \in Listed \ crossed :
    \A n \in view[l] + 1 .. changes :
      n \in missed[l] \cup silent \/ \E r \in Announcing : req[r].no = n
=============================================================================
