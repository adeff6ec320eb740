----------------------------- MODULE ServerList -----------------------------
(***************************************************************************)
(* The servers of one user, and what the user's tabs make of them: the     *)
(* list that getServers reads, and the events SERVER_INFO and DELETE_SERVER*)
(* that EmitToServerMembers sends to the user's room.                      *)
(*                                                                         *)
(* A tab is in the room of its user before it asks for the list, so here,  *)
(* unlike in ChatLog, nothing is lost between list and subscription.       *)
(* Instead EmitToServerMembers itself has a gap: it asks the database for  *)
(* the members, keeps those that are online, and emits under the lock      *)
(* taken anew.  And deleteServer announces the deletion before it deletes, *)
(* while the servers that go with the account of their owner, the user, are*)
(* not announced at all.                                                   *)
(*                                                                         *)
(* An emission is one step, in which any buses may be full (SessionManager *)
(* and ChatLog have both in detail).  The row of a server is identified    *)
(* with the number of the change that made it.                             *)
(***************************************************************************)
EXTENDS Naturals, Sequences, FiniteSets

CONSTANTS
  Server, Session, Request,
  NoServer,      \* zero value
  MaxChanges     \* bound on the changes committed

ASSUME NoServerAssumption == NoServer \notin Server
ASSUME BoundAssumption == MaxChanges \in Nat

VARIABLES
  rows,       \* the table servers: the change that made each row, 0 without row
  account,    \* the user has a row in the table users
  history,    \* the changes committed to the table, in that order, but for the
              \* rows that went with the account
  req,        \* the request each goroutine serves
  connected,  \* the sessions in the room of the user
  list,       \* the list each session was given last
  told,       \* the events put on each session's bus since, repetitions left out
  lost,       \* the servers with events since that found the session's bus full,
              \* and no update alone that was put on it later
  silent,     \* changes whose announcement failed
  crossed,    \* servers with requests that overlapped and no update alone since
  broken      \* servers whose deletion was announced and then failed

vars == <<rows, account, history, req, connected, list, told, lost, silent, crossed, broken>>

(***************************************************************************)
(* Data                                                                    *)
(***************************************************************************)
Kind == {"create", "info", "delete"}

Change == [kind : Kind, server : Server]

Event == [kind : {"info", "delete"}, server : Server, row : 0..MaxChanges]

(* no: the change the request has committed.  row: what it will tell.      *)
(* reach: the members it found are the user.  alone: no other request about*)
(* the server was under way since this one began.                          *)
Idle == [at |-> "idle", kind |-> "info", server |-> NoServer, no |-> 0, row |-> 0,
         reach |-> FALSE, alone |-> TRUE]

(* early: servers on the list whose deletion had been announced before.    *)
NoList == [page |-> {}, seen |-> 0, early |-> {}, open |-> FALSE]

Live == {v \in Server : rows[v] # 0}
ChangesOf(v) == {n \in DOMAIN history : history[n].server = v}
About(v) == {r \in Request : req[r].server = v}

(* An event that is repeated moves to the end.                             *)
Tell(events, e) ==
  LET same == {i \in DOMAIN events : events[i] = e}
      at   == CHOOSE i \in same : TRUE
  IN  IF same = {} THEN Append(events, e)
      ELSE Append(SubSeq(events, 1, at - 1) \o SubSeq(events, at + 1, Len(events)), e)

Answer(r) == req' = [req EXCEPT ![r] = Idle]

Commit(kind, v) ==
  /\ Len(history) < MaxChanges
  /\ history' = Append(history, [kind |-> kind, server |-> v])

Init ==
  /\ rows = [v \in Server |-> 0] /\ account = TRUE
  /\ history = <<>>
  /\ req = [r \in Request |-> Idle]
  /\ connected = {}
  /\ list = [s \in Session |-> NoList]
  /\ told = [s \in Session |-> <<>>] /\ lost = [s \in Session |-> {}]
  /\ silent = {} /\ crossed = {} /\ broken = {}

(***************************************************************************)
(* The user's tabs                                                         *)
(***************************************************************************)
Connect(s) ==
  /\ s \notin connected
  /\ connected' = connected \cup {s}
  /\ UNCHANGED <<rows, account, history, req, list, told, lost, silent, crossed, broken>>

Disconnect(s) ==
  /\ s \in connected
  /\ connected' = connected \ {s}
  /\ list' = [list EXCEPT ![s] = NoList]
  /\ told' = [told EXCEPT ![s] = <<>>] /\ lost' = [lost EXCEPT ![s] = {}]
  /\ UNCHANGED <<rows, account, history, req, silent, crossed, broken>>

(* The client asks for the list once its stream is open.                   *)
GetServers(s) ==
  /\ s \in connected
  /\ list' = [list EXCEPT ![s] =
       [page |-> {[server |-> v, row |-> rows[v]] : v \in Live}, seen |-> Len(history),
        early |-> {v \in Live : \E r \in About(v) :
                     \/ req[r].at = "delete"
                     \/ req[r].kind = "delete" /\ req[r].at = "emit" /\ ~req[r].reach},
        open |-> TRUE]]
  /\ told' = [told EXCEPT ![s] = <<>>] /\ lost' = [lost EXCEPT ![s] = {}]
  /\ UNCHANGED <<rows, account, history, req, connected, silent, crossed, broken>>

(***************************************************************************)
(* createServer, updateServerInfo, uploadServerAvatar, deleteServer        *)
(***************************************************************************)
(* Server and default channel are committed; no other tab is told.         *)
CreateServer(r, v) ==
  /\ req[r] = Idle /\ account /\ ChangesOf(v) = {}
  /\ Commit("create", v)
  /\ rows' = [rows EXCEPT ![v] = Len(history')]
  /\ UNCHANGED <<account, req, connected, list, told, lost, silent, crossed, broken>>

(* The owner's request has passed the middleware.                          *)
IsServerOwner(r, v) ==
  /\ req[r] = Idle /\ v \in Live
  /\ \E x \in {[Idle EXCEPT !.at = "update"], [Idle EXCEPT !.at = "members", !.kind = "delete"]} :
       req' = [q \in Request |->
         IF q = r THEN [x EXCEPT !.server = v, !.alone = About(v) = {}]
         ELSE [req[q] EXCEPT !.alone = @ /\ q \notin About(v)]]
  /\ crossed' = IF About(v) = {} THEN crossed ELSE crossed \cup {v}
  /\ UNCHANGED <<rows, account, history, connected, list, told, lost, silent, broken>>

(* The new name or picture is committed; or there is no new name.          *)
UpdateServer(r) ==
  LET v == req[r].server IN
  /\ req[r].at = "update" /\ v \in Live
  /\ \/ /\ Commit("info", v)
        /\ rows' = [rows EXCEPT ![v] = Len(history')]
        /\ req' = [req EXCEPT ![r].at = "read", ![r].no = Len(history')]
     \/ /\ req' = [req EXCEPT ![r].at = "read"]
        /\ UNCHANGED <<rows, history>>
  /\ UNCHANGED <<account, connected, list, told, lost, silent, crossed, broken>>

(* Mutant: what is told is put together from the row found by the check.   *)
ReadServerBefore(r) ==
  /\ req[r].at = "read" /\ rows[req[r].server] # 0
  /\ req' = [req EXCEPT ![r].at = "members",
       ![r].row = CHOOSE n \in ChangesOf(req[r].server) : n < req[r].no \/ req[r].no = 0]
  /\ UNCHANGED <<rows, account, history, connected, list, told, lost, silent, crossed, broken>>

(* The row is read again, to be told.                                      *)
ReadServer(r) ==
  /\ req[r].at = "read" /\ req[r].server \in Live
  /\ req' = [req EXCEPT ![r].at = "members", ![r].row = rows[req[r].server]]
  /\ UNCHANGED <<rows, account, history, connected, list, told, lost, silent, crossed, broken>>

(***************************************************************************)
(* EmitToServerMembers                                                     *)
(***************************************************************************)
(* Mutant: server_members is asked, which does not hold the owner.         *)
GetMembersOnly(r) ==
  /\ req[r].at = "members"
  /\ req' = [req EXCEPT ![r].at = "emit", ![r].reach = FALSE]
  /\ UNCHANGED <<rows, account, history, connected, list, told, lost, silent, crossed, broken>>

(* The owner is found if the row still exists, and kept if online.         *)
GetMemberIds(r) ==
  /\ req[r].at = "members"
  /\ req' = [req EXCEPT ![r].at = "emit",
       ![r].reach = req[r].server \in Live /\ connected # {}]
  /\ UNCHANGED <<rows, account, history, connected, list, told, lost, silent, crossed, broken>>

(* The query fails; that is logged, and the handler goes on.               *)
GetMemberIdsFails(r) ==
  LET x == req[r] IN
  /\ x.at = "members"
  /\ IF x.kind = "delete" THEN req' = [req EXCEPT ![r].at = "deleteSilently"] ELSE Answer(r)
  /\ silent' = silent \cup ({x.no} \ {0})
  /\ UNCHANGED <<rows, account, history, connected, list, told, lost, crossed, broken>>

(* Mutant: the sessions that were found with the members are addressed,    *)
(* connected or not.                                                       *)
EmitToFound(r, full) ==
  LET x == req[r] IN
  /\ x.at = "emit"
  /\ told' = [s \in Session |->
       IF x.reach
       THEN Tell(told[s], [kind |-> x.kind, server |-> x.server, row |-> x.row])
       ELSE told[s]]
  /\ IF x.kind = "delete" THEN req' = [req EXCEPT ![r].at = "delete"] ELSE Answer(r)
  /\ UNCHANGED <<rows, account, history, connected, list, lost, silent, crossed, broken>>

(* Whoever is connected now is told, if there is room on the bus; the event*)
(* is dropped for the sessions whose bus is full.                          *)
Emit(r, full) ==
  LET x     == req[r]
      heard == IF x.reach THEN connected \ full ELSE {}
      alone == x.kind = "info" /\ x.alone
  IN
  /\ x.at = "emit"
  /\ told' = [s \in Session |->
       IF s \in heard
       THEN Tell(told[s], [kind |-> x.kind, server |-> x.server, row |-> x.row])
       ELSE told[s]]
  /\ lost' = [s \in Session |->
       IF x.reach /\ s \in full THEN lost[s] \cup {x.server}
       ELSE IF s \in heard /\ alone THEN lost[s] \ {x.server}
       ELSE lost[s]]
  /\ IF x.kind = "delete" THEN req' = [req EXCEPT ![r].at = "delete"] ELSE Answer(r)
  /\ crossed' = IF alone THEN crossed \ {x.server} ELSE crossed
  /\ UNCHANGED <<rows, account, history, connected, list, silent, broken>>

(* Mutant: the DELETE may match no row, and the affected rows are not      *)
(* compared with one.                                                      *)
DeleteServerUnchecked(r) ==
  /\ req[r].at \in {"delete", "deleteSilently"}
  /\ Answer(r)
  /\ UNCHANGED <<rows, account, history, connected, list, told, lost, silent, crossed, broken>>

(* Only now the server is deleted.                                         *)
DeleteServer(r) ==
  LET v == req[r].server IN
  /\ req[r].at \in {"delete", "deleteSilently"} /\ v \in Live
  /\ Commit("delete", v)
  /\ rows' = [rows EXCEPT ![v] = 0]
  /\ silent' = IF req[r].at = "deleteSilently" THEN silent \cup {Len(history')} ELSE silent
  /\ Answer(r)
  /\ UNCHANGED <<account, connected, list, told, lost, crossed, broken>>

(* The user deletes the account.  The servers go by ON DELETE CASCADE and  *)
(* nothing is announced; the tabs stay, and requests go on that the        *)
(* middleware has let pass.                                                *)
DeleteAccount ==
  /\ account /\ account' = FALSE
  /\ rows' = [v \in Server |-> 0]
  /\ UNCHANGED <<history, req, connected, list, told, lost, silent, crossed, broken>>

(* A statement fails or finds no row, and the request ends with an error.  *)
Fail(r) ==
  LET x == req[r] IN
  /\ x.at \in {"update", "read", "delete", "deleteSilently"}
  /\ silent' = silent \cup ({x.no} \ {0})
  /\ broken' = IF x.at = "delete" /\ x.server \in Live THEN broken \cup {x.server} ELSE broken
  /\ Answer(r)
  /\ UNCHANGED <<rows, account, history, connected, list, told, lost, crossed>>

Next ==
  \/ \E s \in Session : Connect(s) \/ Disconnect(s) \/ GetServers(s)
  \/ \E r \in Request :
       \/ \E v \in Server : CreateServer(r, v) \/ IsServerOwner(r, v)
       \/ UpdateServer(r) \/ ReadServer(r)
       \/ GetMemberIds(r) \/ GetMemberIdsFails(r)
       \/ \E full \in SUBSET connected : Emit(r, full)
       \/ DeleteServer(r) \/ Fail(r)
  \/ DeleteAccount

Spec == Init /\ [][Next]_vars

(***************************************************************************)
(* Properties                                                              *)
(***************************************************************************)
TypeOK ==
  /\ rows \in [Server -> 0..Len(history)] /\ account \in BOOLEAN
  /\ history \in Seq(Change)
  /\ req \in [Request ->
       [at : {"idle", "update", "read", "members", "emit", "delete", "deleteSilently"},
        kind : Kind \ {"create"}, server : Server \cup {NoServer},
        no : 0..Len(history), row : 0..Len(history), reach : BOOLEAN,
        alone : BOOLEAN]]
  /\ connected \subseteq Session
  /\ list \in [Session -> [page : SUBSET [server : Server, row : 1..Len(history)],
                           seen : 0..Len(history), early : SUBSET Server, open : BOOLEAN]]
  /\ told \in [Session -> Seq(Event)] /\ lost \in [Session -> SUBSET Server]
  /\ silent \subseteq DOMAIN history /\ crossed \cup broken \subseteq Server
  /\ \A s \in Session \ connected : list[s] = NoList /\ told[s] = <<>> /\ lost[s] = {}

(* What session s shows of server v: the last event about it, or else the  *)
(* list; 0 if nothing.                                                     *)
View(s, v) ==
  LET about == {i \in DOMAIN told[s] : told[s][i].server = v}
      last  == told[s][CHOOSE i \in about : \A j \in about : j <= i]
  IN  IF about # {} THEN (IF last.kind = "info" THEN last.row ELSE 0)
      ELSE IF \E e \in list[s].page : e.server = v
           THEN (CHOOSE e \in list[s].page : e.server = v).row
           ELSE 0

Told(s, kind, v) == \E i \in DOMAIN told[s] : told[s][i].kind = kind /\ told[s][i].server = v

Settled(v) == About(v) = {} /\ v \notin crossed

(* The server went with the account of its owner.                          *)
WithAccount(v) == ~account /\ \A n \in ChangesOf(v) : history[n].kind # "delete"

(* deleteServer announces first.  A session goes on showing a server that  *)
(* is gone only if the announcement failed, found the session's bus full,  *)
(* or was made before the session read its list and the deletion after; if *)
(* an update that overlapped with the deletion was told last; or if the    *)
(* server went with the account of its owner, which nobody is told of.     *)
NoGhostServer ==
  \A s \in Session, v \in Server :
    list[s].open /\ rows[v] = 0 /\ View(s, v) # 0 =>
      \/ v \in list[s].early \/ v \in lost[s]
      \/ ~Settled(v)
      \/ WithAccount(v)
      \/ \E n \in ChangesOf(v) \cap silent : history[n].kind = "delete"

(* The announcement comes true: a session that was told of a deletion is   *)
(* told of one that has happened or is about to happen, unless the DELETE  *)
(* failed, after which the server stays and nothing takes the event back.  *)
AnnouncedDeletionHappens ==
  \A s \in Session, v \in Server :
    Told(s, "delete", v) =>
      \/ rows[v] = 0
      \/ \E r \in About(v) : req[r].at = "delete"
      \/ v \in broken

(* Members are looked up in one step and addressed in another, and tabs    *)
(* connect and disconnect in between; yet a session with a list misses no  *)
(* update, unless the server is gone again, the request failed, or an event*)
(* about the server found the session's bus full, which the next update    *)
(* that runs alone and is put on the bus makes up for.                     *)
NoUpdateMissed ==
  \A s \in Session, v \in Live :
    list[s].open /\ v \notin lost[s] =>
      \A n \in {m \in ChangesOf(v) : history[m].kind = "info"} :
        \/ n <= list[s].seen \/ n \in silent
        \/ \E i \in DOMAIN told[s] : told[s][i].server = v /\ told[s][i].row >= n
        \/ \E r \in About(v) : req[r].no = n

(* List and events add up: a session that shows a server shows its present *)
(* row, unless the last change was not announced, an event found the bus   *)
(* full, or requests that overlap were told in the other order; and the    *)
(* next update that runs alone and is put on the bus repairs that.         *)
ListConverges ==
  \A s \in Session, v \in Live :
    list[s].open /\ Settled(v) /\ v \notin lost[s] /\ rows[v] \notin silent /\ View(s, v) # 0 =>
      View(s, v) = rows[v]
=============================================================================
