----------------------------- MODULE Ownership ------------------------------
(***************************************************************************)
(* The handlers that create and delete servers, channels, messages and     *)
(* users, behind the middlewares that check what the user may do.          *)
(*                                                                         *)
(* A right is checked by one statement and used by another, in a handler   *)
(* that does not look again; the subscriptions that getChannels and        *)
(* getMessages make outlast their request.  In between other requests run  *)
(* and the foreign keys delete rows.  The module says that nevertheless    *)
(* every change is one that its user could have made in a single step.     *)
(*                                                                         *)
(* Each user has one session (SessionManager has more); the names of       *)
(* servers and channels are in ServerList and ChannelList.                 *)
(***************************************************************************)
EXTENDS Tables

CONSTANTS Request, NoUser, NoServer, NoChannel   \* the last three are zero values

ASSUME NoIdAssumption ==
  NoUser \notin User /\ NoServer \notin Server /\ NoChannel \notin Channel

VARIABLES
  db,           \* the tables
  by,           \* the user on whose behalf they were last changed
  given,        \* IDs that the generator has given out
  serverRoom,   \* the server whose events each user's session receives
  channelRoom,  \* the channel whose events it receives
  req           \* the request each goroutine serves

vars == <<db, by, given, serverRoom, channelRoom, req>>

Idle == [at |-> "idle", user |-> NoUser, server |-> NoServer, channel |-> NoChannel]

Answer(r) == req' = [req EXCEPT ![r] = Idle]

Init ==
  /\ db = NoRows /\ by = NoUser
  /\ given = {}
  /\ serverRoom = [u \in User |-> NoServer]
  /\ channelRoom = [u \in User |-> NoChannel]
  /\ req = [r \in Request |-> Idle]

(***************************************************************************)
(* Users                                                                   *)
(***************************************************************************)
Register(u) ==
  /\ u \notin given
  /\ given' = given \cup {u}
  /\ db' = [db EXCEPT !.users = @ \cup {u}]
  /\ by' = u
  /\ UNCHANGED <<serverRoom, channelRoom, req>>

(* The deleted user's stream stays open, and in its rooms.                 *)
DeleteUser(u) ==
  /\ u \in db.users
  /\ db' = Cascade([db EXCEPT !.users = @ \ {u}])
  /\ by' = u
  /\ UNCHANGED <<given, serverRoom, channelRoom, req>>

(* A row of server_members, which no handler writes.                       *)
Join(u, s) ==
  /\ db' = [db EXCEPT !.members = @ \cup {[server |-> s, user |-> u]}]
  /\ Valid(db')
  /\ by' = u
  /\ UNCHANGED <<given, serverRoom, channelRoom, req>>

(* The stream of the user ends, and a new one, if any, is in no room.      *)
Disconnect(u) ==
  /\ serverRoom' = [serverRoom EXCEPT ![u] = NoServer]
  /\ channelRoom' = [channelRoom EXCEPT ![u] = NoChannel]
  /\ UNCHANGED <<db, by, given, req>>

(***************************************************************************)
(* The middlewares.  AuthUser has found the user's row; a user deleted     *)
(* since then owns nothing and is a member of nothing.                     *)
(***************************************************************************)
NewServer(r, u, s, c) ==
  /\ req[r] = Idle /\ u \in db.users
  /\ s \notin given /\ c \notin given
  /\ given' = given \cup {s, c}
  /\ req' = [req EXCEPT ![r] = [at |-> "createServer", user |-> u, server |-> s, channel |-> c]]
  /\ UNCHANGED <<db, by, serverRoom, channelRoom>>

(* Mutant: members of the server pass.                                     *)
IsServerOwnerOrMember(r, u, s) ==
  /\ req[r] = Idle /\ AccessesServer(db, u, s)
  /\ \E handler \in {"deleteServer", "createChannel"} :
       req' = [req EXCEPT ![r] = [Idle EXCEPT !.at = handler, !.user = u, !.server = s]]
  /\ UNCHANGED <<db, by, given, serverRoom, channelRoom>>

IsServerOwner(r, u, s) ==
  /\ req[r] = Idle /\ OwnsServer(db, u, s)
  /\ \E handler \in {"deleteServer", "createChannel"} :
       req' = [req EXCEPT ![r] = [Idle EXCEPT !.at = handler, !.user = u, !.server = s]]
  /\ UNCHANGED <<db, by, given, serverRoom, channelRoom>>

(* Mutant: that the server exists is enough.                               *)
HasAnyServerAccess(r, u, s) ==
  /\ req[r] = Idle /\ u \in db.users /\ \E row \in db.servers : row.id = s
  /\ req' = [req EXCEPT ![r] = [Idle EXCEPT !.at = "getChannels", !.user = u, !.server = s]]
  /\ UNCHANGED <<db, by, given, serverRoom, channelRoom>>

HasServerAccess(r, u, s) ==
  /\ req[r] = Idle /\ AccessesServer(db, u, s)
  /\ req' = [req EXCEPT ![r] = [Idle EXCEPT !.at = "getChannels", !.user = u, !.server = s]]
  /\ UNCHANGED <<db, by, given, serverRoom, channelRoom>>

(* Mutant: members of the server pass.                                     *)
IsChannelOwnerOrMember(r, u, c) ==
  /\ req[r] = Idle /\ AccessesChannel(db, u, c)
  /\ \E row \in db.channels :
       /\ row.id = c
       /\ req' = [req EXCEPT ![r] = [at |-> "deleteChannel", user |-> u,
                                     server |-> row.server, channel |-> c]]
  /\ UNCHANGED <<db, by, given, serverRoom, channelRoom>>

(* The query also yields the server of the channel.                        *)
IsChannelOwner(r, u, c) ==
  /\ req[r] = Idle /\ OwnsChannel(db, u, c)
  /\ \E row \in db.channels :
       /\ row.id = c
       /\ req' = [req EXCEPT ![r] = [at |-> "deleteChannel", user |-> u,
                                     server |-> row.server, channel |-> c]]
  /\ UNCHANGED <<db, by, given, serverRoom, channelRoom>>

(* Mutant: the LEFT JOIN's condition is lost.                              *)
HasAnyChannelAccess(r, u, c) ==
  /\ req[r] = Idle /\ u \in db.users /\ \E row \in db.channels : row.id = c
  /\ \E handler \in {"createMessage", "getMessages"} :
       req' = [req EXCEPT ![r] = [Idle EXCEPT !.at = handler, !.user = u, !.channel = c]]
  /\ UNCHANGED <<db, by, given, serverRoom, channelRoom>>

HasChannelAccess(r, u, c) ==
  /\ req[r] = Idle /\ AccessesChannel(db, u, c)
  /\ \E handler \in {"createMessage", "getMessages"} :
       req' = [req EXCEPT ![r] = [Idle EXCEPT !.at = handler, !.user = u, !.channel = c]]
  /\ UNCHANGED <<db, by, given, serverRoom, channelRoom>>

(***************************************************************************)
(* The handlers                                                            *)
(***************************************************************************)
(* An error ends the request; a transaction is rolled back.  There is also *)
(* no other way on for an INSERT that a foreign key rejects or a DELETE    *)
(* that finds no row.                                                      *)
Fail(r) ==
  /\ req[r].at # "idle"
  /\ Answer(r)
  /\ UNCHANGED <<db, by, given, serverRoom, channelRoom>>

(* One transaction inserts the server and its default channel.             *)
CreateServer(r) ==
  LET x == req[r] IN
  /\ x.at = "createServer"
  /\ db' = [db EXCEPT !.servers = @ \cup {[id |-> x.server, owner |-> x.user]},
                      !.channels = @ \cup {[id |-> x.channel, server |-> x.server]}]
  /\ Valid(db')
  /\ Answer(r)
  /\ by' = x.user
  /\ UNCHANGED <<given, serverRoom, channelRoom>>

DeleteServer(r) ==
  LET x == req[r]
      row == [id |-> x.server, owner |-> x.user] IN
  /\ x.at = "deleteServer" /\ row \in db.servers
  /\ db' = Cascade([db EXCEPT !.servers = @ \ {row}])
  /\ Answer(r)
  /\ by' = x.user
  /\ UNCHANGED <<given, serverRoom, channelRoom>>

(* Mutant: the foreign key is not enforced.                                *)
CreateChannelAnyway(r, c) ==
  LET x == req[r] IN
  /\ x.at = "createChannel" /\ c \notin given
  /\ given' = given \cup {c}
  /\ db' = [db EXCEPT !.channels = @ \cup {[id |-> c, server |-> x.server]}]
  /\ Answer(r)
  /\ by' = x.user
  /\ UNCHANGED <<serverRoom, channelRoom>>

(* The handler trusts the ownership that was checked.                      *)
CreateChannel(r, c) ==
  LET x == req[r] IN
  /\ x.at = "createChannel" /\ c \notin given
  /\ given' = given \cup {c}
  /\ db' = [db EXCEPT !.channels = @ \cup {[id |-> c, server |-> x.server]}]
  /\ Valid(db')
  /\ Answer(r)
  /\ by' = x.user
  /\ UNCHANGED <<serverRoom, channelRoom>>

DeleteChannel(r) ==
  LET x == req[r]
      row == [id |-> x.channel, server |-> x.server] IN
  /\ x.at = "deleteChannel" /\ row \in db.channels
  /\ db' = Cascade([db EXCEPT !.channels = @ \ {row}])
  /\ Answer(r)
  /\ by' = x.user
  /\ UNCHANGED <<given, serverRoom, channelRoom>>

(* getChannels reads the channels and then calls SetServer, whatever has   *)
(* become of the server.                                                   *)
GetChannels(r) ==
  LET x == req[r] IN
  /\ x.at = "getChannels"
  /\ serverRoom' = [serverRoom EXCEPT ![x.user] = x.server]
  /\ Answer(r)
  /\ UNCHANGED <<db, by, given, channelRoom>>

GetMessages(r) ==
  LET x == req[r] IN
  /\ x.at = "getMessages"
  /\ channelRoom' = [channelRoom EXCEPT ![x.user] = x.channel]
  /\ Answer(r)
  /\ UNCHANGED <<db, by, given, serverRoom>>

CreateMessage(r) ==
  LET x == req[r] IN
  /\ x.at = "createMessage"
  /\ db' = [db EXCEPT !.messages = @ \cup {[channel |-> x.channel, sender |-> x.user]}]
  /\ Valid(db')
  /\ Answer(r)
  /\ by' = x.user
  /\ UNCHANGED <<given, serverRoom, channelRoom>>

(* Behind no access check; the statement names channel and sender.  This   *)
(* is the last of the sender's messages in the channel.                    *)
DeleteMessage(u, c) ==
  /\ [channel |-> c, sender |-> u] \in db.messages
  /\ db' = [db EXCEPT !.messages = @ \ {[channel |-> c, sender |-> u]}]
  /\ by' = u
  /\ UNCHANGED <<given, serverRoom, channelRoom, req>>

Next ==
  \/ \E u \in User :
       \/ Register(u) \/ DeleteUser(u) \/ Disconnect(u)
       \/ \E s \in Server : Join(u, s)
       \/ \E c \in Channel : DeleteMessage(u, c)
  \/ \E r \in Request :
       \/ \E u \in User, s \in Server :
            \/ \E c \in Channel : NewServer(r, u, s, c)
            \/ IsServerOwner(r, u, s) \/ HasServerAccess(r, u, s)
       \/ \E u \in User, c \in Channel : IsChannelOwner(r, u, c) \/ HasChannelAccess(r, u, c)
       \/ Fail(r)
       \/ CreateServer(r) \/ DeleteServer(r)
       \/ \E c \in Channel : CreateChannel(r, c)
       \/ DeleteChannel(r) \/ GetChannels(r) \/ GetMessages(r) \/ CreateMessage(r)

Spec == Init /\ [][Next]_vars

(***************************************************************************)
(* Properties                                                              *)
(***************************************************************************)
(* Types, and the foreign keys hold after every statement.                 *)
TypeOK ==
  /\ db \in Database /\ Valid(db) /\ by \in User \cup {NoUser}
  /\ given \subseteq User \cup Server \cup Channel
  /\ serverRoom \in [User -> Server \cup {NoServer}]
  /\ channelRoom \in [User -> Channel \cup {NoChannel}]
  /\ req \in [Request ->
       [at : {"idle", "createServer", "deleteServer", "createChannel", "deleteChannel",
              "getChannels", "getMessages", "createMessage"},
        user : User \cup {NoUser}, server : Server \cup {NoServer},
        channel : Channel \cup {NoChannel}]]

(* Access is checked when a subscription is made and never again, yet who  *)
(* receives the events of a server or channel that still exists has access *)
(* to it still, or has deleted the account under an open stream.           *)
ListenersHaveAccess ==
  \A u \in db.users :
    /\ (\E row \in db.servers : row.id = serverRoom[u]) => AccessesServer(db, u, serverRoom[u])
    /\ (\E row \in db.channels : row.id = channelRoom[u]) => AccessesChannel(db, u, channelRoom[u])

(* createMessage inserts long after the check and deletions cascade along  *)
(* several paths, yet every message in the table is in a channel that its  *)
(* sender has access to.                                                   *)
MessagesByMembers ==
  \A m \in db.messages : AccessesChannel(db, m.sender, m.channel)

(* Check and use are separate statements, yet every change is one that its *)
(* user (by) is entitled to at that moment: the handlers implement Registry.*)
R == INSTANCE Registry
ImplementsRegistry == R!Spec
=============================================================================
