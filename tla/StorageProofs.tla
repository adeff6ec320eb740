--------------------------- MODULE StorageProofs ---------------------------
(***************************************************************************)
(* Proofs about what outlives a request.                                   *)
(*                                                                         *)
(* Ownership, for any users, servers, channels and requests.  The argument *)
(* for check-then-use: an ID is given out once, so a row that a request    *)
(* has checked either is still there, unchanged, or is gone and never comes*)
(* back (Rights); who had access to what still exists still has it, because*)
(* a row of server_members goes only with its user or its server           *)
(* (EntitledToServer, EntitledToChannel); and nobody but the request that  *)
(* was given them knows the IDs of a server about to be created (Fresh).   *)
(*                                                                         *)
(* AttachmentStore, for any files, uploads and limit.  A file that is only *)
(* a part has a request writing it, or one that failed to (PartsExplained);*)
(* whoever sends a file that nobody writes meanwhile finds it as it was    *)
(* when it was opened (ServedUndisturbed).                                 *)
(***************************************************************************)
EXTENDS MCStorage, FiniteSetTheorems, SequenceTheorems, TLAPS

(***************************************************************************)
(* Ownership: the inductive invariant                                      *)
(***************************************************************************)
(* Whatever is in the tables, in a request or in a room was given out.     *)
IdsGiven ==
  /\ db.users \subseteq given
  /\ \A x \in db.servers \cup db.channels : x.id \in given
  /\ \A r \in Request :
       /\ req[r].user \in given \cup {NoUser}
       /\ req[r].server \in given \cup {NoServer}
       /\ req[r].channel \in given \cup {NoChannel}
  /\ \A u \in User :
       /\ serverRoom[u] \in given \cup {NoServer}
       /\ channelRoom[u] \in given \cup {NoChannel}
       /\ u \notin given => serverRoom[u] = NoServer /\ channelRoom[u] = NoChannel

IdsUnique ==
  /\ \A x, y \in db.servers : x.id = y.id => x = y
  /\ \A x, y \in db.channels : x.id = y.id => x = y

(* The IDs that a server about to be created will have are nobody else's.  *)
Fresh ==
  \A r \in Request : req[r].at = "createServer" =>
    /\ \A x \in db.servers : x.id # req[r].server
    /\ \A x \in db.channels : x.id # req[r].channel
    /\ \A q \in Request \ {r} : req[q].server # req[r].server /\ req[q].channel # req[r].channel
    /\ \A u \in User : serverRoom[u] # req[r].server /\ channelRoom[u] # req[r].channel

(* As long as they exist, u has access to server s, and to channel c.      *)
EntitledToServer(u, s) ==
  u \in db.users /\ (\E x \in db.servers : x.id = s) => AccessesServer(db, u, s)
EntitledToChannel(u, c) ==
  u \in db.users /\ (\E x \in db.channels : x.id = c) => AccessesChannel(db, u, c)

(* What a request was found to have a right to, it has it to still.        *)
RightsOf(x) ==
  /\ x.at # "idle" => x.user \in User
  /\ x.at \notin {"idle", "getMessages", "createMessage"} => x.server \in Server
  /\ x.at \in {"createServer", "deleteChannel", "getMessages", "createMessage"} =>
       x.channel \in Channel
  /\ x.at \in {"deleteServer", "createChannel", "deleteChannel"} =>
       \A row \in db.servers : row.id = x.server => row.owner = x.user
  /\ x.at = "deleteChannel" => \A row \in db.channels : row.id = x.channel => row.server = x.server
  /\ x.at = "getChannels" => EntitledToServer(x.user, x.server)
  /\ x.at \in {"getMessages", "createMessage"} => EntitledToChannel(x.user, x.channel)

Rights == \A r \in Request : RightsOf(req[r])

OwnInv ==
  /\ TypeOK
  /\ IdsGiven
  /\ IdsUnique
  /\ Fresh
  /\ Rights
  /\ MessagesByMembers
  /\ ListenersHaveAccess

(***************************************************************************)
(* The tables                                                              *)
(***************************************************************************)
ServersLeft(d) == {s \in d.servers : s.owner \in d.users}
ChannelsLeft(d) == {c \in d.channels : \E s \in ServersLeft(d) : s.id = c.server}

(* What Cascade leaves of each table.                                      *)
LEMMA CascadeTables ==
  ASSUME NEW d \in Database
  PROVE  /\ Cascade(d) \in Database
         /\ Cascade(d).users = d.users
         /\ Cascade(d).servers = ServersLeft(d)
         /\ Cascade(d).channels = ChannelsLeft(d)
         /\ Cascade(d).members =
              {m \in d.members : m.user \in d.users /\ \E s \in ServersLeft(d) : s.id = m.server}
         /\ Cascade(d).messages =
              {m \in d.messages : m.sender \in d.users /\ \E c \in ChannelsLeft(d) : c.id = m.channel}
<1> DEFINE servers == ServersLeft(d)
           channels == ChannelsLeft(d)
           members == {m \in d.members : m.user \in d.users /\ \E s \in servers : s.id = m.server}
           messages == {m \in d.messages : m.sender \in d.users
                                           /\ \E c \in channels : c.id = m.channel}
<1>1. Cascade(d) = [d EXCEPT !.servers = servers, !.channels = channels,
                             !.members = members, !.messages = messages]
  BY DEF Cascade, ServersLeft, ChannelsLeft
<1>2. /\ servers \subseteq d.servers /\ channels \subseteq d.channels
      /\ members \subseteq d.members /\ messages \subseteq d.messages
  BY DEF ServersLeft, ChannelsLeft
<1> HIDE DEF servers, channels, members, messages
<1>3. /\ Cascade(d) \in Database /\ Cascade(d).users = d.users
      /\ Cascade(d).servers = servers /\ Cascade(d).channels = channels
      /\ Cascade(d).members = members /\ Cascade(d).messages = messages
  BY <1>1, <1>2 DEF Database
<1> QED
  BY <1>3 DEF servers, channels, members, messages

(* Valid says that no foreign key is broken.                               *)
References(d) ==
  /\ \A s \in d.servers : s.owner \in d.users
  /\ \A c \in d.channels : \E s \in d.servers : s.id = c.server
  /\ \A m \in d.members : m.user \in d.users /\ \E s \in d.servers : s.id = m.server
  /\ \A m \in d.messages : m.sender \in d.users /\ \E c \in d.channels : c.id = m.channel

LEMMA ValidMeans == ASSUME NEW d \in Database PROVE Valid(d) <=> References(d)
<1>1. ASSUME Valid(d) PROVE References(d)
  BY <1>1, CascadeTables DEF Valid, References, ServersLeft, ChannelsLeft
<1>2. ASSUME References(d) PROVE Valid(d)
  <2>1. ServersLeft(d) = d.servers /\ ChannelsLeft(d) = d.channels
    BY <1>2 DEF References, ServersLeft, ChannelsLeft
  <2>2. \A m \in d.members : m.user \in d.users /\ \E s \in ServersLeft(d) : s.id = m.server
    BY <1>2, <2>1 DEF References
  <2>3. \A m \in d.messages : m.sender \in d.users /\ \E c \in ChannelsLeft(d) : c.id = m.channel
    BY <1>2, <2>1 DEF References
  <2>4. Cascade(d).members = d.members
    BY <2>2, CascadeTables
  <2>5. Cascade(d).messages = d.messages
    BY <2>3, CascadeTables
  <2>6. Cascade(d) \in Database /\ Cascade(d).users = d.users
        /\ Cascade(d).servers = d.servers /\ Cascade(d).channels = d.channels
    BY <2>1, CascadeTables
  <2> QED
    BY <2>4, <2>5, <2>6 DEF Database, Valid
<1> QED
  BY <1>1, <1>2

LEMMA CascadeValid == ASSUME NEW d \in Database PROVE Valid(Cascade(d))
<1>1. References(Cascade(d))
  BY CascadeTables DEF References, ServersLeft, ChannelsLeft
<1> QED
  BY <1>1, CascadeTables, ValidMeans

(* Tables e are what deletions and their cascades left of d.               *)
Shrinks(d, e) ==
  /\ e \in Database /\ References(e)
  /\ e.users \subseteq d.users /\ e.servers \subseteq d.servers
  /\ e.channels \subseteq d.channels /\ e.messages \subseteq d.messages
  /\ e.members = {m \in d.members : m.user \in e.users /\ \E s \in e.servers : s.id = m.server}

(* Tables e are d with more rows.                                          *)
Grows(d, e) ==
  /\ e \in Database /\ References(e)
  /\ d.users \subseteq e.users /\ d.servers \subseteq e.servers
  /\ d.channels \subseteq e.channels /\ d.members \subseteq e.members

(* Cascading from a part of the rows, but for server_members.              *)
LEMMA CascadeShrinks ==
  ASSUME NEW d \in Database, NEW e \in Database,
         e.users \subseteq d.users, e.servers \subseteq d.servers,
         e.channels \subseteq d.channels, e.messages \subseteq d.messages, e.members = d.members
  PROVE  Shrinks(d, Cascade(e))
<1>1. References(Cascade(e)) /\ Cascade(e) \in Database
  BY CascadeTables, CascadeValid, ValidMeans
<1> QED
  BY <1>1, CascadeTables DEF Shrinks, ServersLeft, ChannelsLeft

(* Access to what is still there is kept by deletions.                     *)
LEMMA ShrinkKeepsAccess ==
  ASSUME NEW d \in Database, NEW e, Shrinks(d, e),
         \A x, y \in d.servers : x.id = y.id => x = y,
         \A x, y \in d.channels : x.id = y.id => x = y,
         NEW u \in e.users
  PROVE  /\ \A s \in Server : AccessesServer(d, u, s) /\ (\E x \in e.servers : x.id = s) =>
                                AccessesServer(e, u, s)
         /\ \A c \in Channel : AccessesChannel(d, u, c) /\ (\E x \in e.channels : x.id = c) =>
                                 AccessesChannel(e, u, c)
<1>1. ASSUME NEW s \in Server, AccessesServer(d, u, s), NEW x \in e.servers, x.id = s
      PROVE  AccessesServer(e, u, s)
  <2>1. CASE OwnsServer(d, u, s)
    <3>1. x = [id |-> s, owner |-> u]
      BY <1>1, <2>1 DEF OwnsServer, Shrinks
    <3> QED
      BY <3>1, <1>1 DEF AccessesServer, OwnsServer
  <2>2. CASE [server |-> s, user |-> u] \in d.members
    BY <1>1, <2>2 DEF AccessesServer, Shrinks
  <2> QED
    BY <1>1, <2>1, <2>2 DEF AccessesServer
<1>2. ASSUME NEW c \in Channel, AccessesChannel(d, u, c), NEW x \in e.channels, x.id = c
      PROVE  AccessesChannel(e, u, c)
  <2>1. PICK s \in Server : [id |-> c, server |-> s] \in d.channels /\ AccessesServer(d, u, s)
    BY <1>2 DEF AccessesChannel
  <2>2. x = [id |-> c, server |-> s]
    BY <1>2, <2>1 DEF Shrinks
  <2>3. \E y \in e.servers : y.id = s
    BY <1>2, <2>2 DEF Shrinks, References
  <2> QED
    BY <1>1, <1>2, <2>1, <2>2, <2>3 DEF AccessesChannel
<1> QED
  BY <1>1, <1>2

(* New rows take no access away.                                           *)
LEMMA GrowKeepsAccess ==
  ASSUME NEW d, NEW e, Grows(d, e), NEW u
  PROVE  /\ \A s : AccessesServer(d, u, s) => AccessesServer(e, u, s)
         /\ \A c : AccessesChannel(d, u, c) => AccessesChannel(e, u, c)
BY DEF Grows, AccessesServer, AccessesChannel, OwnsServer

(* Only users have access to servers.                                      *)
LEMMA AccessIsUsers ==
  ASSUME NEW d \in Database, References(d), NEW u
  PROVE  /\ \A s : AccessesServer(d, u, s) => u \in d.users /\ \E x \in d.servers : x.id = s
         /\ \A c : AccessesChannel(d, u, c) => u \in d.users /\ \E x \in d.channels : x.id = c
BY DEF References, AccessesServer, AccessesChannel, OwnsServer, Database

(***************************************************************************)
(* Steps that change the tables                                            *)
(***************************************************************************)
Record ==
  [at : {"idle", "createServer", "deleteServer", "createChannel", "deleteChannel",
         "getChannels", "getMessages", "createMessage"},
   user : User \cup {NoUser}, server : Server \cup {NoServer}, channel : Channel \cup {NoChannel}]

(* No request begins; some may end.                                        *)
NoneBegins == req' \in [Request -> Record] /\ \A r \in Request : req'[r] \in {req[r], Idle}

LEMMA NoneBeginsFacts ==
  ASSUME OwnInv, UNCHANGED req \/ \E r \in Request : Answer(r)
  PROVE  NoneBegins
BY DEF NoneBegins, Answer, OwnInv, TypeOK, Record, Idle

(* The foreign keys are those of the table definitions.                    *)
LEMMA TablesOK == ASSUME OwnInv PROVE db \in Database /\ References(db)
BY ValidMeans DEF OwnInv, TypeOK

(* Deletions keep the invariant.                                           *)
LEMMA ShrinkKeeps ==
  ASSUME OwnInv, Shrinks(db, db'), by' \in User \cup {NoUser}, NoneBegins,
         UNCHANGED <<given, serverRoom, channelRoom>>
  PROVE  OwnInv'
<1>1. /\ db \in Database /\ db' \in Database
      /\ db'.users \subseteq db.users /\ db'.servers \subseteq db.servers
      /\ db'.channels \subseteq db.channels /\ db'.messages \subseteq db.messages
  BY TablesOK DEF Shrinks
<1>2. \A r \in Request : req'[r] = req[r] \/ req'[r] = Idle
  BY DEF NoneBegins
<1>3. Idle.at = "idle" /\ Idle.user = NoUser /\ Idle.server = NoServer /\ Idle.channel = NoChannel
  BY DEF Idle
<1>4. TypeOK'
  BY <1>1, ValidMeans DEF OwnInv, TypeOK, Shrinks, NoneBegins, Record
<1>5. IdsGiven'
  BY <1>1, <1>2, <1>3 DEF OwnInv, IdsGiven
<1>6. IdsUnique'
  BY <1>1 DEF OwnInv, IdsUnique
<1>7. Fresh'
  <2> SUFFICES ASSUME NEW r \in Request, req'[r].at = "createServer"
               PROVE  /\ \A x \in db'.servers : x.id # req'[r].server
                      /\ \A x \in db'.channels : x.id # req'[r].channel
                      /\ \A q \in Request \ {r} :
                           req'[q].server # req'[r].server /\ req'[q].channel # req'[r].channel
                      /\ \A u \in User : serverRoom'[u] # req'[r].server
                                         /\ channelRoom'[u] # req'[r].channel
    BY DEF Fresh
  <2>1. req'[r] = req[r] /\ req[r].server \in Server /\ req[r].channel \in Channel
    BY <1>2, <1>3 DEF OwnInv, Rights, RightsOf
  <2> QED
    BY <1>1, <1>2, <1>3, <2>1, NoIdAssumption DEF OwnInv, Fresh
<1>8. ASSUME NEW u \in User
      PROVE  /\ \A s \in Server : EntitledToServer(u, s) => EntitledToServer(u, s)'
             /\ \A c \in Channel : EntitledToChannel(u, c) => EntitledToChannel(u, c)'
  BY <1>1, ShrinkKeepsAccess DEF OwnInv, IdsUnique, EntitledToServer, EntitledToChannel
<1>9. Rights'
  <2> SUFFICES ASSUME NEW r \in Request PROVE RightsOf(req[r])'
    BY DEF Rights
  <2>1. CASE req'[r] = Idle
    BY <1>3, <2>1 DEF RightsOf
  <2>2. CASE req'[r] = req[r]
    BY <1>1, <1>8, <2>2 DEF OwnInv, Rights, RightsOf
  <2> QED
    BY <1>2, <2>1, <2>2
<1>10. MessagesByMembers'
  <2> SUFFICES ASSUME NEW m \in db'.messages PROVE AccessesChannel(db, m.sender, m.channel)'
    BY DEF MessagesByMembers
  <2>1. AccessesChannel(db, m.sender, m.channel) /\ m.channel \in Channel
    BY <1>1 DEF OwnInv, MessagesByMembers, Database
  <2>2. m.sender \in db'.users /\ \E c \in db'.channels : c.id = m.channel
    BY DEF Shrinks, References
  <2> QED
    BY <1>1, <2>1, <2>2, ShrinkKeepsAccess DEF OwnInv, IdsUnique
<1>11. ListenersHaveAccess'
  <2> SUFFICES ASSUME NEW u \in db'.users
               PROVE  /\ (\E x \in db'.servers : x.id = serverRoom[u]) =>
                           AccessesServer(db', u, serverRoom[u])
                      /\ (\E x \in db'.channels : x.id = channelRoom[u]) =>
                           AccessesChannel(db', u, channelRoom[u])
    BY DEF ListenersHaveAccess
  <2>1. /\ (\E x \in db'.servers : x.id = serverRoom[u]) =>
             AccessesServer(db, u, serverRoom[u]) /\ serverRoom[u] \in Server
        /\ (\E x \in db'.channels : x.id = channelRoom[u]) =>
             AccessesChannel(db, u, channelRoom[u]) /\ channelRoom[u] \in Channel
    BY <1>1 DEF OwnInv, ListenersHaveAccess, Database
  <2> QED
    BY <1>1, <2>1, ShrinkKeepsAccess DEF OwnInv, IdsUnique
<1> QED
  BY <1>4, <1>5, <1>6, <1>7, <1>9, <1>10, <1>11 DEF OwnInv

(* New rows keep it, if nobody knows their IDs and new messages are by     *)
(* members.                                                                *)
LEMMA GrowKeeps ==
  ASSUME OwnInv, Grows(db, db'), by' \in User, NoneBegins,
         UNCHANGED <<serverRoom, channelRoom>>,
         given \subseteq given', given' \subseteq User \cup Server \cup Channel,
         \A u \in db'.users \ db.users : u \in given' \ given,
         \A u \in User : u \in given' \ given => serverRoom[u] = NoServer /\ channelRoom[u] = NoChannel,
         \A x \in db'.servers \ db.servers :
           /\ x.id \in given' /\ \A r \in Request : req'[r].server # x.id
           /\ \A u \in User : serverRoom[u] # x.id,
         \A x \in db'.channels \ db.channels :
           /\ x.id \in given' /\ \A r \in Request : req'[r].channel # x.id
           /\ \A u \in User : channelRoom[u] # x.id,
         IdsUnique', MessagesByMembers'
  PROVE  OwnInv'
<1>1. /\ db \in Database /\ db' \in Database
      /\ db.users \subseteq db'.users /\ db.servers \subseteq db'.servers
      /\ db.channels \subseteq db'.channels
  BY TablesOK DEF Grows
<1>2. \A r \in Request : req'[r] = req[r] \/ req'[r] = Idle
  BY DEF NoneBegins
<1>3. Idle.at = "idle" /\ Idle.user = NoUser /\ Idle.server = NoServer /\ Idle.channel = NoChannel
  BY DEF Idle
<1>4. TypeOK'
  BY <1>1, ValidMeans DEF OwnInv, TypeOK, Grows, NoneBegins, Record
<1>5. IdsGiven'
  BY <1>1, <1>2, <1>3 DEF OwnInv, IdsGiven
<1>7. Fresh'
  <2> SUFFICES ASSUME NEW r \in Request, req'[r].at = "createServer"
               PROVE  /\ \A x \in db'.servers : x.id # req'[r].server
                      /\ \A x \in db'.channels : x.id # req'[r].channel
                      /\ \A q \in Request \ {r} :
                           req'[q].server # req'[r].server /\ req'[q].channel # req'[r].channel
                      /\ \A u \in User : serverRoom'[u] # req'[r].server
                                         /\ channelRoom'[u] # req'[r].channel
    BY DEF Fresh
  <2>1. req'[r] = req[r] /\ req[r].server \in Server /\ req[r].channel \in Channel
    BY <1>2, <1>3 DEF OwnInv, Rights, RightsOf
  <2> QED
    BY <1>2, <1>3, <2>1, NoIdAssumption DEF OwnInv, Fresh
<1>8. ASSUME NEW r \in Request, req'[r] = req[r], req[r].at # "idle"
      PROVE  /\ req[r].user \in User /\ (req[r].user \in db'.users => req[r].user \in db.users)
             /\ \A x \in db'.servers : x.id = req[r].server => x \in db.servers
             /\ \A x \in db'.channels : x.id = req[r].channel => x \in db.channels
  BY <1>1, <1>8, NoIdAssumption DEF OwnInv, IdsGiven, Rights, RightsOf
<1>9. Rights'
  <2> SUFFICES ASSUME NEW r \in Request PROVE RightsOf(req[r])'
    BY DEF Rights
  <2>1. CASE req'[r] = Idle
    BY <1>3, <2>1 DEF RightsOf
  <2>2. CASE req'[r] = req[r]
    BY <1>1, <1>8, <2>2, GrowKeepsAccess
    DEF OwnInv, Rights, RightsOf, EntitledToServer, EntitledToChannel
  <2> QED
    BY <1>2, <2>1, <2>2
<1>11. ListenersHaveAccess'
  <2> SUFFICES ASSUME NEW u \in db'.users
               PROVE  /\ \A x \in db'.servers :
                           x.id = serverRoom[u] => AccessesServer(db', u, serverRoom[u])
                      /\ \A x \in db'.channels :
                           x.id = channelRoom[u] => AccessesChannel(db', u, channelRoom[u])
    BY DEF ListenersHaveAccess
  <2>1. CASE u \in db.users
    BY <1>1, <2>1, GrowKeepsAccess DEF OwnInv, ListenersHaveAccess, Database
  <2>2. CASE u \notin db.users
    BY <1>1, <2>2, NoIdAssumption DEF Database
  <2> QED
    BY <2>1, <2>2
<1> QED
  BY <1>4, <1>5, <1>7, <1>9, <1>11 DEF OwnInv

LEMMA DeleteUserKeeps ==
  ASSUME OwnInv, NEW u \in User, DeleteUser(u)
  PROVE  OwnInv'
<1> DEFINE e == [db EXCEPT !.users = db.users \ {u}]
<1>1. e \in Database /\ e.users = db.users \ {u} /\ e.servers = db.servers
      /\ e.channels = db.channels /\ e.messages = db.messages /\ e.members = db.members
  BY TablesOK DEF Database
<1>2. db' = Cascade(e) /\ by' \in User /\ UNCHANGED <<given, serverRoom, channelRoom, req>>
  BY DEF DeleteUser
<1> HIDE DEF e
<1>3. Shrinks(db, db')
  BY <1>1, <1>2, TablesOK, CascadeShrinks
<1> QED
  BY <1>2, <1>3, ShrinkKeeps, NoneBeginsFacts

LEMMA DeleteServerKeeps ==
  ASSUME OwnInv, NEW r \in Request, DeleteServer(r)
  PROVE  OwnInv'
<1> DEFINE row == [id |-> req[r].server, owner |-> req[r].user]
           e == [db EXCEPT !.servers = db.servers \ {row}]
<1>1. e \in Database /\ e.users = db.users /\ e.servers \subseteq db.servers
      /\ e.channels = db.channels /\ e.messages = db.messages /\ e.members = db.members
  BY TablesOK DEF Database
<1>2. db' = Cascade(e) /\ by' \in User /\ Answer(r)
      /\ UNCHANGED <<given, serverRoom, channelRoom>>
  BY DEF DeleteServer, OwnInv, Rights, RightsOf
<1> HIDE DEF e
<1>3. Shrinks(db, db')
  BY <1>1, <1>2, TablesOK, CascadeShrinks
<1> QED
  BY <1>2, <1>3, ShrinkKeeps, NoneBeginsFacts

LEMMA DeleteChannelKeeps ==
  ASSUME OwnInv, NEW r \in Request, DeleteChannel(r)
  PROVE  OwnInv'
<1> DEFINE row == [id |-> req[r].channel, server |-> req[r].server]
           e == [db EXCEPT !.channels = db.channels \ {row}]
<1>1. e \in Database /\ e.users = db.users /\ e.servers = db.servers
      /\ e.channels \subseteq db.channels /\ e.messages = db.messages /\ e.members = db.members
  BY TablesOK DEF Database
<1>2. db' = Cascade(e) /\ by' \in User /\ Answer(r)
      /\ UNCHANGED <<given, serverRoom, channelRoom>>
  BY DEF DeleteChannel, OwnInv, Rights, RightsOf
<1> HIDE DEF e
<1>3. Shrinks(db, db')
  BY <1>1, <1>2, TablesOK, CascadeShrinks
<1> QED
  BY <1>2, <1>3, ShrinkKeeps, NoneBeginsFacts

LEMMA DeleteMessageKeeps ==
  ASSUME OwnInv, NEW u \in User, NEW c \in Channel, DeleteMessage(u, c)
  PROVE  OwnInv'
<1>1. db' = [db EXCEPT !.messages = db.messages \ {[channel |-> c, sender |-> u]}]
      /\ by' \in User /\ UNCHANGED <<given, serverRoom, channelRoom, req>>
  BY DEF DeleteMessage
<1>2. db' \in Database /\ db'.users = db.users /\ db'.servers = db.servers
      /\ db'.channels = db.channels /\ db'.members = db.members /\ db'.messages \subseteq db.messages
  BY <1>1, TablesOK DEF Database
<1>3. Shrinks(db, db')
  BY <1>2, TablesOK DEF Shrinks, References
<1> QED
  BY <1>1, <1>3, ShrinkKeeps, NoneBeginsFacts

LEMMA RegisterKeeps ==
  ASSUME OwnInv, NEW u \in User, Register(u)
  PROVE  OwnInv'
<1>1. db' = [db EXCEPT !.users = db.users \cup {u}] /\ by' \in User /\ u \notin given
      /\ given' = given \cup {u} /\ UNCHANGED <<serverRoom, channelRoom, req>>
  BY DEF Register
<1>2. db' \in Database /\ db'.users = db.users \cup {u} /\ db'.servers = db.servers
      /\ db'.channels = db.channels /\ db'.members = db.members /\ db'.messages = db.messages
  BY <1>1, TablesOK DEF Database
<1>3. Grows(db, db')
  BY <1>2, TablesOK DEF Grows, References
<1>4. IdsUnique'
  BY <1>2 DEF OwnInv, IdsUnique
<1>5. MessagesByMembers'
  BY <1>2, <1>3, GrowKeepsAccess DEF OwnInv, MessagesByMembers
<1>6. \A v \in User : v \in given' \ given => serverRoom[v] = NoServer /\ channelRoom[v] = NoChannel
  BY <1>1 DEF OwnInv, IdsGiven
<1> QED
  BY <1>1, <1>2, <1>3, <1>4, <1>5, <1>6, GrowKeeps, NoneBeginsFacts DEF OwnInv, TypeOK, IdsGiven

LEMMA JoinKeeps ==
  ASSUME OwnInv, NEW u \in User, NEW s \in Server, Join(u, s)
  PROVE  OwnInv'
<1>1. db' = [db EXCEPT !.members = db.members \cup {[server |-> s, user |-> u]}] /\ by' \in User
      /\ Valid(db') /\ UNCHANGED <<given, serverRoom, channelRoom, req>>
  BY DEF Join
<1>2. db' \in Database /\ db'.users = db.users /\ db'.servers = db.servers
      /\ db'.channels = db.channels /\ db.members \subseteq db'.members /\ db'.messages = db.messages
  BY <1>1, TablesOK DEF Database
<1>3. Grows(db, db')
  BY <1>1, <1>2, ValidMeans DEF Grows
<1>4. IdsUnique'
  BY <1>2 DEF OwnInv, IdsUnique
<1>5. MessagesByMembers'
  BY <1>2, <1>3, GrowKeepsAccess DEF OwnInv, MessagesByMembers
<1> QED
  BY <1>1, <1>2, <1>3, <1>4, <1>5, GrowKeeps, NoneBeginsFacts DEF OwnInv, TypeOK

LEMMA CreateServerKeeps ==
  ASSUME OwnInv, NEW r \in Request, CreateServer(r)
  PROVE  OwnInv'
<1> DEFINE x == req[r]
           server == [id |-> x.server, owner |-> x.user]
           channel == [id |-> x.channel, server |-> x.server]
<1>1. /\ db' = [db EXCEPT !.servers = db.servers \cup {server}, !.channels = db.channels \cup {channel}]
      /\ x.at = "createServer" /\ Valid(db') /\ by' = x.user /\ Answer(r)
      /\ UNCHANGED <<given, serverRoom, channelRoom>>
  BY DEF CreateServer
<1>2. x.user \in User /\ x.server \in Server /\ x.channel \in Channel
  BY <1>1 DEF OwnInv, Rights, RightsOf
<1>3. db' \in Database /\ db'.users = db.users /\ db'.servers = db.servers \cup {server}
      /\ db'.channels = db.channels \cup {channel} /\ db'.members = db.members
      /\ db'.messages = db.messages
  <2>1. /\ db.servers \cup {server} \subseteq [id : Server, owner : User]
        /\ db.channels \cup {channel} \subseteq [id : Channel, server : Server]
    BY <1>2, TablesOK DEF Database
  <2> HIDE DEF server, channel
  <2> QED
    BY <1>1, <2>1, TablesOK DEF Database
<1>4. Grows(db, db')
  BY <1>1, <1>3, ValidMeans DEF Grows
<1>5. IdsUnique'
  BY <1>1, <1>3 DEF OwnInv, IdsUnique, Fresh
<1>6. MessagesByMembers'
  BY <1>3, <1>4, GrowKeepsAccess DEF OwnInv, MessagesByMembers
<1>7. /\ x.server \in given /\ x.channel \in given
      /\ \A u \in User : serverRoom[u] # x.server /\ channelRoom[u] # x.channel
      /\ \A q \in Request : req'[q].server # x.server /\ req'[q].channel # x.channel
  BY <1>1, <1>2, NoIdAssumption DEF OwnInv, IdsGiven, Fresh, Answer, Idle, TypeOK
<1> QED
  BY <1>1, <1>2, <1>3, <1>4, <1>5, <1>6, <1>7, GrowKeeps, NoneBeginsFacts DEF OwnInv, TypeOK

LEMMA CreateChannelKeeps ==
  ASSUME OwnInv, NEW r \in Request, NEW c \in Channel, CreateChannel(r, c)
  PROVE  OwnInv'
<1> DEFINE x == req[r]
           channel == [id |-> c, server |-> x.server]
<1>1. /\ db' = [db EXCEPT !.channels = db.channels \cup {channel}]
      /\ x.at = "createChannel" /\ Valid(db') /\ by' = x.user /\ Answer(r)
      /\ c \notin given /\ given' = given \cup {c}
      /\ UNCHANGED <<serverRoom, channelRoom>>
  BY DEF CreateChannel
<1>2. x.user \in User /\ x.server \in Server
  BY <1>1 DEF OwnInv, Rights, RightsOf
<1>3. db' \in Database /\ db'.users = db.users /\ db'.servers = db.servers
      /\ db'.channels = db.channels \cup {channel} /\ db'.members = db.members
      /\ db'.messages = db.messages
  BY <1>1, <1>2, TablesOK DEF Database
<1>4. Grows(db, db')
  BY <1>1, <1>3, ValidMeans DEF Grows
<1>5. IdsUnique'
  BY <1>1, <1>3 DEF OwnInv, IdsUnique, IdsGiven
<1>6. MessagesByMembers'
  BY <1>3, <1>4, GrowKeepsAccess DEF OwnInv, MessagesByMembers
<1>7. /\ \A u \in User : channelRoom[u] # c
      /\ \A q \in Request : req'[q].channel # c
      /\ \A u \in User : u \in given' \ given => serverRoom[u] = NoServer /\ channelRoom[u] = NoChannel
  BY <1>1, NoIdAssumption DEF OwnInv, IdsGiven, Answer, Idle, TypeOK
<1> QED
  BY <1>1, <1>2, <1>3, <1>4, <1>5, <1>6, <1>7, GrowKeeps, NoneBeginsFacts DEF OwnInv, TypeOK

(* A message is inserted long after the check; the foreign keys say that   *)
(* its channel and its sender are still there, and so is the access.       *)
LEMMA CreateMessageKeeps ==
  ASSUME OwnInv, NEW r \in Request, CreateMessage(r)
  PROVE  OwnInv' /\ AccessesChannel(db, req[r].user, req[r].channel)
<1> DEFINE x == req[r]
           message == [channel |-> x.channel, sender |-> x.user]
<1>1. /\ db' = [db EXCEPT !.messages = db.messages \cup {message}]
      /\ x.at = "createMessage" /\ Valid(db') /\ by' = x.user /\ Answer(r)
      /\ UNCHANGED <<given, serverRoom, channelRoom>>
  BY DEF CreateMessage
<1>2. x.user \in User /\ x.channel \in Channel /\ EntitledToChannel(x.user, x.channel)
  BY <1>1 DEF OwnInv, Rights, RightsOf
<1>3. db' \in Database /\ db'.users = db.users /\ db'.servers = db.servers
      /\ db'.channels = db.channels /\ db'.members = db.members
      /\ db'.messages = db.messages \cup {message}
  BY <1>1, <1>2, TablesOK DEF Database
<1>4. Grows(db, db')
  BY <1>1, <1>3, ValidMeans DEF Grows
<1>5. AccessesChannel(db, x.user, x.channel)
  <2>1. message \in db'.messages /\ References(db')
    BY <1>3, <1>4 DEF Grows
  <2>2. x.user \in db.users /\ \E c \in db.channels : c.id = x.channel
    BY <1>3, <2>1 DEF References
  <2> QED
    BY <1>2, <2>2 DEF EntitledToChannel
<1>6. MessagesByMembers'
  BY <1>3, <1>4, <1>5, GrowKeepsAccess DEF OwnInv, MessagesByMembers
<1>7. IdsUnique'
  BY <1>3 DEF OwnInv, IdsUnique
<1> QED
  BY <1>1, <1>2, <1>3, <1>4, <1>5, <1>6, <1>7, GrowKeeps, NoneBeginsFacts DEF OwnInv, TypeOK

(***************************************************************************)
(* Steps that leave the tables alone                                       *)
(***************************************************************************)
(* A request begins as y.                                                  *)
LEMMA BeginKeeps ==
  ASSUME OwnInv, NEW r \in Request, req[r] = Idle, NEW y \in Record,
         req' = [req EXCEPT ![r] = y], UNCHANGED <<db, by, serverRoom, channelRoom>>,
         given \subseteq given', given' \subseteq User \cup Server \cup Channel,
         \A u \in User : u \in given' \ given => serverRoom[u] = NoServer /\ channelRoom[u] = NoChannel,
         y.user \in given', y.server \in given' \cup {NoServer}, y.channel \in given' \cup {NoChannel},
         RightsOf(y), y.at # "idle",
         y.at = "createServer" => y.server \notin given /\ y.channel \notin given,
         y.at # "createServer" =>
           /\ y.server = NoServer \/ \E x \in db.servers : x.id = y.server
           /\ y.channel = NoChannel \/ \E x \in db.channels : x.id = y.channel
  PROVE  OwnInv'
<1>1. req' \in [Request -> Record] /\ req'[r] = y /\ \A q \in Request \ {r} : req'[q] = req[q]
  BY DEF OwnInv, TypeOK, Record
<1>2. TypeOK'
  BY <1>1 DEF OwnInv, TypeOK, Record
<1>3. IdsGiven'
  BY <1>1 DEF OwnInv, IdsGiven
<1>4. IdsUnique' /\ MessagesByMembers' /\ ListenersHaveAccess'
  BY DEF OwnInv, IdsUnique, MessagesByMembers, ListenersHaveAccess
<1>5. Rights'
  BY <1>1 DEF OwnInv, Rights, RightsOf, EntitledToServer, EntitledToChannel
<1>6. Fresh'
  <2> SUFFICES ASSUME NEW p \in Request, req'[p].at = "createServer"
               PROVE  /\ \A x \in db.servers : x.id # req'[p].server
                      /\ \A x \in db.channels : x.id # req'[p].channel
                      /\ \A q \in Request \ {p} :
                           req'[q].server # req'[p].server /\ req'[q].channel # req'[p].channel
                      /\ \A u \in User : serverRoom[u] # req'[p].server
                                         /\ channelRoom[u] # req'[p].channel
    BY DEF Fresh
  <2>1. req'[p].server \in Server /\ req'[p].channel \in Channel
    BY <1>5 DEF Rights, RightsOf
  <2>2. CASE p = r
    BY <1>1, <2>1, <2>2, NoIdAssumption DEF OwnInv, IdsGiven
  <2>3. CASE p # r
    <3>1. y.at = "createServer" => y.server # req[p].server /\ y.channel # req[p].channel
      BY <1>1, <2>1, <2>3, NoIdAssumption DEF OwnInv, IdsGiven
    <3>2. y.at # "createServer" => y.server # req[p].server /\ y.channel # req[p].channel
      BY <1>1, <2>1, <2>3, NoIdAssumption DEF OwnInv, Fresh
    <3> QED
      BY <1>1, <2>3, <3>1, <3>2 DEF OwnInv, Fresh
  <2> QED
    BY <2>2, <2>3
<1> QED
  BY <1>2, <1>3, <1>4, <1>5, <1>6 DEF OwnInv

LEMMA NewServerKeeps ==
  ASSUME OwnInv, NEW r \in Request, NEW u \in User, NEW s \in Server, NEW c \in Channel,
         NewServer(r, u, s, c)
  PROVE  OwnInv'
<1> DEFINE y == [at |-> "createServer", user |-> u, server |-> s, channel |-> c]
<1>1. y \in Record /\ y.at = "createServer" /\ y.user = u /\ y.server = s /\ y.channel = c
  BY DEF Record
<1> HIDE DEF y
<1>2. RightsOf(y)
  BY <1>1 DEF RightsOf
<1>3. /\ req[r] = Idle /\ u \in db.users /\ s \notin given /\ c \notin given
      /\ given' = given \cup {s, c} /\ req' = [req EXCEPT ![r] = y]
      /\ UNCHANGED <<db, by, serverRoom, channelRoom>>
  BY DEF NewServer, y
<1>4. \A v \in User : v \in given' \ given => serverRoom[v] = NoServer /\ channelRoom[v] = NoChannel
  BY DEF OwnInv, IdsGiven
<1>5. u \in given /\ given \subseteq User \cup Server \cup Channel
  BY <1>3 DEF OwnInv, IdsGiven, TypeOK
<1> QED
  BY <1>1, <1>2, <1>3, <1>4, <1>5, BeginKeeps

(* The checks.  Whoever passes has access, so the rows are there.          *)
LEMMA ChecksKeep ==
  ASSUME OwnInv, NEW r \in Request, NEW u \in User,
         \/ \E s \in Server : IsServerOwner(r, u, s) \/ HasServerAccess(r, u, s)
         \/ \E c \in Channel : IsChannelOwner(r, u, c) \/ HasChannelAccess(r, u, c)
  PROVE  OwnInv'
<1>1. PICK y \in Record :
        /\ req[r] = Idle /\ req' = [req EXCEPT ![r] = y]
        /\ UNCHANGED <<db, by, given, serverRoom, channelRoom>>
        /\ y.user = u /\ y.at \notin {"idle", "createServer"} /\ RightsOf(y)
        /\ y.server = NoServer \/ \E x \in db.servers : x.id = y.server
        /\ y.channel = NoChannel \/ \E x \in db.channels : x.id = y.channel
        /\ u \in db.users
  <2>1. ASSUME NEW s \in Server, NEW handler \in {"deleteServer", "createChannel", "getChannels"},
               handler = "getChannels" \/ OwnsServer(db, u, s), AccessesServer(db, u, s)
        PROVE  LET y == [Idle EXCEPT !.at = handler, !.user = u, !.server = s]
               IN  /\ y \in Record /\ RightsOf(y) /\ u \in db.users
                   /\ y.user = u /\ y.at \notin {"idle", "createServer"} /\ y.channel = NoChannel
                   /\ \E x \in db.servers : x.id = y.server
    <3> DEFINE y == [Idle EXCEPT !.at = handler, !.user = u, !.server = s]
    <3>1. y \in Record /\ y.at = handler /\ y.user = u /\ y.server = s /\ y.channel = NoChannel
      BY DEF Idle, Record
    <3> HIDE DEF y
    <3>2. RightsOf(y)
      BY <2>1, <3>1 DEF RightsOf, EntitledToServer, OwnsServer, OwnInv, IdsUnique
    <3>3. u \in db.users /\ \E x \in db.servers : x.id = s
      BY <2>1, TablesOK, AccessIsUsers
    <3> QED
      BY <3>1, <3>2, <3>3 DEF y
  <2>2. ASSUME NEW c \in Channel, NEW handler \in {"createMessage", "getMessages"},
               AccessesChannel(db, u, c)
        PROVE  LET y == [Idle EXCEPT !.at = handler, !.user = u, !.channel = c]
               IN  /\ y \in Record /\ RightsOf(y) /\ u \in db.users
                   /\ y.user = u /\ y.at \notin {"idle", "createServer"} /\ y.server = NoServer
                   /\ \E x \in db.channels : x.id = y.channel
    <3> DEFINE y == [Idle EXCEPT !.at = handler, !.user = u, !.channel = c]
    <3>1. y \in Record /\ y.at = handler /\ y.user = u /\ y.channel = c /\ y.server = NoServer
      BY DEF Idle, Record
    <3> HIDE DEF y
    <3>2. RightsOf(y)
      BY <2>2, <3>1 DEF RightsOf, EntitledToChannel
    <3>3. u \in db.users /\ \E x \in db.channels : x.id = c
      BY <2>2, TablesOK, AccessIsUsers
    <3> QED
      BY <3>1, <3>2, <3>3 DEF y
  <2>3. ASSUME NEW c \in Channel, NEW row \in db.channels, row.id = c, OwnsChannel(db, u, c)
        PROVE  LET y == [at |-> "deleteChannel", user |-> u, server |-> row.server, channel |-> c]
               IN  /\ y \in Record /\ RightsOf(y) /\ u \in db.users
                   /\ y.user = u /\ y.at \notin {"idle", "createServer"}
                   /\ \E x \in db.servers : x.id = y.server
                   /\ \E x \in db.channels : x.id = y.channel
    <3> DEFINE y == [at |-> "deleteChannel", user |-> u, server |-> row.server, channel |-> c]
    <3>1. y \in Record /\ y.at = "deleteChannel" /\ y.user = u /\ y.server = row.server
          /\ y.channel = c /\ row.server \in Server
      BY TablesOK DEF Record, Database
    <3>2. PICK s \in Server : [id |-> c, server |-> s] \in db.channels /\ OwnsServer(db, u, s)
      BY <2>3 DEF OwnsChannel
    <3>3. row.server = s
      BY <2>3, <3>2 DEF OwnInv, IdsUnique
    <3> HIDE DEF y
    <3>4. RightsOf(y)
      BY <2>3, <3>1, <3>2, <3>3 DEF RightsOf, OwnsServer, OwnInv, IdsUnique
    <3>5. u \in db.users /\ \E x \in db.servers : x.id = s
      BY <3>2, TablesOK DEF References, OwnsServer
    <3> QED
      BY <2>3, <3>1, <3>3, <3>4, <3>5 DEF y
  <2>4. req[r] = Idle /\ UNCHANGED <<db, by, given, serverRoom, channelRoom>>
    BY DEF IsServerOwner, HasServerAccess, IsChannelOwner, HasChannelAccess
  <2>5. CASE \E s \in Server : IsServerOwner(r, u, s) \/ HasServerAccess(r, u, s)
    <3>1. PICK s \in Server, handler \in {"deleteServer", "createChannel", "getChannels"} :
            /\ req' = [req EXCEPT ![r] = [Idle EXCEPT !.at = handler, !.user = u, !.server = s]]
            /\ handler = "getChannels" \/ OwnsServer(db, u, s)
            /\ AccessesServer(db, u, s)
      BY <2>5 DEF IsServerOwner, HasServerAccess, AccessesServer
    <3> QED
      BY <2>1, <2>4, <3>1
  <2>6. CASE \E c \in Channel : HasChannelAccess(r, u, c)
    <3>1. PICK c \in Channel, handler \in {"createMessage", "getMessages"} :
            /\ req' = [req EXCEPT ![r] = [Idle EXCEPT !.at = handler, !.user = u, !.channel = c]]
            /\ AccessesChannel(db, u, c)
      BY <2>6 DEF HasChannelAccess
    <3> QED
      BY <2>2, <2>4, <3>1
  <2>7. CASE \E c \in Channel : IsChannelOwner(r, u, c)
    <3>1. PICK c \in Channel, row \in db.channels :
            /\ req' = [req EXCEPT ![r] = [at |-> "deleteChannel", user |-> u,
                                         server |-> row.server, channel |-> c]]
            /\ row.id = c /\ OwnsChannel(db, u, c)
      BY <2>7 DEF IsChannelOwner
    <3> QED
      BY <2>3, <2>4, <3>1
  <2> QED
    BY <2>5, <2>6, <2>7
<1>2. y.server \in given \cup {NoServer} /\ y.channel \in given \cup {NoChannel} /\ u \in given
  BY <1>1 DEF OwnInv, IdsGiven
<1> QED
  BY <1>1, <1>2, BeginKeeps DEF OwnInv, TypeOK

LEMMA FailKeeps ==
  ASSUME OwnInv, NEW r \in Request, Fail(r)
  PROVE  OwnInv'
<1>1. NoneBegins /\ by' \in User \cup {NoUser} /\ UNCHANGED <<given, serverRoom, channelRoom>>
  BY NoneBeginsFacts DEF Fail, OwnInv, TypeOK
<1>2. Shrinks(db, db')
  BY TablesOK DEF Fail, Shrinks, References
<1> QED
  BY <1>1, <1>2, ShrinkKeeps

(* Users leave rooms, or enter those of a request of theirs that ends.     *)
LEMMA RoomsKeep ==
  ASSUME OwnInv, NoneBegins, UNCHANGED <<db, by, given>>,
         serverRoom' \in [User -> Server \cup {NoServer}],
         channelRoom' \in [User -> Channel \cup {NoChannel}],
         \A u \in User :
           /\ \/ serverRoom'[u] \in {serverRoom[u], NoServer}
              \/ \E r \in Request : /\ req[r].at = "getChannels" /\ req'[r] = Idle
                                   /\ req[r].user = u /\ req[r].server = serverRoom'[u]
           /\ \/ channelRoom'[u] \in {channelRoom[u], NoChannel}
              \/ \E r \in Request : /\ req[r].at = "getMessages" /\ req'[r] = Idle
                                   /\ req[r].user = u /\ req[r].channel = channelRoom'[u]
  PROVE  OwnInv'
<1>1. \A r \in Request : req'[r] = req[r] \/ req'[r] = Idle
  BY DEF NoneBegins
<1>2. Idle.at = "idle" /\ Idle.user = NoUser /\ Idle.server = NoServer /\ Idle.channel = NoChannel
  BY DEF Idle
<1>3. TypeOK'
  BY DEF OwnInv, TypeOK, NoneBegins, Record
<1>4. IdsGiven'
  <2>1. \A u \in User : /\ serverRoom'[u] \in given \cup {NoServer}
                         /\ channelRoom'[u] \in given \cup {NoChannel}
    BY DEF OwnInv, IdsGiven
  <2>2. \A r \in Request : req[r].at # "idle" => req[r].user \in given
    BY NoIdAssumption DEF OwnInv, IdsGiven, Rights, RightsOf
  <2>3. \A u \in User : u \notin given => serverRoom'[u] = NoServer /\ channelRoom'[u] = NoChannel
    BY <2>2 DEF OwnInv, IdsGiven
  <2> QED
    BY <1>1, <1>2, <2>1, <2>3 DEF OwnInv, IdsGiven
<1>5. IdsUnique' /\ MessagesByMembers'
  BY DEF OwnInv, IdsUnique, MessagesByMembers
<1>6. Fresh'
  <2> SUFFICES ASSUME NEW r \in Request, req'[r].at = "createServer"
               PROVE  /\ \A x \in db'.servers : x.id # req'[r].server
                      /\ \A x \in db'.channels : x.id # req'[r].channel
                      /\ \A q \in Request \ {r} :
                           req'[q].server # req'[r].server /\ req'[q].channel # req'[r].channel
                      /\ \A u \in User : serverRoom'[u] # req'[r].server
                                         /\ channelRoom'[u] # req'[r].channel
    BY DEF Fresh
  <2>1. req'[r] = req[r] /\ req[r].server \in Server /\ req[r].channel \in Channel
    BY <1>1, <1>2 DEF OwnInv, Rights, RightsOf
  <2>2. \A q \in Request \ {r} : req[q].server # req[r].server /\ req[q].channel # req[r].channel
    BY <2>1 DEF OwnInv, Fresh
  <2>3. \A u \in User : serverRoom'[u] # req'[r].server /\ channelRoom'[u] # req'[r].channel
    BY <1>2, <2>1, <2>2, NoIdAssumption DEF OwnInv, Fresh
  <2> QED
    BY <1>1, <1>2, <2>1, <2>2, <2>3, NoIdAssumption DEF OwnInv, Fresh
<1>7. Rights'
  <2> SUFFICES ASSUME NEW r \in Request PROVE RightsOf(req[r])'
    BY DEF Rights
  <2>1. CASE req'[r] = Idle
    BY <1>2, <2>1 DEF RightsOf
  <2>2. CASE req'[r] = req[r]
    BY <2>2 DEF OwnInv, Rights, RightsOf, EntitledToServer, EntitledToChannel
  <2> QED
    BY <1>1, <2>1, <2>2
<1>8. ListenersHaveAccess'
  <2> SUFFICES ASSUME NEW u \in db.users
               PROVE  /\ (\E x \in db.servers : x.id = serverRoom'[u]) =>
                           AccessesServer(db, u, serverRoom'[u])
                      /\ (\E x \in db.channels : x.id = channelRoom'[u]) =>
                           AccessesChannel(db, u, channelRoom'[u])
    BY DEF ListenersHaveAccess
  <2>1. u \in User /\ ~(\E x \in db.servers : x.id = NoServer)
        /\ ~(\E x \in db.channels : x.id = NoChannel)
    BY TablesOK, NoIdAssumption DEF Database
  <2> QED
    BY <2>1 DEF OwnInv, ListenersHaveAccess, Rights, RightsOf, EntitledToServer, EntitledToChannel
<1> QED
  BY <1>3, <1>4, <1>5, <1>6, <1>7, <1>8 DEF OwnInv

LEMMA ListensKeep ==
  ASSUME OwnInv, (\E r \in Request : GetChannels(r) \/ GetMessages(r)) \/ \E u \in User : Disconnect(u)
  PROVE  OwnInv'
<1>1. ASSUME NEW r \in Request, GetChannels(r) PROVE OwnInv'
  <2>1. req[r].at = "getChannels" /\ req[r].user \in User /\ req[r].server \in Server
        /\ req'[r] = Idle /\ NoneBegins
    BY <1>1, NoneBeginsFacts DEF GetChannels, Answer, OwnInv, Rights, RightsOf, TypeOK
  <2> QED
    BY <1>1, <2>1, RoomsKeep DEF GetChannels, OwnInv, TypeOK
<1>2. ASSUME NEW r \in Request, GetMessages(r) PROVE OwnInv'
  <2>1. req[r].at = "getMessages" /\ req[r].user \in User /\ req[r].channel \in Channel
        /\ req'[r] = Idle /\ NoneBegins
    BY <1>2, NoneBeginsFacts DEF GetMessages, Answer, OwnInv, Rights, RightsOf, TypeOK
  <2> QED
    BY <1>2, <2>1, RoomsKeep DEF GetMessages, OwnInv, TypeOK
<1>3. ASSUME NEW u \in User, Disconnect(u) PROVE OwnInv'
  <2>1. NoneBegins
    BY <1>3, NoneBeginsFacts DEF Disconnect
  <2> QED
    BY <1>3, <2>1, RoomsKeep DEF Disconnect, OwnInv, TypeOK
<1> QED
  BY <1>1, <1>2, <1>3

LEMMA OwnInit == ASSUME Init PROVE OwnInv
<1>1. NoRows \in Database /\ References(NoRows)
  BY DEF NoRows, Database, References
<1>2. TypeOK
  BY <1>1, ValidMeans DEF Init, Idle, TypeOK
<1>3. IdsGiven /\ IdsUnique /\ Fresh /\ Rights /\ MessagesByMembers /\ ListenersHaveAccess
  BY DEF Init, Idle, NoRows, IdsGiven, IdsUnique, Fresh, Rights, RightsOf, MessagesByMembers,
         ListenersHaveAccess
<1> QED
  BY <1>2, <1>3 DEF OwnInv

LEMMA OwnNext == ASSUME OwnInv, [Next]_vars PROVE OwnInv'
<1>1. CASE UNCHANGED vars
  BY <1>1 DEF vars, OwnInv, TypeOK, IdsGiven, IdsUnique, Fresh, Rights, RightsOf,
              EntitledToServer, EntitledToChannel, MessagesByMembers, ListenersHaveAccess
<1>2. ASSUME NEW u \in User,
             \/ Register(u) \/ DeleteUser(u) \/ Disconnect(u)
             \/ \E s \in Server : Join(u, s)
             \/ \E c \in Channel : DeleteMessage(u, c)
      PROVE  OwnInv'
  BY <1>2, RegisterKeeps, DeleteUserKeeps, JoinKeeps, DeleteMessageKeeps, ListensKeep
<1>3. ASSUME NEW r \in Request, NEW u \in User, NEW s \in Server,
             \/ \E c \in Channel : NewServer(r, u, s, c)
             \/ IsServerOwner(r, u, s) \/ HasServerAccess(r, u, s)
      PROVE  OwnInv'
  BY <1>3, NewServerKeeps, ChecksKeep
<1>4. ASSUME NEW r \in Request, NEW u \in User, NEW c \in Channel,
             IsChannelOwner(r, u, c) \/ HasChannelAccess(r, u, c)
      PROVE  OwnInv'
  BY <1>4, ChecksKeep
<1>5. ASSUME NEW r \in Request,
             \/ Fail(r) \/ CreateServer(r) \/ DeleteServer(r)
             \/ \E c \in Channel : CreateChannel(r, c)
             \/ DeleteChannel(r) \/ GetChannels(r) \/ GetMessages(r) \/ CreateMessage(r)
      PROVE  OwnInv'
  BY <1>5, FailKeeps, CreateServerKeeps, DeleteServerKeeps, CreateChannelKeeps, DeleteChannelKeeps,
     CreateMessageKeeps, ListensKeep
<1>6. CASE \E u \in User :
             \/ Register(u) \/ DeleteUser(u) \/ Disconnect(u)
             \/ \E s \in Server : Join(u, s)
             \/ \E c \in Channel : DeleteMessage(u, c)
  BY <1>2, <1>6
<1>7. ASSUME NEW r \in Request,
             \/ \E u \in User, s \in Server :
                  \/ \E c \in Channel : NewServer(r, u, s, c)
                  \/ IsServerOwner(r, u, s) \/ HasServerAccess(r, u, s)
             \/ \E u \in User, c \in Channel : IsChannelOwner(r, u, c) \/ HasChannelAccess(r, u, c)
      PROVE  OwnInv'
  BY <1>3, <1>4, <1>7
<1>8. CASE \E r \in Request :
             \/ \E u \in User, s \in Server :
                  \/ \E c \in Channel : NewServer(r, u, s, c)
                  \/ IsServerOwner(r, u, s) \/ HasServerAccess(r, u, s)
             \/ \E u \in User, c \in Channel : IsChannelOwner(r, u, c) \/ HasChannelAccess(r, u, c)
             \/ Fail(r)
             \/ CreateServer(r) \/ DeleteServer(r)
             \/ \E c \in Channel : CreateChannel(r, c)
             \/ DeleteChannel(r) \/ GetChannels(r) \/ GetMessages(r) \/ CreateMessage(r)
  BY <1>5, <1>7, <1>8
<1> QED
  BY <1>1, <1>6, <1>8 DEF Next

(***************************************************************************)
(* The handlers implement Registry                                         *)
(***************************************************************************)
LEMMA SameTables ==
  /\ \A d : R!Cascade(d) = Cascade(d)
  /\ \A d, u, s : R!OwnsServer(d, u, s) <=> OwnsServer(d, u, s)
  /\ \A d, u, c : R!OwnsChannel(d, u, c) <=> OwnsChannel(d, u, c)
  /\ \A d, u, c : R!AccessesChannel(d, u, c) <=> AccessesChannel(d, u, c)
  /\ R!NoRows = NoRows
BY DEF R!Cascade, Cascade, R!OwnsServer, OwnsServer, R!OwnsChannel, OwnsChannel,
   R!AccessesChannel, AccessesChannel, R!AccessesServer, AccessesServer, R!NoRows, NoRows

LEMMA RegistryUsers ==
  ASSUME OwnInv, NEW u \in User,
         \/ Register(u) \/ DeleteUser(u)
         \/ \E s \in Server : Join(u, s)
         \/ \E c \in Channel : DeleteMessage(u, c)
  PROVE  R!Next
<1>1. ASSUME Register(u) PROVE R!Register(u)
  BY <1>1 DEF Register, R!Register, OwnInv, IdsGiven
<1>2. ASSUME DeleteUser(u) PROVE R!DeleteUser(u)
  BY <1>2, SameTables DEF DeleteUser, R!DeleteUser
<1>3. ASSUME NEW s \in Server, Join(u, s) PROVE R!Join(u, s)
  <2>1. db' = [db EXCEPT !.members = db.members \cup {[server |-> s, user |-> u]}] /\ by' = u
        /\ Valid(db')
    BY <1>3 DEF Join
  <2>2. db' \in Database /\ db'.users = db.users /\ db'.servers = db.servers
        /\ [server |-> s, user |-> u] \in db'.members
    BY <2>1, TablesOK DEF Database
  <2>3. u \in db.users /\ \E x \in db.servers : x.id = s
    BY <2>1, <2>2, ValidMeans DEF References
  <2> QED
    BY <2>1, <2>3 DEF R!Join
<1>4. ASSUME NEW c \in Channel, DeleteMessage(u, c) PROVE R!Retract(u, c)
  BY <1>4 DEF DeleteMessage, R!Retract
<1> QED
  BY <1>1, <1>2, <1>3, <1>4 DEF R!Next

LEMMA RegistryCreates ==
  ASSUME OwnInv, NEW r \in Request,
         CreateServer(r) \/ (\E c \in Channel : CreateChannel(r, c)) \/ CreateMessage(r)
  PROVE  R!Next
<1> DEFINE x == req[r]
<1>1. ASSUME CreateServer(r) PROVE R!CreateServer(x.user, x.server, x.channel)
  <2> DEFINE server == [id |-> x.server, owner |-> x.user]
             channel == [id |-> x.channel, server |-> x.server]
  <2>1. /\ db' = [db EXCEPT !.servers = db.servers \cup {server}, !.channels = db.channels \cup {channel}]
        /\ x.at = "createServer" /\ Valid(db') /\ by' = x.user
    BY <1>1 DEF CreateServer
  <2>2. x.user \in User /\ x.server \in Server /\ x.channel \in Channel
    BY <2>1 DEF OwnInv, Rights, RightsOf
  <2>3. /\ db.servers \cup {server} \subseteq [id : Server, owner : User]
        /\ db.channels \cup {channel} \subseteq [id : Channel, server : Server]
    BY <2>2, TablesOK DEF Database
  <2>4. db' \in Database /\ db'.users = db.users /\ server \in db'.servers
    <3> HIDE DEF server, channel
    <3> QED
      BY <2>1, <2>3, TablesOK DEF Database
  <2>5. x.user \in db.users
    BY <2>1, <2>4, ValidMeans DEF References
  <2>6. (\A y \in db.servers : y.id # x.server) /\ (\A y \in db.channels : y.id # x.channel)
    BY <2>1 DEF OwnInv, Fresh
  <2> QED
    BY <2>1, <2>5, <2>6 DEF R!CreateServer
<1>2. ASSUME NEW c \in Channel, CreateChannel(r, c) PROVE R!CreateChannel(x.user, x.server, c)
  <2> DEFINE channel == [id |-> c, server |-> x.server]
  <2>1. /\ db' = [db EXCEPT !.channels = db.channels \cup {channel}]
        /\ x.at = "createChannel" /\ c \notin given /\ Valid(db') /\ by' = x.user
    BY <1>2 DEF CreateChannel
  <2>2. x.server \in Server /\ \A row \in db.servers : row.id = x.server => row.owner = x.user
    BY <2>1 DEF OwnInv, Rights, RightsOf
  <2>3. db' \in Database /\ db'.servers = db.servers /\ channel \in db'.channels
    BY <2>1, <2>2, TablesOK DEF Database
  <2>4. PICK row \in db.servers : row.id = x.server
    BY <2>1, <2>3, ValidMeans DEF References
  <2>5. OwnsServer(db, x.user, x.server)
    BY <2>2, <2>4, TablesOK DEF OwnsServer, Database
  <2>6. \A y \in db.channels : y.id # c
    BY <2>1 DEF OwnInv, IdsGiven
  <2> QED
    BY <2>1, <2>5, <2>6, SameTables DEF R!CreateChannel
<1>3. ASSUME CreateMessage(r) PROVE R!Post(x.user, x.channel)
  BY <1>3, CreateMessageKeeps, SameTables DEF CreateMessage, R!Post
<1>4. x.at # "idle" => x.user \in User
  BY DEF OwnInv, Rights, RightsOf
<1>5. x.at = "createServer" => x.server \in Server /\ x.channel \in Channel
  BY DEF OwnInv, Rights, RightsOf
<1>6. x.at = "createChannel" => x.server \in Server
  BY DEF OwnInv, Rights, RightsOf
<1>7. x.at = "createMessage" => x.channel \in Channel
  BY DEF OwnInv, Rights, RightsOf
<1>8. CASE CreateServer(r)
  BY <1>1, <1>4, <1>5, <1>8 DEF CreateServer, R!Next
<1>9. CASE \E c \in Channel : CreateChannel(r, c)
  BY <1>2, <1>4, <1>6, <1>9 DEF CreateChannel, R!Next
<1>10. CASE CreateMessage(r)
  BY <1>3, <1>4, <1>7, <1>10 DEF CreateMessage, R!Next
<1> QED
  BY <1>8, <1>9, <1>10

LEMMA RegistryDeletes ==
  ASSUME OwnInv, NEW r \in Request, DeleteServer(r) \/ DeleteChannel(r)
  PROVE  R!Next
<1> DEFINE x == req[r]
<1>1. x.user \in User /\ x.server \in Server /\ (x.at = "deleteChannel" => x.channel \in Channel)
  BY DEF DeleteServer, DeleteChannel, OwnInv, Rights, RightsOf
<1>2. ASSUME DeleteServer(r) PROVE R!DeleteServer(x.user, x.server)
  BY <1>2, SameTables DEF DeleteServer, R!DeleteServer, OwnsServer
<1>3. ASSUME DeleteChannel(r) PROVE R!DeleteChannel(x.user, x.channel)
  <2> DEFINE row == [id |-> x.channel, server |-> x.server]
  <2>1. /\ x.at = "deleteChannel" /\ row \in db.channels /\ by' = x.user
        /\ db' = Cascade([db EXCEPT !.channels = db.channels \ {row}])
    BY <1>3 DEF DeleteChannel
  <2>2. PICK s \in db.servers : s.id = x.server
    BY <2>1, TablesOK DEF References
  <2>3. s.owner = x.user
    BY <2>1, <2>2 DEF OwnInv, Rights, RightsOf
  <2>4. s = [id |-> x.server, owner |-> x.user]
    BY <2>2, <2>3, TablesOK DEF Database
  <2>5. OwnsChannel(db, x.user, x.channel)
    BY <1>1, <2>1, <2>2, <2>4 DEF OwnsChannel, OwnsServer
  <2>6. db.channels \ {row} = {y \in db.channels : y.id # x.channel}
    BY <2>1 DEF OwnInv, IdsUnique
  <2> QED
    BY <2>1, <2>5, <2>6, SameTables DEF R!DeleteChannel
<1> QED
  BY <1>1, <1>2, <1>3 DEF DeleteChannel, R!Next

LEMMA RegistryStep == ASSUME OwnInv, [Next]_vars PROVE [R!Next]_(R!vars)
<1>1. ASSUME \/ UNCHANGED vars
             \/ \E u \in User : Disconnect(u)
             \/ \E r \in Request :
                  \/ \E u \in User, s \in Server :
                       \/ \E c \in Channel : NewServer(r, u, s, c)
                       \/ IsServerOwner(r, u, s) \/ HasServerAccess(r, u, s)
                  \/ \E u \in User, c \in Channel : IsChannelOwner(r, u, c) \/ HasChannelAccess(r, u, c)
                  \/ Fail(r) \/ GetChannels(r) \/ GetMessages(r)
      PROVE  UNCHANGED R!vars
  BY <1>1 DEF vars, R!vars, Disconnect, NewServer, IsServerOwner, HasServerAccess,
              IsChannelOwner, HasChannelAccess, Fail, GetChannels, GetMessages
<1>2. CASE Next
  BY <1>1, <1>2, RegistryUsers, RegistryCreates, RegistryDeletes DEF Next
<1> QED
  BY <1>1, <1>2

(***************************************************************************)
(* AttachmentStore: the inductive invariant                                *)
(***************************************************************************)
(* A request at its file has one; and has saved what was whole.            *)
UploadsKnown ==
  \A u \in Upload :
    /\ IsFiniteSet(upload[u].saved) /\ upload[u].saved \subseteq once
    /\ upload[u].at = "write" => upload[u].todo # <<>>
    /\ upload[u].at \in {"send", "sent"} => \E f \in File : upload[u].todo = <<f>>

(* What was whole once never vanishes.                                     *)
NothingRemoved == named \subseteq once /\ \A f \in once : files[f] # "none"

(* Only a part of a file is there: somebody writes it, or has failed to.   *)
PartsExplained == \A f \in File : files[f] = "part" => Files!Writing(f) # {} \/ f \in cut

(* A file being sent that nobody has written meanwhile is as it was.       *)
ServedUndisturbed ==
  \A u \in Upload, f \in File :
    upload[u].at \in {"send", "sent"} /\ upload[u].todo = <<f>> /\ ~upload[u].lapped =>
      /\ Files!Writing(f) = {}
      /\ \/ f \in cut
         \/ /\ upload[u].size = "whole" /\ files[f] = "whole"
            /\ upload[u].at = "sent" => upload[u].sent = "whole"

FilesInv ==
  Files!TypeOK /\ UploadsKnown /\ NothingRemoved /\ PartsExplained /\ ServedUndisturbed

(***************************************************************************)
(* The files a message may have                                            *)
(***************************************************************************)
LEMMA AttachmentsFacts ==
  ASSUME NEW s \in Files!Attachments
  PROVE  /\ s \in Seq(File) /\ s # <<>> /\ Len(s) \in 1..MaxFiles /\ Head(s) \in File
         /\ Tail(s) \in {<<>>} \cup Files!Attachments /\ Len(Tail(s)) = Len(s) - 1
<1>1. PICK n \in 1..MaxFiles : s \in [1..n -> File]
  BY DEF Files!Attachments
<1>2. n \in Nat /\ MaxFiles \in Nat
  BY <1>1, MaxFilesAssumption
<1>3. s \in Seq(File) /\ Len(s) = n
  BY <1>1, <1>2, SMT
<1>4. s # <<>> /\ Head(s) \in File /\ Tail(s) \in Seq(File) /\ Len(Tail(s)) = n - 1
  BY <1>1, <1>2, <1>3, SMT
<1>5. ASSUME n # 1 PROVE Tail(s) \in Files!Attachments
  <2>1. n - 1 \in 1..MaxFiles
    BY <1>1, <1>2, <1>5
  <2>2. Tail(s) \in [1..n - 1 -> File]
    BY <1>4, LenProperties
  <2> QED
    BY <2>1, <2>2 DEF Files!Attachments
<1>6. ASSUME n = 1 PROVE Tail(s) = <<>>
  <2>1. Len(Tail(s)) = 0
    BY <1>4, <1>6
  <2> QED
    BY <1>4, <2>1, EmptySeq
<1> QED
  BY <1>1, <1>2, <1>3, <1>4, <1>5, <1>6

LEMMA SingleAttachment ==
  ASSUME NEW f \in File
  PROVE  <<f>> \in Files!Attachments
<1>1. <<f>> \in [1..1 -> File] /\ 1 \in 1..MaxFiles
  BY MaxFilesAssumption
<1> QED
  BY <1>1 DEF Files!Attachments

LEMMA AddOne ==
  ASSUME NEW S, IsFiniteSet(S), NEW x
  PROVE  IsFiniteSet(S \cup {x}) /\ Cardinality(S \cup {x}) <= Cardinality(S) + 1
         /\ Cardinality(S) \in Nat
BY FS_AddElement, FS_CardinalityType

(***************************************************************************)
(* AttachmentStore: its steps                                              *)
(***************************************************************************)
UploadType ==
  [at : {"idle", "open", "write", "send", "sent"}, todo : {<<>>} \cup Files!Attachments,
   saved : SUBSET File, size : Files!Content, sent : Files!Content, lapped : BOOLEAN]

Fits(x) == IsFiniteSet(x.saved) /\ Cardinality(x.saved) + Len(x.todo) <= MaxFiles

(* AttachmentStore counts as this module does.                             *)
LEMMA FilesCount == \A S : Files!Cardinality(S) = Cardinality(S)
BY DEF Cardinality, Files!Cardinality

LEMMA NothingSaved == IsFiniteSet({}) /\ Cardinality({}) = 0
BY FS_EmptySet

LEMMA IdleFacts ==
  /\ Files!Idle \in UploadType /\ Fits(Files!Idle)
  /\ Files!Idle.at = "idle" /\ Files!Idle.saved = {} /\ Files!Idle.todo = <<>>
<1>1. Len(<<>>) = 0
  OBVIOUS
<1> QED
  BY <1>1, NothingSaved, MaxFilesAssumption DEF Files!Idle, UploadType, Files!Content, Fits

LEMMA UploadsTyped ==
  ASSUME FilesInv
  PROVE  /\ upload \in [Upload -> UploadType] /\ files \in [File -> Files!Content]
         /\ named \subseteq File /\ once \subseteq File /\ cut \subseteq File
         /\ \A u \in Upload : Fits(upload[u]) /\ upload[u].saved \subseteq once
<1>1. /\ upload \in [Upload -> UploadType] /\ files \in [File -> Files!Content]
      /\ named \subseteq File /\ once \subseteq File /\ cut \subseteq File
  BY DEF FilesInv, Files!TypeOK, UploadType
<1>2. ASSUME NEW u \in Upload PROVE Fits(upload[u]) /\ upload[u].saved \subseteq once
  BY FilesCount DEF FilesInv, Files!TypeOK, UploadsKnown, Fits
<1> QED
  BY <1>1, <1>2

(* A request moves on, to anything but writing, and changes no file.       *)
LEMMA UploadMoves ==
  ASSUME FilesInv, NEW u \in Upload, NEW y \in UploadType, Fits(y),
         upload' \in [Upload -> UploadType], upload'[u] = y,
         \A q \in Upload \ {u} : upload'[q] = upload[q],
         files' = files, once' = once, named' \subseteq once, cut \subseteq cut', cut' \subseteq File,
         y.saved \subseteq once, y.at # "write",
         upload[u].at = "write" /\ files[Head(upload[u].todo)] = "part" =>
           Head(upload[u].todo) \in cut',
         y.at \in {"send", "sent"} => \E f \in File :
           /\ y.todo = <<f>>
           /\ ~y.lapped =>
                /\ Files!Writing(f) = {}
                /\ \/ f \in cut
                   \/ /\ y.size = "whole" /\ files[f] = "whole"
                      /\ y.at = "sent" => y.sent = "whole"
  PROVE  FilesInv'
<1>1. Files!TypeOK'
  <2>1. \A q \in Upload : Cardinality(upload'[q].saved) + Len(upload'[q].todo) <= MaxFiles
    BY UploadsTyped DEF Fits
  <2> QED
    BY <2>1, UploadsTyped, FilesCount DEF FilesInv, Files!TypeOK, UploadType
<1>2. UploadsKnown'
  BY DEF FilesInv, UploadsKnown, Fits
<1>3. NothingRemoved'
  BY DEF FilesInv, NothingRemoved
<1>4. ASSUME NEW f \in File
      PROVE  /\ Files!Writing(f)' \subseteq Files!Writing(f)
             /\ Files!Writing(f) \subseteq Files!Writing(f)' \cup {u}
  BY DEF Files!Writing
<1>5. ASSUME NEW f \in File, files[f] = "part" PROVE Files!Writing(f)' # {} \/ f \in cut'
  <2>1. Files!Writing(f) # {} \/ f \in cut
    BY <1>5 DEF FilesInv, PartsExplained
  <2>2. CASE u \in Files!Writing(f)
    BY <1>5, <2>2 DEF Files!Writing
  <2> QED
    BY <1>4, <2>1, <2>2
<1>6. PartsExplained'
  BY <1>5 DEF PartsExplained
<1>7. ASSUME NEW q \in Upload, NEW f \in File,
             upload'[q].at \in {"send", "sent"}, upload'[q].todo = <<f>>, ~upload'[q].lapped
      PROVE  /\ Files!Writing(f) = {}
             /\ \/ f \in cut
                \/ /\ upload'[q].size = "whole" /\ files[f] = "whole"
                   /\ upload'[q].at = "sent" => upload'[q].sent = "whole"
  <2>1. CASE q = u
    <3>1. PICK g \in File : y.todo = <<g>> /\ Files!Writing(g) = {} /\
             (g \in cut \/ (y.size = "whole" /\ files[g] = "whole" /\ (y.at = "sent" => y.sent = "whole")))
      BY <1>7, <2>1
    <3>2. g = f
      BY <1>7, <2>1, <3>1
    <3> QED
      BY <2>1, <3>1, <3>2
  <2>2. CASE q # u
    BY <1>7, <2>2 DEF FilesInv, ServedUndisturbed
  <2> QED
    BY <2>1, <2>2
<1>8. ServedUndisturbed'
  BY <1>4, <1>7 DEF ServedUndisturbed
<1> QED
  BY <1>1, <1>2, <1>3, <1>6, <1>8 DEF FilesInv

LEMMA AnswersKeep ==
  ASSUME FilesInv, NEW u \in Upload,
         Files!WriteFails(u) \/ Files!Commit(u) \/ Files!Sent(u) \/ Files!Fail(u)
  PROVE  FilesInv'
<1> DEFINE y == Files!Idle
<1>1. upload' \in [Upload -> UploadType] /\ upload'[u] = y /\ \A q \in Upload \ {u} : upload'[q] = upload[q]
  BY UploadsTyped, IdleFacts
  DEF Files!WriteFails, Files!Commit, Files!Sent, Files!Fail, Files!Answer
<1>2. files' = files /\ once' = once
  BY DEF Files!WriteFails, Files!Commit, Files!Sent, Files!Fail
<1>3. named' \subseteq once
  BY UploadsTyped
  DEF Files!WriteFails, Files!Commit, Files!Sent, Files!Fail, FilesInv, NothingRemoved
<1>4. upload[u].at = "write" => Head(upload[u].todo) \in File
  <2>1. upload[u].at = "write" => upload[u].todo \in Files!Attachments
    BY UploadsTyped DEF UploadType, FilesInv, UploadsKnown
  <2> QED
    BY <2>1, AttachmentsFacts
<1>5. /\ cut \subseteq cut' /\ cut' \subseteq File
      /\ upload[u].at = "write" /\ files[Head(upload[u].todo)] = "part" =>
           Head(upload[u].todo) \in cut'
  BY <1>4, UploadsTyped DEF Files!WriteFails, Files!Commit, Files!Sent, Files!Fail
<1> QED
  BY <1>1, <1>2, <1>3, <1>5, IdleFacts, UploadMoves

LEMMA CreateMessageKeepsFiles ==
  ASSUME FilesInv, NEW u \in Upload, NEW seq \in Files!Attachments, Files!CreateMessage(u, seq)
  PROVE  FilesInv'
<1> DEFINE y == [Files!Idle EXCEPT !.at = "open", !.todo = seq]
<1>1. y \in UploadType /\ y.saved = {} /\ y.todo = seq /\ y.at = "open"
  BY IdleFacts DEF UploadType
<1>2. Fits(y)
  <2>1. Len(seq) \in 1..MaxFiles
    BY AttachmentsFacts
  <2> HIDE DEF y
  <2> QED
    BY <1>1, <2>1, NothingSaved, MaxFilesAssumption DEF Fits
<1>3. upload' = [upload EXCEPT ![u] = y] /\ UNCHANGED <<files, named, once, cut>> /\ upload[u] = Files!Idle
  BY DEF Files!CreateMessage
<1> HIDE DEF y
<1>4. upload' \in [Upload -> UploadType] /\ upload'[u] = y /\ \A q \in Upload \ {u} : upload'[q] = upload[q]
  BY <1>1, <1>3, UploadsTyped
<1>5. named' \subseteq once
  BY <1>3 DEF FilesInv, NothingRemoved
<1> QED
  BY <1>1, <1>2, <1>3, <1>4, <1>5, UploadsTyped, IdleFacts, UploadMoves

LEMMA ServeKeeps ==
  ASSUME FilesInv, NEW u \in Upload, NEW f \in File, Files!ServeAttachments(u, f)
  PROVE  FilesInv'
<1> DEFINE y == [Files!Idle EXCEPT !.at = "send", !.todo = <<f>>, !.size = files[f],
                                   !.lapped = Files!Writing(f) # {}]
<1>1. /\ y \in UploadType /\ y.saved = {} /\ y.todo = <<f>> /\ y.at = "send"
      /\ y.size = files[f] /\ y.lapped = (Files!Writing(f) # {})
  BY IdleFacts, UploadsTyped, SingleAttachment DEF UploadType
<1>2. Fits(y)
  <2>1. Len(y.todo) = 1
    BY <1>1
  <2> QED
    BY <1>1, <2>1, NothingSaved, MaxFilesAssumption DEF Fits
<1>3. /\ upload' = [upload EXCEPT ![u] = y] /\ UNCHANGED <<files, named, once, cut>>
      /\ upload[u] = Files!Idle /\ files[f] # "none"
  BY DEF Files!ServeAttachments
<1> HIDE DEF y
<1>4. upload' \in [Upload -> UploadType] /\ upload'[u] = y /\ \A q \in Upload \ {u} : upload'[q] = upload[q]
  BY <1>1, <1>3, UploadsTyped
<1>5. named' \subseteq once
  BY <1>3 DEF FilesInv, NothingRemoved
<1>6. files[f] = "part" => Files!Writing(f) # {} \/ f \in cut
  BY DEF FilesInv, PartsExplained
<1>7. files[f] \in {"part", "whole"}
  BY <1>3, UploadsTyped DEF Files!Content
<1>8. ~y.lapped => Files!Writing(f) = {} /\ (f \in cut \/ (y.size = "whole" /\ files[f] = "whole"))
  BY <1>1, <1>6, <1>7
<1> QED
  BY <1>1, <1>2, <1>3, <1>4, <1>5, <1>8, UploadsTyped, IdleFacts, UploadMoves

LEMMA SendKeeps ==
  ASSUME FilesInv, NEW u \in Upload, Files!Send(u)
  PROVE  FilesInv'
<1> DEFINE x == upload[u]
           y == [x EXCEPT !.at = "sent",
                          !.sent = IF x.size = "whole" THEN files[Head(x.todo)] ELSE "part"]
<1>1. PICK f \in File : x.todo = <<f>>
  BY DEF FilesInv, UploadsKnown, Files!Send
<1>2. Head(x.todo) = f
  BY <1>1
<1>3. x \in UploadType /\ Fits(x) /\ x.saved \subseteq once /\ files[f] \in Files!Content
  BY UploadsTyped
<1>4. /\ y \in UploadType /\ y.saved = x.saved /\ y.todo = <<f>> /\ y.at = "sent"
      /\ y.size = x.size /\ y.lapped = x.lapped
      /\ y.sent = IF x.size = "whole" THEN files[f] ELSE "part"
  BY <1>1, <1>2, <1>3 DEF UploadType, Files!Content
<1>5. Fits(y)
  BY <1>1, <1>3, <1>4 DEF Fits
<1>6. upload' = [upload EXCEPT ![u] = y] /\ UNCHANGED <<files, named, once, cut>> /\ x.at = "send"
  BY DEF Files!Send
<1>7. ~x.lapped => Files!Writing(f) = {} /\ (f \in cut \/ (x.size = "whole" /\ files[f] = "whole"))
  BY <1>1, <1>6 DEF FilesInv, ServedUndisturbed
<1> HIDE DEF y
<1>8. upload' \in [Upload -> UploadType] /\ upload'[u] = y /\ \A q \in Upload \ {u} : upload'[q] = upload[q]
  BY <1>4, <1>6, UploadsTyped
<1>9. named' \subseteq once
  BY <1>6 DEF FilesInv, NothingRemoved
<1> QED
  BY <1>3, <1>4, <1>5, <1>6, <1>7, <1>8, <1>9, UploadsTyped, UploadMoves

LEMMA OpenKeeps ==
  ASSUME FilesInv, NEW u \in Upload, Files!Open(u)
  PROVE  FilesInv'
<1> DEFINE f == Head(upload[u].todo)
<1>1. upload[u].todo \in Files!Attachments /\ upload[u].at = "open"
  BY UploadsTyped DEF UploadType, Files!Open
<1>2. f \in File
  BY <1>1, AttachmentsFacts
<1>3. /\ files' = [files EXCEPT ![f] = "part"] /\ UNCHANGED <<named, once, cut>>
      /\ upload' = [q \in Upload |->
           IF q = u THEN [upload[q] EXCEPT !.at = "write"]
           ELSE [upload[q] EXCEPT !.lapped = @ \/ q \in Files!Serving(f)]]
  BY DEF Files!Open
<1> HIDE DEF f
<1>4. ASSUME NEW q \in Upload
      PROVE  /\ upload'[q] \in UploadType /\ upload'[q].todo = upload[q].todo
             /\ upload'[q].saved = upload[q].saved /\ upload'[q].size = upload[q].size
             /\ upload'[q].sent = upload[q].sent
             /\ upload'[q].at = IF q = u THEN "write" ELSE upload[q].at
             /\ upload'[q].lapped = IF q = u THEN upload[q].lapped
                                    ELSE upload[q].lapped \/ q \in Files!Serving(f)
  BY <1>3, UploadsTyped DEF UploadType
<1>5. upload' \in [Upload -> UploadType] /\ \A q \in Upload : Fits(upload'[q])
  BY <1>3, <1>4, UploadsTyped DEF Fits
<1>6. files' \in [File -> Files!Content] /\ files'[f] = "part" /\ \A g \in File \ {f} : files'[g] = files[g]
  BY <1>2, <1>3, UploadsTyped DEF Files!Content
<1>7. Files!TypeOK'
  <2>1. \A q \in Upload : Cardinality(upload'[q].saved) + Len(upload'[q].todo) <= MaxFiles
    BY <1>5 DEF Fits
  <2> QED
    BY <1>3, <1>5, <1>6, <2>1, UploadsTyped, FilesCount DEF Files!TypeOK, UploadType
<1>8. UploadsKnown'
  <2>1. upload[u].todo # <<>>
    BY <1>1, AttachmentsFacts
  <2> QED
    BY <1>3, <1>4, <2>1 DEF FilesInv, UploadsKnown
<1>9. NothingRemoved'
  BY <1>3, <1>6 DEF FilesInv, NothingRemoved
<1>10. \A g \in File : g = f => u \in Files!Writing(g)'
  BY <1>1, <1>4 DEF Files!Writing, f
<1>11. \A g \in File : Files!Writing(g) \subseteq Files!Writing(g)'
  BY <1>1, <1>4 DEF Files!Writing, f
<1>12. PartsExplained'
  <2>1. ASSUME NEW g \in File, files'[g] = "part" PROVE Files!Writing(g)' # {} \/ g \in cut'
    <3>1. CASE g = f
      BY <1>10, <3>1
    <3>2. CASE g # f
      <4>1. files[g] = "part"
        BY <1>6, <2>1, <3>2
      <4> QED
        BY <1>3, <1>11, <4>1 DEF FilesInv, PartsExplained
    <3> QED
      BY <3>1, <3>2
  <2> QED
    BY <2>1 DEF PartsExplained
<1>13. ASSUME NEW q \in Upload, NEW g \in File,
              upload'[q].at \in {"send", "sent"}, upload'[q].todo = <<g>>, ~upload'[q].lapped
       PROVE  /\ Files!Writing(g)' = {}
              /\ \/ g \in cut
                 \/ /\ upload'[q].size = "whole" /\ files'[g] = "whole"
                    /\ upload'[q].at = "sent" => upload'[q].sent = "whole"
  <2>1. q # u
    BY <1>4, <1>13
  <2>2. g # f
    BY <1>4, <1>13, <2>1 DEF Files!Serving
  <2>3. Files!Writing(g)' \subseteq Files!Writing(g)
    BY <1>4, <2>2 DEF Files!Writing, f
  <2> QED
    BY <1>4, <1>6, <1>13, <2>1, <2>2, <2>3 DEF FilesInv, ServedUndisturbed
<1>14. ServedUndisturbed'
  BY <1>3, <1>13 DEF ServedUndisturbed
<1> QED
  BY <1>7, <1>8, <1>9, <1>12, <1>14 DEF FilesInv

LEMMA WriteKeeps ==
  ASSUME FilesInv, NEW u \in Upload, Files!Write(u)
  PROVE  FilesInv'
<1> DEFINE x == upload[u]
           f == Head(x.todo)
           y == [x EXCEPT !.at = "open", !.todo = Tail(@), !.saved = @ \cup {f}]
<1>1. x.todo \in Files!Attachments /\ x.at = "write"
  BY UploadsTyped DEF UploadType, Files!Write, FilesInv, UploadsKnown
<1>2. /\ f \in File /\ Tail(x.todo) \in {<<>>} \cup Files!Attachments
      /\ Len(x.todo) \in Nat /\ Len(Tail(x.todo)) = Len(x.todo) - 1
  BY <1>1, AttachmentsFacts, MaxFilesAssumption
<1>3. /\ y \in UploadType /\ y.at = "open" /\ y.todo = Tail(x.todo) /\ y.saved = x.saved \cup {f}
  BY <1>2, UploadsTyped DEF UploadType
<1>4. Fits(y)
  <2>1. /\ IsFiniteSet(x.saved \cup {f}) /\ Cardinality(x.saved \cup {f}) <= Cardinality(x.saved) + 1
        /\ Cardinality(x.saved) \in Nat /\ Cardinality(x.saved \cup {f}) \in Nat
    BY AddOne, UploadsTyped, FS_CardinalityType DEF Fits
  <2>2. Cardinality(x.saved) + Len(x.todo) <= MaxFiles
    BY UploadsTyped DEF Fits
  <2> HIDE DEF y, x, f
  <2> QED
    BY <1>2, <1>3, <2>1, <2>2, MaxFilesAssumption DEF Fits
<1>5. /\ files' = [files EXCEPT ![f] = "whole"] /\ named' = named
      /\ once' = once \cup {f} /\ cut' = cut \ {f}
      /\ upload' = [upload EXCEPT ![u] = y]
  BY DEF Files!Write
<1>6. x \in UploadType /\ x.saved \subseteq once
  BY UploadsTyped
<1>7. u \in Files!Writing(f)
  BY <1>1 DEF Files!Writing
<1>8. \A g \in File \ {f} : u \notin Files!Writing(g)
  BY DEF Files!Writing
<1> HIDE DEF y, f
<1>9. upload' \in [Upload -> UploadType] /\ upload'[u] = y /\ \A q \in Upload \ {u} : upload'[q] = upload[q]
  BY <1>3, <1>5, UploadsTyped
<1>10. files' \in [File -> Files!Content] /\ files'[f] = "whole" /\ \A g \in File \ {f} : files'[g] = files[g]
  BY <1>2, <1>5, UploadsTyped DEF Files!Content
<1>11. Files!TypeOK'
  <2>1. \A q \in Upload : Cardinality(upload'[q].saved) + Len(upload'[q].todo) <= MaxFiles
    BY <1>4, <1>9, UploadsTyped DEF Fits
  <2> QED
    BY <1>2, <1>5, <1>9, <1>10, <2>1, UploadsTyped, FilesCount DEF Files!TypeOK, UploadType
<1>12. UploadsKnown'
  BY <1>3, <1>4, <1>5, <1>6, <1>9 DEF FilesInv, UploadsKnown, Fits
<1>13. NothingRemoved'
  BY <1>5, <1>10, UploadsTyped DEF FilesInv, NothingRemoved
<1>14. \A g \in File \ {f} : Files!Writing(g)' = Files!Writing(g)
  BY <1>3, <1>8, <1>9 DEF Files!Writing
<1>15. PartsExplained'
  BY <1>5, <1>10, <1>14 DEF FilesInv, PartsExplained
<1>16. ASSUME NEW q \in Upload, NEW g \in File,
              upload'[q].at \in {"send", "sent"}, upload'[q].todo = <<g>>, ~upload'[q].lapped
       PROVE  /\ Files!Writing(g)' = {}
              /\ \/ g \in cut'
                 \/ /\ upload'[q].size = "whole" /\ files'[g] = "whole"
                    /\ upload'[q].at = "sent" => upload'[q].sent = "whole"
  <2>1. q # u
    BY <1>3, <1>9, <1>16
  <2>2. /\ Files!Writing(g) = {}
        /\ \/ g \in cut
           \/ /\ upload[q].size = "whole" /\ files[g] = "whole"
              /\ upload[q].at = "sent" => upload[q].sent = "whole"
    BY <1>9, <1>16, <2>1 DEF FilesInv, ServedUndisturbed
  <2>3. g # f
    BY <1>7, <2>2
  <2> QED
    BY <1>5, <1>9, <1>10, <1>14, <2>1, <2>2, <2>3
<1>17. ServedUndisturbed'
  BY <1>16 DEF ServedUndisturbed
<1> QED
  BY <1>11, <1>12, <1>13, <1>15, <1>17 DEF FilesInv

LEMMA CrashKeeps ==
  ASSUME FilesInv, Files!Crash
  PROVE  FilesInv'
<1>1. /\ upload' \in [Upload -> UploadType] /\ \A u \in Upload : upload'[u] = Files!Idle
      /\ cut' = cut \cup {f \in File : files[f] = "part"} /\ UNCHANGED <<files, named, once>>
  BY IdleFacts DEF Files!Crash
<1>2. Files!TypeOK'
  <2>1. \A q \in Upload : Cardinality(upload'[q].saved) + Len(upload'[q].todo) <= MaxFiles
    BY <1>1, IdleFacts DEF Fits
  <2> QED
    BY <1>1, <2>1, UploadsTyped, FilesCount DEF Files!TypeOK, UploadType
<1>3. UploadsKnown' /\ ServedUndisturbed'
  BY <1>1, IdleFacts DEF UploadsKnown, ServedUndisturbed, Fits
<1>4. NothingRemoved' /\ PartsExplained'
  BY <1>1 DEF FilesInv, NothingRemoved, PartsExplained
<1> QED
  BY <1>2, <1>3, <1>4 DEF FilesInv

LEMMA FilesInit == ASSUME Files!Init PROVE FilesInv
<1>1. /\ upload \in [Upload -> UploadType] /\ \A u \in Upload : upload[u] = Files!Idle
      /\ files \in [File -> Files!Content] /\ \A f \in File : files[f] = "none"
      /\ named = {} /\ once = {} /\ cut = {}
  BY IdleFacts DEF Files!Init, Files!Content
<1>2. Files!TypeOK
  <2>1. \A q \in Upload : Cardinality(upload[q].saved) + Len(upload[q].todo) <= MaxFiles
    BY <1>1, IdleFacts DEF Fits
  <2> QED
    BY <1>1, <2>1, FilesCount DEF Files!TypeOK, UploadType
<1>3. UploadsKnown /\ ServedUndisturbed /\ NothingRemoved /\ PartsExplained
  BY <1>1, IdleFacts DEF UploadsKnown, ServedUndisturbed, NothingRemoved, PartsExplained, Fits
<1> QED
  BY <1>2, <1>3 DEF FilesInv

LEMMA FilesNext == ASSUME FilesInv, [Files!Next]_(Files!vars) PROVE FilesInv'
<1>1. CASE UNCHANGED Files!vars
  BY <1>1 DEF Files!vars, FilesInv, Files!TypeOK, UploadsKnown, NothingRemoved, PartsExplained,
              ServedUndisturbed, Files!Writing
<1>2. CASE Files!Crash
  BY <1>2, CrashKeeps
<1>3. ASSUME NEW u \in Upload,
             \/ \E seq \in Files!Attachments : Files!CreateMessage(u, seq)
             \/ Files!Open(u) \/ Files!Write(u) \/ Files!WriteFails(u) \/ Files!Commit(u)
             \/ \E f \in File : Files!ServeAttachments(u, f)
             \/ Files!Send(u) \/ Files!Sent(u) \/ Files!Fail(u)
      PROVE  FilesInv'
  BY <1>3, CreateMessageKeepsFiles, OpenKeeps, WriteKeeps, AnswersKeep, ServeKeeps, SendKeeps
<1> QED
  BY <1>1, <1>2, <1>3 DEF Files!Next

LEMMA FilesInvSuffices == ASSUME FilesInv PROVE AttachmentsKept
<1>1. Files!TypeOK /\ Files!NamedAfterSaved
  BY DEF FilesInv, NothingRemoved, Files!NamedAfterSaved
<1>2. Files!AttachmentWhole
  <2>1. \A f \in named : f \in File /\ files[f] # "none" /\ files[f] \in {"none", "part", "whole"}
    BY UploadsTyped DEF FilesInv, NothingRemoved, Files!Content
  <2> QED
    BY <2>1 DEF FilesInv, PartsExplained, Files!AttachmentWhole
<1>3. Files!SentWhole
  <2>1. ASSUME NEW u \in Upload, upload[u].at = "sent", ~upload[u].lapped
        PROVE  upload[u].sent = "whole" \/ Head(upload[u].todo) \in cut
    <3>1. PICK f \in File : upload[u].todo = <<f>>
      BY <2>1 DEF FilesInv, UploadsKnown
    <3>2. Head(upload[u].todo) = f
      BY <3>1
    <3> QED
      BY <2>1, <3>1, <3>2 DEF FilesInv, ServedUndisturbed
  <2> QED
    BY <2>1 DEF Files!SentWhole
<1> QED
  BY <1>1, <1>2, <1>3 DEF AttachmentsKept

(***************************************************************************)
(* What holds of the two side by side                                      *)
(***************************************************************************)
(* A step of the two models side by side is one of each, or a stutter.     *)
LEMMA SideBySideSteps == SideBySide => Spec /\ Files!Spec
<1>1. Start => Init /\ Files!Init
  BY DEF Start
<1>2. ASSUME [\/ FilesRest /\ Next
              \/ RowsRest /\ Files!Next]_<<vars, fileVars>>
      PROVE  [Next]_vars /\ [Files!Next]_(Files!vars)
  BY <1>2 DEF FilesRest, RowsRest, fileVars, Files!vars
<1> QED
  BY <1>1, <1>2, PTL DEF SideBySide, Spec, Files!Spec

(* The invariant that the proofs about Ownership rest on.                  *)
THEOREM OwnershipInvariance == Spec => []OwnInv
BY OwnInit, OwnNext, PTL DEF Spec

(* The access that the middlewares checked is there when the handlers use  *)
(* it: senders and listeners have access to the channels and servers that  *)
(* still exist, and no statement leaves a foreign key broken.              *)
THEOREM AccessKeptHolds == SideBySide => []AccessKept
<1>1. OwnInv => AccessKept
  BY DEF OwnInv, AccessKept
<1> QED
  BY <1>1, OwnershipInvariance, SideBySideSteps, PTL

(* Every change of the tables is one that its user could have made in one  *)
(* atomic step: checking a right and using it later implements Registry.   *)
THEOREM RegistryImplemented == SideBySide => ImplementsRegistry
<1>1. Init => R!Init
  BY SameTables DEF Init, R!Init
<1> QED
  BY <1>1, RegistryStep, OwnershipInvariance, SideBySideSteps, PTL
  DEF ImplementsRegistry, R!Spec, Spec

(* The invariant that the proof about AttachmentStore rests on.            *)
THEOREM FilesInvariance == Files!Spec => []FilesInv
BY FilesInit, FilesNext, PTL DEF Files!Spec

(* saveAttachment and serveAttachments, for any files, uploads and limit:  *)
(* a message names only files that were saved as a whole, they stay whole, *)
(* and are sent whole, but for other uploads of the same content.          *)
THEOREM AttachmentsKeptHolds == SideBySide => []AttachmentsKept
BY FilesInvSuffices, FilesInvariance, SideBySideSteps, PTL
=============================================================================
