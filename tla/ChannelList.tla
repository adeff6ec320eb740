---------------------------- MODULE ChannelList ----------------------------
(***************************************************************************)
(* The channels of servers, and what a session makes of them: the list that*)
(* getChannels reads, and the events CREATE_CHANNEL, MODIFY_CHANNEL and    *)
(* DELETE_CHANNEL that go to the room of the server.                       *)
(*                                                                         *)
(* getChannels reads the list, moves the session to the server's room, and *)
(* answers: three steps.  A change told between the first two is lost, and *)
(* two requests of one session may be answered in the other order than     *)
(* they moved it.  The events of a channel may overtake each other, too.   *)
(* And the channels that go with their server, or with the account of its  *)
(* owner, are told to nobody in the room of the server.                    *)
(*                                                                         *)
(* An emission is one step, in which any buses may be full (SessionManager *)
(* and ChatLog have both in detail).  The row of a channel is identified   *)
(* with the number of the change that made it.                             *)
(***************************************************************************)
EXTENDS Naturals, Sequences, FiniteSets

CONSTANTS
  Server, Channel, Session, Request,
  NoServer, NoChannel, NoSession,   \* zero values
  MaxChanges                        \* bound on the changes committed

VARIABLES
  rows,     \* the table channels: the change that made each row, 0 without row
  servers,  \* the table servers
  history,  \* the changes committed to the table channels, in that order, but for
            \* the rows that went with their server
  req,      \* the request each goroutine serves
  room,     \* the server whose room each session is in
  opened,   \* the list each session was answered last
  told,     \* the events put on each session's bus since, repetitions left out
  lost,     \* the channels with events since that found the session's bus full,
            \* and none alone that was put on it later
  silent,   \* changes whose request failed before it told them
  crossed   \* channels with requests that overlapped and no update alone since

vars == <<rows, servers, history, req, room, opened, told, lost, silent, crossed>>

(***************************************************************************)
(* Data                                                                    *)
(***************************************************************************)
Change == [kind : {"create", "modify", "delete"}, channel : Channel, server : Server]

(* row: what is told of the channel, 0 that it is gone.                    *)
Event == [channel : Channel, row : 0..MaxChanges]

(* alone: no other request for the channel (for the session, if it is      *)
(* getChannels) was under way since this one began.  gap: the changes told *)
(* between the reading of the list and the subscription.                   *)
Idle == [at |-> "idle", server |-> NoServer, channel |-> NoChannel, no |-> 0, row |-> 0,
         session |-> NoSession, page |-> {}, seen |-> 0, gap |-> {}, alone |-> TRUE]

NotOpen == [server |-> NoServer, page |-> {}, seen |-> 0, gap |-> {}, alone |-> TRUE]

Live == {c \in Channel : rows[c] # 0}
ChangesOf(c) == {n \in DOMAIN history : history[n].channel = c}
ServerOf(c) == history[CHOOSE n \in ChangesOf(c) : TRUE].server
ChannelsOf(v) == {c \in Channel : ChangesOf(c) # {} /\ ServerOf(c) = v}
About(c) == {r \in Request : req[r].channel = c}
Of(s) == {r \in Request : req[r].session = s}

(* An event that is repeated moves to the end.                             *)
Tell(events, e) ==
  LET same == {i \in DOMAIN events : events[i] = e}
      at   == CHOOSE i \in same : TRUE
  IN  IF same = {} THEN Append(events, e)
      ELSE Append(SubSeq(events, 1, at - 1) \o SubSeq(events, at + 1, Len(events)), e)

Answer(r) == req' = [req EXCEPT ![r] = Idle]

Commit(kind, c, v) ==
  /\ Len(history) < MaxChanges
  /\ history' = Append(history, [kind |-> kind, channel |-> c, server |-> v])

(* Request x takes goroutine r, beside the requests in others.             *)
Begin(r, x, others) ==
  req' = [q \in Request |->
    IF q = r THEN [x EXCEPT !.alone = others = {}]
    ELSE [req[q] EXCEPT !.alone = @ /\ q \notin others]]

Crossing(c) == crossed' = IF About(c) = {} THEN crossed ELSE crossed \cup {c}

Init ==
  /\ rows = [c \in Channel |-> 0] /\ servers = Server
  /\ history = <<>>
  /\ req = [r \in Request |-> Idle]
  /\ room = [s \in Session |-> NoServer]
  /\ opened = [s \in Session |-> NotOpen]
  /\ told = [s \in Session |-> <<>>] /\ lost = [s \in Session |-> {}]
  /\ silent = {} /\ crossed = {}

(***************************************************************************)
(* createChannel, updateChannelInfo, deleteChannel                         *)
(***************************************************************************)
(* Mutant: an ID may be generated twice, as the INSERT of a row replaces.  *)
CreateChannelAgain(r, v, c) ==
  /\ req[r] = Idle /\ v \in servers
  /\ Commit("create", c, v)
  /\ rows' = [rows EXCEPT ![c] = Len(history')]
  /\ Begin(r, [Idle EXCEPT !.at = "emit", !.server = v, !.channel = c,
                           !.no = Len(history'), !.row = Len(history')], {})
  /\ UNCHANGED <<servers, room, opened, told, lost, silent, crossed>>

(* The channel gets an ID of its own.                                      *)
CreateChannel(r, v, c) ==
  /\ req[r] = Idle /\ v \in servers /\ ChangesOf(c) = {}
  /\ Commit("create", c, v)
  /\ rows' = [rows EXCEPT ![c] = Len(history')]
  /\ Begin(r, [Idle EXCEPT !.at = "emit", !.server = v, !.channel = c,
                           !.no = Len(history'), !.row = Len(history')], {})
  /\ UNCHANGED <<servers, room, opened, told, lost, silent, crossed>>

(* The new name is committed; or there is no new name.                     *)
UpdateChannel(r, c) ==
  /\ req[r] = Idle /\ c \in Live
  /\ LET x == [Idle EXCEPT !.at = "read", !.server = ServerOf(c), !.channel = c] IN
     \/ /\ Commit("modify", c, ServerOf(c))
        /\ rows' = [rows EXCEPT ![c] = Len(history')]
        /\ Begin(r, [x EXCEPT !.no = Len(history')], About(c))
     \/ /\ Begin(r, x, About(c))
        /\ UNCHANGED <<rows, history>>
  /\ Crossing(c)
  /\ UNCHANGED <<servers, room, opened, told, lost, silent>>

(* Mutant: a renaming is told as the request understood it, without a look *)
(* at the row; without a new name the row before is told.                  *)
ReadChannelNot(r) ==
  LET x == req[r] IN
  /\ x.at = "read"
  /\ req' = [req EXCEPT ![r].at = "emit",
       ![r].row = IF x.no # 0 THEN x.no ELSE CHOOSE n \in ChangesOf(x.channel) : TRUE]
  /\ UNCHANGED <<rows, servers, history, room, opened, told, lost, silent, crossed>>

(* The row is read again, to be told.                                      *)
ReadChannel(r) ==
  /\ req[r].at = "read" /\ req[r].channel \in Live
  /\ req' = [req EXCEPT ![r].at = "emit", ![r].row = rows[req[r].channel]]
  /\ UNCHANGED <<rows, servers, history, room, opened, told, lost, silent, crossed>>

DeleteChannel(r, c) ==
  /\ req[r] = Idle /\ c \in Live
  /\ Commit("delete", c, ServerOf(c))
  /\ rows' = [rows EXCEPT ![c] = 0]
  /\ Begin(r, [Idle EXCEPT !.at = "emit", !.server = ServerOf(c), !.channel = c,
                           !.no = Len(history')], About(c))
  /\ Crossing(c)
  /\ UNCHANGED <<servers, room, opened, told, lost, silent>>

(* Mutant: the sessions are looked up by the list they were answered last. *)
EmitToOpened(r, full) ==
  LET x == req[r] IN
  /\ x.at = "emit"
  /\ told' = [s \in Session |->
       IF opened[s].server = x.server
       THEN Tell(told[s], [channel |-> x.channel, row |-> x.row]) ELSE told[s]]
  /\ Answer(r)
  /\ crossed' = IF x.alone /\ x.row # 0 THEN crossed \ {x.channel} ELSE crossed
  /\ UNCHANGED <<rows, servers, history, room, opened, lost, silent>>

(* EmitToRoom; the event is dropped for the sessions whose bus is full.    *)
(* What it tells is in the gap of the getChannels that have read the list  *)
(* and not yet subscribed.                                                 *)
EmitToRoom(r, full) ==
  LET x == req[r] IN
  /\ x.at = "emit"
  /\ told' = [s \in Session |->
       IF room[s] = x.server /\ s \notin full
       THEN Tell(told[s], [channel |-> x.channel, row |-> x.row]) ELSE told[s]]
  /\ lost' = [s \in Session |->
       IF room[s] = x.server /\ s \in full THEN lost[s] \cup {x.channel}
       ELSE IF room[s] = x.server /\ x.alone THEN lost[s] \ {x.channel}
       ELSE lost[s]]
  /\ req' = [q \in Request |->
       IF q = r THEN Idle
       ELSE IF req[q].at = "subscribe" THEN [req[q] EXCEPT !.gap = @ \cup {x.channel}]
       ELSE req[q]]
  /\ crossed' = IF x.alone /\ x.row # 0 THEN crossed \ {x.channel} ELSE crossed
  /\ UNCHANGED <<rows, servers, history, room, opened, silent>>

(* Servers are deleted, one by deleteServer or those of an account, and    *)
(* their channels go by ON DELETE CASCADE.  Nobody in their rooms is told. *)
CascadeDelete(V) ==
  /\ V # {} /\ V \subseteq servers
  /\ servers' = servers \ V
  /\ rows' = [c \in Channel |-> IF \E v \in V : c \in ChannelsOf(v) THEN 0 ELSE rows[c]]
  /\ UNCHANGED <<history, req, room, opened, told, lost, silent, crossed>>

(***************************************************************************)
(* getChannels                                                             *)
(***************************************************************************)
GetChannels(r, s, v) ==
  /\ req[r] = Idle
  /\ Begin(r, [Idle EXCEPT !.at = "subscribe", !.server = v, !.session = s,
                           !.seen = Len(history),
                           !.page = {[channel |-> c, row |-> rows[c]] :
                                       c \in Live \cap ChannelsOf(v)}], Of(s))
  /\ UNCHANGED <<rows, servers, history, room, opened, told, lost, silent, crossed>>

(* Mutant: a session stays in the room it entered first.                   *)
SetServerOnce(r) ==
  LET x == req[r] IN
  /\ x.at = "subscribe"
  /\ room' = IF room[x.session] = NoServer THEN [room EXCEPT ![x.session] = x.server] ELSE room
  /\ opened' = [opened EXCEPT ![x.session] = NotOpen]
  /\ told' = [told EXCEPT ![x.session] = <<>>] /\ lost' = [lost EXCEPT ![x.session] = {}]
  /\ req' = [req EXCEPT ![r].at = "answer"]
  /\ UNCHANGED <<rows, servers, history, silent, crossed>>

(* The list shown so far is about to be replaced.                          *)
SetServer(r) ==
  LET x == req[r] IN
  /\ x.at = "subscribe"
  /\ room' = [room EXCEPT ![x.session] = x.server]
  /\ opened' = [opened EXCEPT ![x.session] = NotOpen]
  /\ told' = [told EXCEPT ![x.session] = <<>>] /\ lost' = [lost EXCEPT ![x.session] = {}]
  /\ req' = [req EXCEPT ![r].at = "answer"]
  /\ UNCHANGED <<rows, servers, history, silent, crossed>>

AnswerChannels(r) ==
  LET x == req[r] IN
  /\ x.at = "answer"
  /\ opened' = [opened EXCEPT ![x.session] =
       [server |-> x.server, page |-> x.page, seen |-> x.seen, gap |-> x.gap, alone |-> x.alone]]
  /\ Answer(r)
  /\ UNCHANGED <<rows, servers, history, room, told, lost, silent, crossed>>

(* A step fails, and the request ends with an error; a change it committed *)
(* is told to nobody.  The row to be told may be gone, too.                *)
Fail(r) ==
  /\ req[r].at \in {"read", "subscribe"}
  /\ silent' = silent \cup ({req[r].no} \ {0})
  /\ Answer(r)
  /\ UNCHANGED <<rows, servers, history, room, opened, told, lost, crossed>>

Next ==
  \/ \E r \in Request :
       \/ \E v \in Server :
            \/ \E c \in Channel : CreateChannel(r, v, c)
            \/ \E s \in Session : GetChannels(r, s, v)
       \/ \E c \in Channel : UpdateChannel(r, c) \/ DeleteChannel(r, c)
       \/ ReadChannel(r) \/ Fail(r)
       \/ \E full \in SUBSET Session : EmitToRoom(r, full)
       \/ SetServer(r) \/ AnswerChannels(r)
  \/ \E V \in SUBSET Server : CascadeDelete(V)

Spec == Init /\ [][Next]_vars

(***************************************************************************)
(* Properties                                                              *)
(***************************************************************************)
Page == SUBSET [channel : Channel, row : 1..MaxChanges]

TypeOK ==
  /\ rows \in [Channel -> 0..Len(history)] /\ servers \subseteq Server
  /\ history \in Seq(Change)
  /\ req \in [Request ->
       [at : {"idle", "read", "emit", "subscribe", "answer"}, server : Server \cup {NoServer},
        channel : Channel \cup {NoChannel}, no : 0..Len(history), row : 0..Len(history),
        session : Session \cup {NoSession}, page : Page, seen : 0..Len(history),
        gap : SUBSET Channel, alone : BOOLEAN]]
  /\ room \in [Session -> Server \cup {NoServer}]
  /\ opened \in [Session -> [server : Server \cup {NoServer}, page : Page,
                             seen : 0..Len(history), gap : SUBSET Channel, alone : BOOLEAN]]
  /\ told \in [Session -> Seq(Event)] /\ lost \in [Session -> SUBSET Channel]
  /\ silent \subseteq DOMAIN history /\ crossed \subseteq Channel
  /\ \A c \in Channel : \A n \in ChangesOf(c) : history[n].server = ServerOf(c)

(* A session is told of the server whose list it shows: room and list part *)
(* only when two getChannels of the session overlapped, since the one that *)
(* moves the session last need not be answered last.                       *)
RoomMatchesList ==
  \A s \in Session :
    opened[s].server # NoServer /\ opened[s].alone => room[s] = opened[s].server

(* A session that shows the channels of a server has heard of each change  *)
(* to them: from its list, from an event that tells this row or a later    *)
(* one, or it will be told by a request under way.  The exceptions are     *)
(* channels told of in the gap before the subscription, or when the        *)
(* session's bus was full and not by a request alone since; requests that  *)
(* failed; and the server itself gone, which takes its channels with it.   *)
OnlyTheGapIsMissed ==
  \A s \in Session :
    opened[s].server \in servers /\ opened[s].alone =>
      \A c \in ChannelsOf(opened[s].server) : \A n \in ChangesOf(c) :
        \/ n <= opened[s].seen \/ n \in silent \/ c \in opened[s].gap \/ c \in lost[s]
        \/ \E i \in DOMAIN told[s] :
             told[s][i].channel = c /\ (told[s][i].row >= n \/ told[s][i].row = 0)
        \/ \E r \in About(c) : req[r].no = n

(* What session s shows of channel c: the last event about it, or else the *)
(* list; 0 if nothing.                                                     *)
View(s, c) ==
  LET about  == {i \in DOMAIN told[s] : told[s][i].channel = c}
      listed == {e \in opened[s].page : e.channel = c}
  IN  IF about # {} THEN told[s][CHOOSE i \in about : \A j \in about : j <= i].row
      ELSE IF listed # {} THEN (CHOOSE e \in listed : TRUE).row
      ELSE 0

(* List and events add up to the table: unless a change was told in the    *)
(* gap, found the bus full or was not told at all, a session shows the     *)
(* present row of every channel and none that is gone.  One exception are  *)
(* requests for a channel that overlap: the event of a creation or of a    *)
(* renaming may overtake that of the deletion, and the deleted channel is  *)
(* shown until the list is asked for again; older names go with the next   *)
(* update that runs alone.  The other are the channels of a server that is *)
(* gone: they went with it, and the session goes on showing them.          *)
ListConverges ==
  \A s \in Session :
    opened[s].server \in servers /\ opened[s].alone =>
      \A c \in ChannelsOf(opened[s].server) :
        /\ About(c) = {} /\ c \notin crossed
        /\ c \notin opened[s].gap \cup lost[s] /\ ChangesOf(c) \cap silent = {}
        => View(s, c) = rows[c]
=============================================================================
