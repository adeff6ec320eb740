------------------------------- MODULE Tables -------------------------------
(***************************************************************************)
(* The tables users, servers, channels, server_members and messages, their *)
(* foreign keys, and the queries that decide what a user may do.  Columns  *)
(* that decide nothing are left out; the messages of one sender in one     *)
(* channel count as one row.                                               *)
(***************************************************************************)
CONSTANTS User, Server, Channel

Database ==
  [users    : SUBSET User,
   servers  : SUBSET [id : Server, owner : User],
   channels : SUBSET [id : Channel, server : Server],
   members  : SUBSET [server : Server, user : User],
   messages : SUBSET [channel : Channel, sender : User]]

NoRows == [users |-> {}, servers |-> {}, channels |-> {}, members |-> {}, messages |-> {}]

(* What is left of the rows of d when those that refer to a missing row    *)
(* are deleted, and those that refer to them (ON DELETE CASCADE).          *)
Cascade(d) ==
  LET servers  == {s \in d.servers : s.owner \in d.users}
      channels == {c \in d.channels : \E s \in servers : s.id = c.server}
  IN  [d EXCEPT !.servers = servers, !.channels = channels,
                !.members = {m \in @ : m.user \in d.users /\ \E s \in servers : s.id = m.server},
                !.messages = {m \in @ : m.sender \in d.users
                                        /\ \E c \in channels : c.id = m.channel}]

(* The foreign keys hold; an INSERT after which they would not is rejected.*)
Valid(d) == Cascade(d) = d

(***************************************************************************)
(* The queries of the access checks                                        *)
(***************************************************************************)
OwnsServer(d, u, s) == [id |-> s, owner |-> u] \in d.servers

AccessesServer(d, u, s) ==
  OwnsServer(d, u, s) \/ [server |-> s, user |-> u] \in d.members

OwnsChannel(d, u, c) ==
  \E s \in Server : [id |-> c, server |-> s] \in d.channels /\ OwnsServer(d, u, s)

AccessesChannel(d, u, c) ==
  \E s \in Server : [id |-> c, server |-> s] \in d.channels /\ AccessesServer(d, u, s)
=============================================================================
