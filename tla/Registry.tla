------------------------------ MODULE Registry ------------------------------
(***************************************************************************)
(* What the handlers promise about servers, channels and messages, if each *)
(* of them were one atomic step: a user makes servers, the owner of a      *)
(* server makes and deletes its channels and deletes the server itself,    *)
(* whoever has access to a channel posts to it, senders take their         *)
(* messages back, and a deleted user takes everything along.               *)
(*                                                                         *)
(* Ownership, where a right is checked in one statement and used in        *)
(* another, implements this specification.                                 *)
(***************************************************************************)
EXTENDS Tables

CONSTANT NoUser   \* zero value

VARIABLES
  db,   \* the tables
  by    \* the user on whose behalf they were last changed

vars == <<db, by>>

Init ==
  /\ db = NoRows
  /\ by = NoUser

Register(u) ==
  /\ u \notin db.users
  /\ db' = [db EXCEPT !.users = @ \cup {u}]
  /\ by' = u

DeleteUser(u) ==
  /\ u \in db.users
  /\ db' = Cascade([db EXCEPT !.users = @ \ {u}])
  /\ by' = u

(* A server begins with a default channel.                                 *)
CreateServer(u, s, c) ==
  /\ u \in db.users
  /\ \A x \in db.servers : x.id # s
  /\ \A x \in db.channels : x.id # c
  /\ db' = [db EXCEPT !.servers = @ \cup {[id |-> s, owner |-> u]},
                      !.channels = @ \cup {[id |-> c, server |-> s]}]
  /\ by' = u

DeleteServer(u, s) ==
  /\ OwnsServer(db, u, s)
  /\ db' = Cascade([db EXCEPT !.servers = @ \ {[id |-> s, owner |-> u]}])
  /\ by' = u

CreateChannel(u, s, c) ==
  /\ OwnsServer(db, u, s)
  /\ \A x \in db.channels : x.id # c
  /\ db' = [db EXCEPT !.channels = @ \cup {[id |-> c, server |-> s]}]
  /\ by' = u

DeleteChannel(u, c) ==
  /\ OwnsChannel(db, u, c)
  /\ db' = Cascade([db EXCEPT !.channels = {x \in @ : x.id # c}])
  /\ by' = u

Join(u, s) ==
  /\ u \in db.users /\ \E x \in db.servers : x.id = s
  /\ db' = [db EXCEPT !.members = @ \cup {[server |-> s, user |-> u]}]
  /\ by' = u

Post(u, c) ==
  /\ AccessesChannel(db, u, c)
  /\ db' = [db EXCEPT !.messages = @ \cup {[channel |-> c, sender |-> u]}]
  /\ by' = u

Retract(u, c) ==
  /\ db' = [db EXCEPT !.messages = @ \ {[channel |-> c, sender |-> u]}]
  /\ by' = u

Next ==
  \E u \in User :
    \/ Register(u) \/ DeleteUser(u)
    \/ \E s \in Server, c \in Channel : CreateServer(u, s, c) \/ CreateChannel(u, s, c)
    \/ \E s \in Server : DeleteServer(u, s) \/ Join(u, s)
    \/ \E c \in Channel : DeleteChannel(u, c) \/ Post(u, c) \/ Retract(u, c)

Spec == Init /\ [][Next]_vars
=============================================================================
