------------------------------- MODULE Paging -------------------------------
(***************************************************************************)
(* A session that scrolls through a channel: the last messages, then pages *)
(* of older ones ("before") and of newer ones ("after"), each of at most   *)
(* Limit messages in the order of their IDs, together with the events that *)
(* tell of new messages.                                                   *)
(*                                                                         *)
(* createMessage takes the ID before its transaction begins, so messages   *)
(* need not be committed in the order of their IDs: one may turn up in the *)
(* middle of what has been read already.  ChatLog has what becomes of a    *)
(* message once it is there; here it matters only whether the session      *)
(* learns of it.                                                           *)
(***************************************************************************)
EXTENDS Naturals, FiniteSets, FiniteSetsExt

CONSTANTS
  Request,
  Limit,         \* messages on a page
  MaxMessages    \* bound on the messages sent

VARIABLES
  generated,   \* the last ID that idGen gave
  messages,    \* the IDs of the messages in the table
  req,         \* the request each goroutine serves
  listening,   \* the session is in the channel's room
  read,        \* the messages on the pages the session was answered
  low,         \* all from here on have been asked for, 0 if from the first
  told,        \* the messages the session's bus told of
  missed       \* those it did not, since they were dropped, lost or not for it

vars == <<generated, messages, req, listening, read, low, told, missed>>

Idle == [at |-> "idle", id |-> 0, page |-> {}]
NotAsked == MaxMessages + 1

(* The queries: a page of the messages in S, by descending or ascending ID.*)
Descending(S) == {m \in S : Cardinality({n \in S : n > m}) < Limit}
Ascending(S) == {m \in S : Cardinality({n \in S : n < m}) < Limit}

Short(page) == Cardinality(page) < Limit
Answer(r) == req' = [req EXCEPT ![r] = Idle]
Asked == low # NotAsked
Until == Max(read \cup {0})

Init ==
  /\ generated = 0 /\ messages = {}
  /\ req = [r \in Request |-> Idle]
  /\ listening = FALSE
  /\ read = {} /\ low = NotAsked
  /\ told = {} /\ missed = {}

(***************************************************************************)
(* createMessage, deleteMessage                                            *)
(***************************************************************************)
CreateMessage(r) ==
  /\ req[r] = Idle /\ generated < MaxMessages
  /\ generated' = generated + 1
  /\ req' = [req EXCEPT ![r] = [Idle EXCEPT !.at = "tx", !.id = generated']]
  /\ UNCHANGED <<messages, listening, read, low, told, missed>>

Commit(r) ==
  /\ req[r].at = "tx"
  /\ messages' = messages \cup {req[r].id}
  /\ req' = [req EXCEPT ![r].at = "emit"]
  /\ UNCHANGED <<generated, listening, read, low, told, missed>>

(* A full bus drops the event, and who is not in the room is not told.     *)
Emit(r) ==
  /\ req[r].at = "emit"
  /\ \/ listening /\ told' = told \cup {req[r].id} /\ UNCHANGED missed
     \/ missed' = missed \cup {req[r].id} /\ UNCHANGED told
  /\ Answer(r)
  /\ UNCHANGED <<generated, messages, listening, read, low>>

DeleteMessage(m) ==
  /\ messages' = messages \ {m}
  /\ UNCHANGED <<generated, req, listening, read, low, told, missed>>

(* The transaction is rolled back, or a later step fails and the message   *)
(* that was committed is told to nobody; or a page is not answered.        *)
Fail(r) ==
  /\ req[r].at \in {"tx", "emit", "subscribe"}
  /\ missed' = IF req[r].at = "emit" THEN missed \cup {req[r].id} ELSE missed
  /\ Answer(r)
  /\ UNCHANGED <<generated, messages, listening, read, low, told>>

(***************************************************************************)
(* getMessages                                                             *)
(***************************************************************************)
(* Mutant: the query has no limit.                                         *)
GetLastAll(r) ==
  /\ req[r] = Idle
  /\ \A q \in Request : req[q].at # "subscribe"
  /\ req' = [req EXCEPT ![r] = [at |-> "subscribe", id |-> 0, page |-> messages]]
  /\ read' = {} /\ low' = NotAsked /\ told' = {} /\ missed' = {}
  /\ UNCHANGED <<generated, messages, listening>>

(* The last messages.                                                      *)
GetLast(r) ==
  /\ req[r] = Idle
  /\ \A q \in Request : req[q].at # "subscribe"
  /\ req' = [req EXCEPT ![r] = [at |-> "subscribe", id |-> 0, page |-> Descending(messages)]]
  /\ read' = {} /\ low' = NotAsked /\ told' = {} /\ missed' = {}
  /\ UNCHANGED <<generated, messages, listening>>

SetChannel(r) ==
  /\ req[r].at = "subscribe"
  /\ listening' = TRUE
  /\ read' = req[r].page
  /\ low' = IF Short(req[r].page) THEN 0 ELSE Min(req[r].page)
  /\ Answer(r)
  /\ UNCHANGED <<generated, messages, told, missed>>

(* Mutant: the page begins with the oldest message there is.               *)
GetBeforeAscending ==
  LET page == Ascending({m \in messages : m < low}) IN
  /\ Asked
  /\ read' = read \cup page
  /\ low' = IF Short(page) THEN 0 ELSE Min(page)
  /\ UNCHANGED <<generated, messages, req, listening, told, missed>>

(* Scrolling up: what comes before the oldest message read.                *)
GetBefore ==
  LET page == Descending({m \in messages : m < low}) IN
  /\ Asked
  /\ read' = read \cup page
  /\ low' = IF Short(page) THEN 0 ELSE Min(page)
  /\ UNCHANGED <<generated, messages, req, listening, told, missed>>

(* Scrolling down: what comes after the newest message read.  This fills in*)
(* what the session was not told of so far.                                *)
GetAfter ==
  LET page == Ascending({m \in messages : m > Until})
      last == IF Short(page) THEN generated ELSE Max(page) IN
  /\ Asked
  /\ read' = read \cup page
  /\ missed' = missed \ {m \in messages : Until < m /\ m <= last}
  /\ UNCHANGED <<generated, messages, req, listening, low, told>>

(* The session turns to another channel, or is removed, and the client     *)
(* keeps what it has.                                                      *)
LeaveChannel ==
  /\ listening
  /\ listening' = FALSE
  /\ UNCHANGED <<generated, messages, req, read, low, told, missed>>

Next ==
  \/ \E r \in Request :
       CreateMessage(r) \/ Commit(r) \/ Emit(r) \/ Fail(r) \/ GetLast(r) \/ SetChannel(r)
  \/ \E m \in messages : DeleteMessage(m)
  \/ GetBefore \/ GetAfter \/ LeaveChannel

Spec == Init /\ [][Next]_vars

(***************************************************************************)
(* Properties                                                              *)
(***************************************************************************)
TypeOK ==
  /\ generated \in 0..MaxMessages
  /\ messages \subseteq 1..generated
  /\ req \in [Request -> [at : {"idle", "tx", "emit", "subscribe"}, id : 0..generated,
                          page : SUBSET (1..generated)]]
  /\ listening \in BOOLEAN
  /\ read \cup told \cup missed \subseteq 1..generated
  /\ low \in 0..NotAsked
  /\ \A r \in Request : Cardinality(req[r].page) <= Limit

(* However the session has scrolled, and in whatever order messages were   *)
(* committed, sent and deleted meanwhile: of the messages from the oldest  *)
(* page on, it has every one from a page or from its bus, or the request   *)
(* that sent it is about to tell; except for those whose event it missed.  *)
(* There are no holes between pages, and a message committed late, in the  *)
(* middle of what was read, is not lost.                                   *)
NoHoles ==
  Asked =>
    \A m \in messages :
      m >= low => \/ m \in read \cup told \cup missed
                  \/ \E r \in Request : req[r].at = "emit" /\ req[r].id = m
=============================================================================
