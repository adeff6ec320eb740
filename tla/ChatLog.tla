------------------------------ MODULE ChatLog -------------------------------
(***************************************************************************)
(* The messages of one channel: the table, the pages that getMessages      *)
(* reads from it, and the events that tell the sessions in the channel's   *)
(* room of every later change.                                             *)
(*                                                                         *)
(* A session learns of the channel in two ways that no lock relates: a page*)
(* of what the table held, and events about what changed since.  The table *)
(* changes in one transaction, the event follows in a step of its own, and *)
(* getMessages subscribes the session after it has read its page.  This    *)
(* module says what a session can miss because of that.                    *)
(*                                                                         *)
(* The manager is seen as Subscriptions sees it.  An event bus may take an *)
(* event or, being full, drop it; what is on it is told in order.  The     *)
(* channel holds fewer messages than a page (MESSAGES_SLICE_CAP), and the  *)
(* requests for older messages, which subscribe to nothing, are left out.  *)
(***************************************************************************)
EXTENDS Naturals, Sequences, Functions

CONSTANTS
  MessageId, Text, Session, Request,
  NoMessage, NoText, NoSession,   \* zero values
  MaxChanges                      \* bound on the changes committed

ASSUME NoValueAssumption ==
  NoMessage \notin MessageId /\ NoText \notin Text /\ NoSession \notin Session
ASSUME BoundAssumption == MaxChanges \in Nat

VARIABLES
  messages,     \* the table messages: what each ID's row says
  attachments,  \* messages that have rows in the table attachments
  history,      \* the changes committed to the table, in that order
  req,          \* the request each goroutine serves
  listening,    \* sessions in the room of the channel
  opened,       \* what each session was given when it subscribed
  told,         \* the changes put on each session's bus since then
  dropped,      \* the changes its full bus did not take
  silent        \* the changes whose request failed after the commit

vars == <<messages, attachments, history, req, listening, opened, told, dropped, silent>>

(***************************************************************************)
(* Data                                                                    *)
(***************************************************************************)
(* files: the message was sent with attachments (attachment_count > 0).    *)
Row == [text : Text, files : BOOLEAN]
NoRow == [text |-> NoText, files |-> FALSE]

(* A message of a page, with the attachments read for it, if any.          *)
Entry == [id : MessageId, text : Text, files : BOOLEAN, attached : BOOLEAN]

(* A change to the table, number n of the history, and the messages it is  *)
(* about: one, or those that go with their author or channel.  alone: every*)
(* earlier change to them had been answered when this one was committed.   *)
Change == [kind : {"create", "edit", "delete", "cascade"}, ids : SUBSET MessageId,
           text : Text \cup {NoText}, alone : BOOLEAN]

(* no: the change the request has committed.  seen and gap: how many       *)
(* changes its page shows, and those whose emission has begun since.       *)
Idle == [at |-> "idle", id |-> NoMessage, text |-> NoText, files |-> FALSE, no |-> 0,
         todo |-> {}, session |-> NoSession, page |-> {}, seen |-> 0, gap |-> {}]

NotOpen == [page |-> {}, seen |-> 0, gap |-> {}, open |-> FALSE]

Live == {m \in MessageId : messages[m] # NoRow}
ChangesOf(m) == {n \in DOMAIN history : m \in history[n].ids}
InFlight(m) == \E r \in Request : req[r].no # 0 /\ m \in history[req[r].no].ids
Unlocked == \A r \in Request : req[r].at # "emit"
Answer(r) == req' = [req EXCEPT ![r] = Idle]

Commit(kind, ids, text) ==
  /\ Len(history) < MaxChanges
  /\ history' = Append(history, [kind |-> kind, ids |-> ids, text |-> text,
                                 alone |-> \A m \in ids : ~InFlight(m)])

Init ==
  /\ messages = [m \in MessageId |-> NoRow]
  /\ attachments = {}
  /\ history = <<>>
  /\ req = [r \in Request |-> Idle]
  /\ listening = {}
  /\ opened = [s \in Session |-> NotOpen]
  /\ told = [s \in Session |-> <<>>]
  /\ dropped = [s \in Session |-> {}]
  /\ silent = {}

(***************************************************************************)
(* createMessage, editMessage, deleteMessage                               *)
(***************************************************************************)
(* The message has passed the checks, its files are stored, and the next   *)
(* ID is its own.                                                          *)
CreateMessage(r, m, text, files) ==
  /\ req[r] = Idle
  /\ ChangesOf(m) = {} /\ \A q \in Request : req[q].id # m
  /\ req' = [req EXCEPT ![r] = [Idle EXCEPT !.at = "tx", !.id = m, !.text = text,
                                             !.files = files]]
  /\ UNCHANGED <<messages, attachments, history, listening, opened, told, dropped, silent>>

(* Mutant: the attachments are left to a later transaction.                *)
CommitCreateWithoutAttachments(r) ==
  LET x == req[r] IN
  /\ x.at = "tx"
  /\ Commit("create", {x.id}, x.text)
  /\ messages' = [messages EXCEPT ![x.id] = [text |-> x.text, files |-> x.files]]
  /\ req' = [req EXCEPT ![r].at = "ready", ![r].no = Len(history')]
  /\ UNCHANGED <<attachments, listening, opened, told, dropped, silent>>

(* The transaction inserts the message and its attachments.                *)
CommitCreate(r) ==
  LET x == req[r] IN
  /\ x.at = "tx"
  /\ Commit("create", {x.id}, x.text)
  /\ messages' = [messages EXCEPT ![x.id] = [text |-> x.text, files |-> x.files]]
  /\ attachments' = IF x.files THEN attachments \cup {x.id} ELSE attachments
  /\ req' = [req EXCEPT ![r].at = "ready", ![r].no = Len(history')]
  /\ UNCHANGED <<listening, opened, told, dropped, silent>>

(* Mutant: whether a row was updated is not looked at.                     *)
EditMessageUnchecked(r, m, text) ==
  /\ req[r] = Idle /\ ChangesOf(m) # {}
  /\ Commit("edit", {m}, text)
  /\ messages' = IF m \in Live THEN [messages EXCEPT ![m].text = text] ELSE messages
  /\ req' = [req EXCEPT ![r].at = "ready", ![r].no = Len(history')]
  /\ UNCHANGED <<attachments, listening, opened, told, dropped, silent>>

(* The UPDATE finds the message, which the user has sent to this channel;  *)
(* otherwise nothing changes and nothing is told.                          *)
EditMessage(r, m, text) ==
  /\ req[r] = Idle /\ m \in Live
  /\ Commit("edit", {m}, text)
  /\ messages' = [messages EXCEPT ![m].text = text]
  /\ req' = [req EXCEPT ![r].at = "ready", ![r].no = Len(history')]
  /\ UNCHANGED <<attachments, listening, opened, told, dropped, silent>>

(* Mutant: the database does not enforce its foreign keys.                 *)
DeleteMessageNoCascade(r, m) ==
  /\ req[r] = Idle /\ m \in Live
  /\ Commit("delete", {m}, NoText)
  /\ messages' = [messages EXCEPT ![m] = NoRow]
  /\ req' = [req EXCEPT ![r].at = "ready", ![r].no = Len(history')]
  /\ UNCHANGED <<attachments, listening, opened, told, dropped, silent>>

(* Likewise; the attachments go with the message (ON DELETE CASCADE).      *)
DeleteMessage(r, m) ==
  /\ req[r] = Idle /\ m \in Live
  /\ Commit("delete", {m}, NoText)
  /\ messages' = [messages EXCEPT ![m] = NoRow]
  /\ attachments' = attachments \ {m}
  /\ req' = [req EXCEPT ![r].at = "ready", ![r].no = Len(history')]
  /\ UNCHANGED <<listening, opened, told, dropped, silent>>

(* The messages of an account that is deleted, or all of a channel that is *)
(* deleted, alone or with its server, go by ON DELETE CASCADE.  Nobody in  *)
(* the room of the channel is told.                                        *)
CascadeDelete(ids) ==
  /\ ids # {} /\ ids \subseteq Live
  /\ Commit("cascade", ids, NoText)
  /\ messages' = [m \in MessageId |-> IF m \in ids THEN NoRow ELSE messages[m]]
  /\ attachments' = attachments \ ids
  /\ UNCHANGED <<req, listening, opened, told, dropped, silent>>

(* A failing step ends the request with an error.  The transaction is      *)
(* rolled back; or, once a change is committed, a step before the emission *)
(* fails (createMessage reads the author's name and picture then) and the  *)
(* change is told to nobody; or a page is not answered.                    *)
Fail(r) ==
  /\ req[r].at \in {"tx", "ready", "attachments", "subscribe"}
  /\ silent' = IF req[r].no # 0 THEN silent \cup {req[r].no} ELSE silent
  /\ Answer(r)
  /\ UNCHANGED <<messages, attachments, history, listening, opened, told, dropped>>

(***************************************************************************)
(* EmitToRoom                                                              *)
(***************************************************************************)
BeginEmit(r) ==
  /\ req[r].at = "ready"
  /\ req' = [q \in Request |->
       IF q = r THEN [req[r] EXCEPT !.at = "emit", !.todo = listening]
       ELSE IF req[q].at \in {"attachments", "subscribe"}
            THEN [req[q] EXCEPT !.gap = @ \cup {req[r].no}]
            ELSE req[q]]
  /\ UNCHANGED <<messages, attachments, history, listening, opened, told, dropped, silent>>

Send(r, s) ==
  /\ req[r].at = "emit" /\ s \in req[r].todo
  /\ req' = [req EXCEPT ![r].todo = @ \ {s}]
  /\ \/ told' = [told EXCEPT ![s] = Append(@, req[r].no)] /\ UNCHANGED dropped
     \/ dropped' = [dropped EXCEPT ![s] = @ \cup {req[r].no}] /\ UNCHANGED told
  /\ UNCHANGED <<messages, attachments, history, listening, opened, silent>>

EndEmit(r) ==
  /\ req[r].at = "emit" /\ req[r].todo = {}
  /\ Answer(r)
  /\ UNCHANGED <<messages, attachments, history, listening, opened, told, dropped, silent>>

(***************************************************************************)
(* getMessages, the request for the last messages                          *)
(***************************************************************************)
GetMessages(r, s) ==
  /\ req[r] = Idle
  /\ req' = [req EXCEPT ![r] =
       [Idle EXCEPT !.at = "attachments", !.session = s, !.seen = Len(history),
          !.page = {[id |-> m, text |-> messages[m].text, files |-> messages[m].files,
                     attached |-> FALSE] : m \in Live}]]
  /\ UNCHANGED <<messages, attachments, history, listening, opened, told, dropped, silent>>

(* A second transaction reads the attachments of the messages on the page. *)
GetAttachments(r) ==
  /\ req[r].at = "attachments"
  /\ req' = [req EXCEPT ![r].at = "subscribe",
       ![r].page = {[e EXCEPT !.attached = e.files /\ e.id \in attachments] : e \in @}]
  /\ UNCHANGED <<messages, attachments, history, listening, opened, told, dropped, silent>>

(* Mutant: the room is left after it was entered, so that opening the same *)
(* channel again ends outside.                                             *)
SetChannelLeavesLast(r) ==
  LET x == req[r] IN
  /\ x.at = "subscribe" /\ Unlocked
  /\ listening' = IF x.session \in listening THEN listening \ {x.session}
                  ELSE listening \cup {x.session}
  /\ opened' = [opened EXCEPT ![x.session] = [page |-> x.page, seen |-> x.seen,
                                              gap |-> x.gap, open |-> TRUE]]
  /\ told' = [told EXCEPT ![x.session] = <<>>]
  /\ dropped' = [dropped EXCEPT ![x.session] = {}]
  /\ Answer(r)
  /\ UNCHANGED <<messages, attachments, history, silent>>

(* The session enters the room and the page is answered.                   *)
SetChannel(r) ==
  LET x == req[r] IN
  /\ x.at = "subscribe" /\ Unlocked
  /\ listening' = listening \cup {x.session}
  /\ opened' = [opened EXCEPT ![x.session] = [page |-> x.page, seen |-> x.seen,
                                              gap |-> x.gap, open |-> TRUE]]
  /\ told' = [told EXCEPT ![x.session] = <<>>]
  /\ dropped' = [dropped EXCEPT ![x.session] = {}]
  /\ Answer(r)
  /\ UNCHANGED <<messages, attachments, history, silent>>

(* The session turns to another channel, or is removed.                    *)
LeaveChannel(s) ==
  /\ s \in listening /\ Unlocked
  /\ listening' = listening \ {s}
  /\ opened' = [opened EXCEPT ![s] = NotOpen]
  /\ told' = [told EXCEPT ![s] = <<>>]
  /\ dropped' = [dropped EXCEPT ![s] = {}]
  /\ UNCHANGED <<messages, attachments, history, req, silent>>

Next ==
  \/ \E r \in Request :
       \/ \E m \in MessageId, text \in Text :
            \/ \E files \in BOOLEAN : CreateMessage(r, m, text, files)
            \/ EditMessage(r, m, text)
       \/ CommitCreate(r)
       \/ \E m \in MessageId : DeleteMessage(r, m)
       \/ Fail(r)
       \/ BeginEmit(r) \/ EndEmit(r)
       \/ \E s \in Session : Send(r, s) \/ GetMessages(r, s)
       \/ GetAttachments(r) \/ SetChannel(r)
  \/ \E s \in Session : LeaveChannel(s)
  \/ \E ids \in SUBSET MessageId : CascadeDelete(ids)

Spec == Init /\ [][Next]_vars

(***************************************************************************)
(* Properties                                                              *)
(***************************************************************************)
TypeOK ==
  /\ messages \in [MessageId -> Row \cup {NoRow}]
  /\ attachments \subseteq Live
  /\ history \in Seq(Change)
  /\ req \in [Request ->
       [at : {"idle", "tx", "ready", "emit", "attachments", "subscribe"},
        id : MessageId \cup {NoMessage}, text : Text \cup {NoText}, files : BOOLEAN,
        no : 0..Len(history), todo : SUBSET listening, session : Session \cup {NoSession},
        page : SUBSET Entry, seen : 0..Len(history), gap : SUBSET DOMAIN history]]
  /\ listening \subseteq Session
  /\ opened \in [Session -> [page : SUBSET Entry, seen : 0..Len(history),
                             gap : SUBSET DOMAIN history, open : BOOLEAN]]
  /\ told \in [Session -> Seq(DOMAIN history)]
  /\ dropped \in [Session -> SUBSET DOMAIN history]
  /\ silent \subseteq DOMAIN history

(* The request that committed change n has yet to tell session s of it.    *)
StillToTell(n, s) ==
  \E r \in Request :
    req[r].no = n /\ (req[r].at = "ready" \/ s \in req[r].todo)

(* A session that has opened the channel knows every committed change, from*)
(* its page or from its bus, or will be told of it, with four exceptions:  *)
(* changes its full bus dropped, changes whose emission began between the  *)
(* reading of its page and its subscription, changes whose request failed  *)
(* after the commit, and messages that went by cascade.                    *)
OnlyTheGapIsMissed ==
  \A s \in Session : opened[s].open =>
    \A n \in DOMAIN history :
      \/ n <= opened[s].seen
      \/ n \in Range(told[s]) \/ StillToTell(n, s)
      \/ n \in dropped[s] \cup opened[s].gap \cup silent
      \/ history[n].kind = "cascade"

(* No change to message m is in progress, and none began before the one    *)
(* before it had been answered.                                            *)
Settled(m) ==
  ~InFlight(m) /\ \A n \in ChangesOf(m) : history[n].alone

Heard(s, m) ==
  \A n \in ChangesOf(m) : n <= opened[s].seen \/ n \in Range(told[s])

(* What session s makes of its page and of the events on its bus: the last *)
(* event about a message counts, and without one the page.                 *)
View(s, m) ==
  LET about == {i \in DOMAIN told[s] : m \in history[told[s][i]].ids}
      last  == CHOOSE i \in about : \A j \in about : j <= i
  IN  IF about # {} THEN {history[told[s][last]].text} \ {NoText}
      ELSE {e.text : e \in {x \in opened[s].page : x.id = m}}

(* Page and events add up: whatever else went on meanwhile, a session that *)
(* heard of all changes to a message since its page was read sees what the *)
(* table says of it, once the changes are settled.  Neither a late event   *)
(* that the page already covers nor one about a message that is gone can   *)
(* bring an older text back.                                               *)
ViewConverges ==
  \A s \in Session, m \in MessageId :
    opened[s].open /\ Settled(m) /\ Heard(s, m) =>
      View(s, m) = {messages[m].text} \ {NoText}

(* The message and its attachments are read in two transactions, yet a page*)
(* shows a message without the attachments it was sent with only if it was *)
(* deleted in between.                                                     *)
PageWhole ==
  \A s \in Session : \A e \in opened[s].page :
    e.files /\ ~e.attached =>
      \E n \in ChangesOf(e.id) :
        n > opened[s].seen /\ history[n].kind \in {"delete", "cascade"}
=============================================================================
