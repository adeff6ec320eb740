------------------------------- MODULE Typing -------------------------------
(***************************************************************************)
(* The typing indicator: a user's client reports the start and the stop of *)
(* typing, and the sessions in the channel are told.                       *)
(*                                                                         *)
(* A start reads the user's name first, from the cache or the database; a  *)
(* stop does not.  Nothing is stored: what a listener shows depends on the *)
(* order in which the events reach it.                                     *)
(***************************************************************************)
EXTENDS Naturals, Sequences

CONSTANTS
  Listener,     \* sessions that may be in the channel
  Request,      \* goroutines that serve the requests of one user
  MaxReports    \* bound on those requests

VARIABLES
  reports,    \* the requests that came, in that order
  req,        \* the report each goroutine handles
  listening,  \* the sessions in the channel's room
  since,      \* the reports that had come when each of them entered it
  shown,      \* the report each was told of last since then, or Nothing
  excused     \* sessions whose bus was full since then

vars == <<reports, req, listening, since, shown, excused>>

Action == {"start", "stop"}
Nothing == 0

(* left: the listeners still to be told.                                   *)
Idle == [at |-> "idle", no |-> 0, left |-> {}]

Answer(r) == req' = [req EXCEPT ![r] = Idle]
Busy == {r \in Request : req[r] # Idle}
Unlocked == \A r \in Request : req[r].at # "emit"

Init ==
  /\ reports = <<>>
  /\ req = [r \in Request |-> Idle]
  /\ listening = {}
  /\ since = [l \in Listener |-> 0]
  /\ shown = [l \in Listener |-> Nothing]
  /\ excused = {}

(***************************************************************************)
(* Handler typing                                                          *)
(***************************************************************************)
(* alone: no other report was handled at the same time; told: its emission *)
(* is over.                                                                *)
Typing(r, action) ==
  /\ req[r] = Idle /\ Len(reports) < MaxReports
  /\ reports' = [n \in 1 .. Len(reports) + 1 |->
       IF n = Len(reports) + 1
       THEN [action |-> action, alone |-> Busy = {}, told |-> FALSE]
       ELSE [reports[n] EXCEPT !.alone = @ /\ \A q \in Busy : req[q].no # n]]
  /\ req' = [req EXCEPT ![r] = [at |-> IF action = "start" THEN "name" ELSE "begin",
                               no |-> Len(reports) + 1, left |-> {}]]
  /\ UNCHANGED <<listening, since, shown, excused>>

(* UserGetSet.                                                             *)
GetName(r) ==
  /\ req[r].at = "name"
  /\ req' = [req EXCEPT ![r].at = "begin"]
  /\ UNCHANGED <<reports, listening, since, shown, excused>>

GetNameFails(r) ==
  /\ req[r].at = "name"
  /\ Answer(r)
  /\ UNCHANGED <<reports, listening, since, shown, excused>>

(* EmitToRoom takes the read lock and visits the listeners.                *)
BeginEmit(r) ==
  /\ req[r].at = "begin"
  /\ req' = [req EXCEPT ![r].at = "emit", ![r].left = listening]
  /\ UNCHANGED <<reports, listening, since, shown, excused>>

(* Mutant: the first full bus ends the emission.                           *)
SendUntilFull(r, l) ==
  /\ req[r].at = "emit" /\ l \in req[r].left
  /\ \/ /\ req' = [req EXCEPT ![r].left = @ \ {l}]
        /\ shown' = [shown EXCEPT ![l] = req[r].no]
        /\ UNCHANGED excused
     \/ /\ req' = [req EXCEPT ![r].left = {}]
        /\ excused' = excused \cup {l}
        /\ UNCHANGED shown
  /\ UNCHANGED <<reports, listening, since>>

Send(r, l) ==
  /\ req[r].at = "emit" /\ l \in req[r].left
  /\ req' = [req EXCEPT ![r].left = @ \ {l}]
  /\ \/ shown' = [shown EXCEPT ![l] = req[r].no] /\ UNCHANGED excused
     \/ excused' = excused \cup {l} /\ UNCHANGED shown    \* its bus is full
  /\ UNCHANGED <<reports, listening, since>>

EndEmit(r) ==
  /\ req[r].at = "emit" /\ req[r].left = {}
  /\ reports' = [reports EXCEPT ![req[r].no].told = TRUE]
  /\ Answer(r)
  /\ UNCHANGED <<listening, since, shown, excused>>

(***************************************************************************)
(* SessionManager.SetChannel and RemoveSession, with the write lock        *)
(***************************************************************************)
Enter(l) ==
  /\ Unlocked /\ l \notin listening
  /\ listening' = listening \cup {l}
  /\ since' = [since EXCEPT ![l] = Len(reports)]
  /\ UNCHANGED <<reports, req, shown, excused>>

(* Mutant: a session leaves under the read lock only.                      *)
LeaveUnlocked(l) ==
  /\ l \in listening
  /\ listening' = listening \ {l}
  /\ shown' = [shown EXCEPT ![l] = Nothing] /\ excused' = excused \ {l}
  /\ UNCHANGED <<reports, req, since>>

Leave(l) ==
  /\ Unlocked /\ l \in listening
  /\ listening' = listening \ {l}
  /\ shown' = [shown EXCEPT ![l] = Nothing] /\ excused' = excused \ {l}
  /\ UNCHANGED <<reports, req, since>>

Next ==
  \/ \E r \in Request :
       \/ \E action \in Action : Typing(r, action)
       \/ GetName(r) \/ GetNameFails(r) \/ BeginEmit(r) \/ EndEmit(r)
       \/ \E l \in Listener : Send(r, l)
  \/ \E l \in Listener : Enter(l) \/ Leave(l)

Spec == Init /\ [][Next]_vars

(***************************************************************************)
(* Properties                                                              *)
(***************************************************************************)
TypeOK ==
  /\ Len(reports) <= MaxReports
  /\ \A n \in DOMAIN reports :
       reports[n] \in [action : Action, alone : BOOLEAN, told : BOOLEAN]
  /\ req \in [Request -> [at : {"idle", "name", "begin", "emit"}, no : 0 .. Len(reports),
                          left : SUBSET listening]]
  /\ listening \subseteq Listener /\ excused \subseteq listening
  /\ since \in [Listener -> 0 .. Len(reports)]
  /\ shown \in [Listener -> 0 .. Len(reports)]

(* A listener ends up with the last report: it shows nothing older than the*)
(* last start or stop whose emission is over, if no other was handled at   *)
(* the same time (a stop overtakes a start that waits for the name, and the*)
(* user seems to type for ever) and no event was dropped at its full bus.  *)
TypingSettles ==
  \A n \in DOMAIN reports, l \in listening \ excused :
    reports[n].alone /\ reports[n].told /\ shown[l] < n => shown[l] = Nothing /\ n <= since[l]
=============================================================================
