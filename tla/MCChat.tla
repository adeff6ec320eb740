------------------------------- MODULE MCChat -------------------------------
(***************************************************************************)
(* A channel seen from a session, side by side in two models that share no *)
(* state: the changes of messages and their events (ChatLog) and the pages *)
(* of older messages (Paging).  One moves while the other rests at its     *)
(* start, which reaches every state that each of them can be in.           *)
(***************************************************************************)
EXTENDS ChatLog, TLC

CONSTANTS Limit, MaxMessages

ASSUME PagesAssumption == Limit \in Nat \ {0} /\ MaxMessages \in Nat

VARIABLES generated, stored, sending, inRoom, read, low, heard, missed   \* of Paging

Pages ==
  INSTANCE Paging WITH messages <- stored, req <- sending, listening <- inRoom, told <- heard

pageVars == <<generated, stored, sending, inRoom, read, low, heard, missed>>

LogRests == Init /\ UNCHANGED vars
PagesRest == Pages!Init /\ UNCHANGED pageVars

Start == Init /\ Pages!Init

SideBySide ==
  /\ Start
  /\ [][\/ PagesRest /\ Next
        \/ LogRests /\ Pages!Next]_<<vars, pageVars>>

(* The values of each component stay in their sets.                        *)
ChatTypeOK == TypeOK /\ Pages!TypeOK

(* Pages show messages with their attachments, and together with events    *)
(* they leave no holes in what a scrolling session has read.               *)
PagesComplete == PageWhole /\ Pages!NoHoles

Symmetry == Permutations(MessageId) \cup Permutations(Text) \cup Permutations(Request)
=============================================================================
