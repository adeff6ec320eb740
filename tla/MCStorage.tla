----------------------------- MODULE MCStorage ------------------------------
(***************************************************************************)
(* What outlives a request, side by side in two models that share no       *)
(* state: the rows of the database (Ownership) and the files of attachments*)
(* (AttachmentStore).  One moves while the other rests at its start, which *)
(* reaches every state that each of them can be in.                        *)
(***************************************************************************)
EXTENDS Naturals, Ownership, TLC

CONSTANTS File, Upload, MaxFiles

ASSUME MaxFilesAssumption == MaxFiles \in Nat \ {0}

VARIABLES files, named, once, cut, upload   \* of AttachmentStore

Files == INSTANCE AttachmentStore WITH Request <- Upload, rows <- named, req <- upload

fileVars == <<files, named, once, cut, upload>>

RowsRest == Init /\ UNCHANGED vars
FilesRest == Files!Init /\ UNCHANGED fileVars

Start == Init /\ Files!Init

SideBySide ==
  /\ Start
  /\ [][\/ FilesRest /\ Next
        \/ RowsRest /\ Files!Next]_<<vars, fileVars>>

(* The foreign keys hold; senders have access to the channels of their     *)
(* messages, and listeners to what they listen to, although access is      *)
(* checked once, and before it is used.                                    *)
AccessKept == TypeOK /\ MessagesByMembers /\ ListenersHaveAccess

(* A message names only files that saveAttachment wrote as a whole.  They  *)
(* stay whole and serveAttachments sends them whole, but for uploads of the*)
(* same content.                                                           *)
AttachmentsKept ==
  Files!TypeOK /\ Files!NamedAfterSaved /\ Files!AttachmentWhole /\ Files!SentWhole

Symmetry == Permutations(User) \cup Permutations(Channel) \cup Permutations(Request)
              \cup Permutations(File)
=============================================================================
