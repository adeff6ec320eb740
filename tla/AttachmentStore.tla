-------------------------- MODULE AttachmentStore --------------------------
(***************************************************************************)
(* The files of attachments under public/attachments, and the table        *)
(* attachments that names them.  A file is named for the hash of its       *)
(* content, and saveAttachment writes it anew with every upload, with no   *)
(* lock and no look whether it is there: os.WriteFile truncates the file   *)
(* and then writes it, while serveAttachments may be sending it for another*)
(* message.                                                                *)
(*                                                                         *)
(* Uploads of one file write the same bytes to the same places, so what    *)
(* one has written the other does not spoil, once both have truncated it.  *)
(***************************************************************************)
EXTENDS Naturals, Sequences, FiniteSets

CONSTANTS
  File, Request,
  MaxFiles       \* the attachments a message may have

VARIABLES
  files,      \* how much there is of each file: "none", "part" or "whole"
  rows,       \* the files named in the table attachments
  once,       \* the files that were whole at some time
  cut,        \* files whose writing failed or was cut off, and none succeeded since
  req         \* the request each goroutine serves

vars == <<files, rows, once, cut, req>>

(* todo: the files still to be saved; saved: those that were.  size, sent: *)
(* what of a file was there when it was opened and when it was read.       *)
(* lapped: it was being rewritten meanwhile.                               *)
Idle == [at |-> "idle", todo |-> <<>>, saved |-> {}, size |-> "none", sent |-> "none",
         lapped |-> FALSE]

Answer(r) == req' = [req EXCEPT ![r] = Idle]
Writing(f) == {r \in Request : req[r].at = "write" /\ Head(req[r].todo) = f}
Serving(f) == {r \in Request : req[r].at \in {"send", "sent"} /\ req[r].todo = <<f>>}

Init ==
  /\ files = [f \in File |-> "none"]
  /\ rows = {} /\ once = {} /\ cut = {}
  /\ req = [r \in Request |-> Idle]

(***************************************************************************)
(* createMessage with saveAttachment                                       *)
(***************************************************************************)
CreateMessage(r, seq) ==
  /\ req[r] = Idle
  /\ req' = [req EXCEPT ![r] = [Idle EXCEPT !.at = "open", !.todo = seq]]
  /\ UNCHANGED <<files, rows, once, cut>>

(* Mutant: a file that is there, be it a part, is not written again.       *)
OpenUnlessThere(r) ==
  LET f == Head(req[r].todo) IN
  /\ req[r].at = "open" /\ req[r].todo # <<>>
  /\ IF files[f] = "none"
     THEN /\ files' = [files EXCEPT ![f] = "part"]
          /\ req' = [req EXCEPT ![r].at = "write"]
     ELSE /\ req' = [req EXCEPT ![r].todo = Tail(@), ![r].saved = @ \cup {f}]
          /\ UNCHANGED files
  /\ UNCHANGED <<rows, once, cut>>

(* os.WriteFile: created, or truncated.                                    *)
Open(r) ==
  LET f == Head(req[r].todo) IN
  /\ req[r].at = "open" /\ req[r].todo # <<>>
  /\ files' = [files EXCEPT ![f] = "part"]
  /\ req' = [q \in Request |->
       IF q = r THEN [req[q] EXCEPT !.at = "write"]
       ELSE [req[q] EXCEPT !.lapped = @ \/ q \in Serving(f)]]
  /\ UNCHANGED <<rows, once, cut>>

Write(r) ==
  LET f == Head(req[r].todo) IN
  /\ req[r].at = "write"
  /\ files' = [files EXCEPT ![f] = "whole"]
  /\ once' = once \cup {f} /\ cut' = cut \ {f}
  /\ req' = [req EXCEPT ![r].at = "open", ![r].todo = Tail(@), ![r].saved = @ \cup {f}]
  /\ UNCHANGED rows

(* The disk is full: the request fails; the files saved before, and what   *)
(* there is of this one, stay.                                             *)
WriteFails(r) ==
  /\ req[r].at = "write"
  /\ cut' = IF files[Head(req[r].todo)] = "part" THEN cut \cup {Head(req[r].todo)} ELSE cut
  /\ Answer(r)
  /\ UNCHANGED <<files, rows, once>>

(* With all files saved, message and attachments are inserted.             *)
Commit(r) ==
  /\ req[r].at = "open" /\ req[r].todo = <<>>
  /\ rows' = rows \cup req[r].saved
  /\ Answer(r)
  /\ UNCHANGED <<files, once, cut>>

(***************************************************************************)
(* serveAttachments                                                        *)
(***************************************************************************)
(* http.ServeFile opens the file and announces its size; or finds none.    *)
ServeAttachments(r, f) ==
  /\ req[r] = Idle /\ files[f] # "none"
  /\ req' = [req EXCEPT ![r] =
       [Idle EXCEPT !.at = "send", !.todo = <<f>>, !.size = files[f],
                    !.lapped = Writing(f) # {}]]
  /\ UNCHANGED <<files, rows, once, cut>>

(* It sends what is there, up to that size.                                *)
Send(r) ==
  /\ req[r].at = "send"
  /\ req' = [req EXCEPT ![r].at = "sent",
       ![r].sent = IF req[r].size = "whole" THEN files[Head(req[r].todo)] ELSE "part"]
  /\ UNCHANGED <<files, rows, once, cut>>

Sent(r) ==
  /\ req[r].at = "sent"
  /\ Answer(r)
  /\ UNCHANGED <<files, rows, once, cut>>

(* Mutant: a message that fails takes its files with it.                   *)
FailCleansUp(r) ==
  /\ req[r].at = "open"
  /\ files' = [f \in File |-> IF f \in req[r].saved THEN "none" ELSE files[f]]
  /\ Answer(r)
  /\ UNCHANGED <<rows, once, cut>>

(* MkdirAll, the opening, or the transaction fails.                        *)
Fail(r) ==
  /\ req[r].at = "open"
  /\ Answer(r)
  /\ UNCHANGED <<files, rows, once, cut>>

(* The process dies and starts again.                                      *)
Crash ==
  /\ cut' = cut \cup {f \in File : files[f] = "part"}
  /\ req' = [r \in Request |-> Idle]
  /\ UNCHANGED <<files, rows, once>>

(* Mutant: the limit is off by one.                                        *)
AttachmentsAndOne == UNION {[1..n -> File] : n \in 1..MaxFiles + 1}

Attachments == UNION {[1..n -> File] : n \in 1..MaxFiles}

Next ==
  \/ \E r \in Request :
       \/ \E seq \in Attachments : CreateMessage(r, seq)
       \/ Open(r) \/ Write(r) \/ WriteFails(r) \/ Commit(r)
       \/ \E f \in File : ServeAttachments(r, f)
       \/ Send(r) \/ Sent(r)
       \/ Fail(r)
  \/ Crash

Spec == Init /\ [][Next]_vars

(***************************************************************************)
(* Properties                                                              *)
(***************************************************************************)
Content == {"none", "part", "whole"}

TypeOK ==
  /\ files \in [File -> Content]
  /\ rows \cup once \cup cut \subseteq File
  /\ req \in [Request ->
       [at : {"idle", "open", "write", "send", "sent"}, todo : {<<>>} \cup Attachments,
        saved : SUBSET File, size : Content, sent : Content, lapped : BOOLEAN]]
  /\ \A r \in Request : Cardinality(req[r].saved) + Len(req[r].todo) <= MaxFiles

(* A message names only files that have been saved as a whole.            *)
NamedAfterSaved == rows \subseteq once

(* They are whole from then on, except while the same content is uploaded  *)
(* again, and after such an upload failed or died in the middle: one user's*)
(* failed upload takes the attachment away from the messages that had it,  *)
(* until the content is uploaded with success.                             *)
AttachmentWhole ==
  \A f \in rows : files[f] = "whole" \/ Writing(f) # {} \/ f \in cut

(* What is sent of an attachment is the whole of it, unless an upload of   *)
(* the same content overlapped or had failed.                              *)
SentWhole ==
  \A r \in Request :
    req[r].at = "sent" /\ ~req[r].lapped =>
      \/ req[r].sent = "whole"
      \/ Head(req[r].todo) \in cut
=============================================================================
