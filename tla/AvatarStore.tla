---------------------------- MODULE AvatarStore ----------------------------
(***************************************************************************)
(* The files of avatars under public/avatars, and the column picture that  *)
(* names them.  A file is named for the hash of its content; saveAvatar    *)
(* writes it under one mutex, generateResizedAvatar writes the small copies*)
(* under another, and serveAvatars reads both under none.                  *)
(*                                                                         *)
(* os.WriteFile creates the file and then writes it, and may fail, or the  *)
(* process may die, in between.  A look with os.Stat tells whether there is*)
(* a file, not whether it is whole.                                        *)
(***************************************************************************)
EXTENDS Naturals, FiniteSets

CONSTANTS
  User, Avatar, Request,
  Size,                  \* the sizes avatars are resized to
  Original,              \* the size saveAvatar makes
  NoUser, NoAvatar       \* zero values

ASSUME ZeroAssumption ==
  Original \notin Size /\ NoUser \notin User /\ NoAvatar \notin Avatar

Slot == Size \cup {Original}

VARIABLES
  files,     \* how much there is of each file: "none", "part" or "whole"
  spoiled,   \* the files whose writing failed or was cut off
  picture,   \* the column users.picture
  req        \* the request each goroutine serves

vars == <<files, spoiled, picture, req>>

(* found: the file was there at the look before the mutex.                 *)
Idle == [at |-> "idle", user |-> NoUser, avatar |-> NoAvatar, slot |-> Original,
         found |-> FALSE]

File(r) == files[req[r].avatar][req[r].slot]
Name(r) == <<req[r].avatar, req[r].slot>>
Uploads(r) == req[r].user # NoUser
Goto(r, at) == req' = [req EXCEPT ![r].at = at]
Answer(r) == req' = [req EXCEPT ![r] = Idle]

Init ==
  /\ files = [a \in Avatar |-> [s \in Slot |-> "none"]]
  /\ spoiled = {}
  /\ picture = [u \in User |-> NoAvatar]
  /\ req = [r \in Request |-> Idle]

(* Uploads share a mutex, and so do the requests that resize, to any size. *)
Locked == {"create", "write", "decode"}
MutexFree(r) == \A q \in Request : Uploads(q) = Uploads(r) => req[q].at \notin Locked

(***************************************************************************)
(* uploadUserAvatar with saveAvatar                                        *)
(***************************************************************************)
(* The upload is decoded, resized, encoded and hashed.                     *)
SaveAvatar(r, u, a) ==
  /\ req[r] = Idle
  /\ req' = [req EXCEPT ![r] = [Idle EXCEPT !.at = "lock", !.user = u, !.avatar = a]]
  /\ UNCHANGED <<files, spoiled, picture>>

(* Mutant: no mutex.                                                       *)
LockWithoutMutex(r) ==
  /\ req[r].at = "lock"
  /\ IF File(r) = "none" THEN Goto(r, IF Uploads(r) THEN "create" ELSE "decode")
     ELSE Goto(r, IF Uploads(r) THEN "update" ELSE "serve")
  /\ UNCHANGED <<files, spoiled, picture>>

(* The mutex, and under it a look for the file: once it is there, there is *)
(* no need to write it.                                                    *)
Lock(r) ==
  /\ req[r].at = "lock" /\ MutexFree(r)
  /\ IF File(r) = "none" THEN Goto(r, IF Uploads(r) THEN "create" ELSE "decode")
     ELSE Goto(r, IF Uploads(r) THEN "update" ELSE "serve")
  /\ UNCHANGED <<files, spoiled, picture>>

(* os.WriteFile: the file is created, and then written.                    *)
Create(r) ==
  /\ req[r].at = "create"
  /\ files' = [files EXCEPT ![req[r].avatar][req[r].slot] = "part"]
  /\ Goto(r, "write")
  /\ UNCHANGED <<spoiled, picture>>

(* The mutex is released on return.                                        *)
Write(r) ==
  /\ req[r].at = "write"
  /\ files' = [files EXCEPT ![req[r].avatar][req[r].slot] = "whole"]
  /\ Goto(r, IF Uploads(r) THEN "update" ELSE "serve")
  /\ UNCHANGED <<spoiled, picture>>

(* Mutant: a failed write is tried again, for as long as it fails.         *)
WriteFailsRetries(r) ==
  /\ req[r].at = "write"
  /\ spoiled' = spoiled \cup {Name(r)}
  /\ Goto(r, "create")
  /\ UNCHANGED <<files, picture>>

(* The disk is full: an error, and the part that was written stays.        *)
WriteFails(r) ==
  /\ req[r].at = "write"
  /\ spoiled' = spoiled \cup {Name(r)}
  /\ Answer(r)
  /\ UNCHANGED <<files, picture>>

UpdatePicture(r) ==
  /\ req[r].at = "update"
  /\ picture' = [picture EXCEPT ![req[r].user] = req[r].avatar]
  /\ Answer(r)
  /\ UNCHANGED <<files, spoiled>>

(***************************************************************************)
(* serveAvatars with generateResizedAvatar                                 *)
(***************************************************************************)
(* The original is served as it is; for another size there is a look first.*)
ServeAvatars(r, a, s) ==
  /\ req[r] = Idle
  /\ req' = [req EXCEPT ![r] = [Idle EXCEPT !.at = IF s = Original THEN "serve" ELSE "look",
                                            !.avatar = a, !.slot = s, !.found = s = Original]]
  /\ UNCHANGED <<files, spoiled, picture>>

Look(r) ==
  /\ req[r].at = "look"
  /\ req' = [req EXCEPT ![r].at = IF File(r) = "none" THEN "original" ELSE "serve",
                        ![r].found = File(r) # "none"]
  /\ UNCHANGED <<files, spoiled, picture>>

(* Without the original, the answer is that there is none.                 *)
LookForOriginal(r) ==
  /\ req[r].at = "original"
  /\ IF files[req[r].avatar][Original] = "none" THEN Answer(r) ELSE Goto(r, "lock")
  /\ UNCHANGED <<files, spoiled, picture>>

(* Mutant: a picture is made of as much as there is of the original.       *)
DecodeAnything(r) ==
  /\ req[r].at = "decode"
  /\ Goto(r, "create")
  /\ UNCHANGED <<files, spoiled, picture>>

(* An original of which there is a part cannot be decoded.                 *)
Decode(r) ==
  /\ req[r].at = "decode"
  /\ IF files[req[r].avatar][Original] = "whole" THEN Goto(r, "create") ELSE Answer(r)
  /\ UNCHANGED <<files, spoiled, picture>>

(* http.ServeFile sends what there is of the file.                         *)
Serve(r) ==
  /\ req[r].at = "serve"
  /\ Answer(r)
  /\ UNCHANGED <<files, spoiled, picture>>

(* Stat, MkdirAll, the opening of a file, or the UPDATE fails.             *)
Fail(r) ==
  /\ req[r].at \in {"lock", "look", "original", "create", "decode", "update"}
  /\ Answer(r)
  /\ UNCHANGED <<files, spoiled, picture>>

(* The process dies and starts again: files and rows stay as they are.     *)
Crash ==
  /\ spoiled' = spoiled \cup {Name(r) : r \in {q \in Request : req[q].at = "write"}}
  /\ req' = [r \in Request |-> Idle]
  /\ UNCHANGED <<files, picture>>

Step(r) ==
  \/ Create(r) \/ Write(r) \/ UpdatePicture(r)
  \/ Look(r) \/ LookForOriginal(r) \/ Decode(r) \/ Serve(r)

Next ==
  \/ \E r \in Request :
       \/ \E a \in Avatar :
            \/ \E u \in User : SaveAvatar(r, u, a)
            \/ \E s \in Slot : ServeAvatars(r, a, s)
       \/ Step(r) \/ Lock(r) \/ WriteFails(r) \/ Fail(r)
  \/ Crash

Spec == Init /\ [][Next]_vars

(* A goroutine runs on, and a sync.Mutex starves nobody.  A write ends, one*)
(* way or the other.                                                       *)
Fairness ==
  \A r \in Request : WF_vars(Step(r) \/ WriteFails(r)) /\ SF_vars(Lock(r))

FairSpec == Spec /\ Fairness

(***************************************************************************)
(* Properties                                                              *)
(***************************************************************************)
TypeOK ==
  /\ files \in [Avatar -> [Slot -> {"none", "part", "whole"}]]
  /\ spoiled \subseteq Avatar \X Slot
  /\ picture \in [User -> Avatar \cup {NoAvatar}]
  /\ req \in [Request ->
       [at : {"idle", "lock", "create", "write", "update", "look", "original", "decode",
              "serve"},
        user : User \cup {NoUser}, avatar : Avatar \cup {NoAvatar}, slot : Slot,
        found : BOOLEAN]]
  /\ \A r \in Request : req[r].at = "decode" => req[r].slot # Original
  /\ \A q, r \in Request :
       q # r /\ req[q].at = "write" /\ req[r].at = "write" => Name(q) # Name(r)

(* A row never names an avatar that is not there as a whole, unless its    *)
(* writing failed or was cut off at some time: whoever found the file      *)
(* rather than writing it found it under the mutex, not half written.      *)
PictureWhole ==
  \A u \in User : picture[u] # NoAvatar =>
    \/ files[picture[u]][Original] = "whole"
    \/ <<picture[u], Original>> \in spoiled

(* A picture that serveAvatars had to wait for, or to make, is whole when  *)
(* it is served, with the same exception; what it found without the mutex  *)
(* may be half written.                                                    *)
GeneratedWhole ==
  \A r \in Request : req[r].at = "serve" /\ ~req[r].found =>
    File(r) = "whole" \/ Name(r) \in spoiled

(* Every picture is whole that a row names or that is served, with those   *)
(* exceptions, and no two requests write the same file.                    *)
AvatarsWhole == TypeOK /\ PictureWhole /\ GeneratedWhole

(* The store decides each name once, and resizes whole originals only.     *)
Store == INSTANCE ContentStore WITH
  stored <- {n \in Avatar \X Slot : files[n[1]][n[2]] = "whole"}
ImplementsContentStore == Store!Spec

(* Every upload and every request for an avatar is answered, or the process*)
(* dies: nobody keeps a mutex.                                             *)
RequestsFinish == \A r \in Request : req[r].at # "idle" ~> req[r] = Idle
=============================================================================
