-------------------------- MODULE AvatarStoreProofs --------------------------
(***************************************************************************)
(* Proofs about AvatarStore, for any users, avatars, sizes and requests.   *)
(*                                                                         *)
(* A name is decided once, although whether its file is there is told by   *)
(* os.Stat alone.  Uploads write originals only and resizing writes the    *)
(* other sizes only, each under its mutex, so a file has one writer at a   *)
(* time (Exclusive).  Who finds no file under the mutex finds none until it*)
(* writes one (RequestOK); who finds a part of one there knows that its    *)
(* writer has failed, for it holds the mutex no more (PartsExplained); and *)
(* no one writes it again (SpoiledForGood).  And requests end: each step   *)
(* leaves fewer to be taken (StepsLeft), and some request can take one.    *)
(***************************************************************************)
EXTENDS AvatarStore, TLAPS

(***************************************************************************)
(* The inductive invariant                                                 *)
(***************************************************************************)
ReqType ==
  [at : {"idle", "lock", "create", "write", "update", "look", "original", "decode", "serve"},
   user : User \cup {NoUser}, avatar : Avatar \cup {NoAvatar}, slot : Slot, found : BOOLEAN]

FilesOK ==
  /\ files \in [Avatar -> [Slot -> {"none", "part", "whole"}]]
  /\ spoiled \subseteq Avatar \X Slot
  /\ picture \in [User -> Avatar \cup {NoAvatar}]
  /\ req \in [Request -> ReqType]

(* Uploads are about originals, resizing about the other sizes.            *)
ShapeOK(x) ==
  /\ x.at # "idle" => x.avatar \in Avatar
  /\ IF x.user # NoUser
     THEN x.slot = Original /\ x.at \in {"lock", "create", "write", "update"}
     ELSE /\ x.at # "update"
          /\ x.at \notin {"idle", "serve"} => x.slot # Original

(* What request x has seen of its file is so still, in files f of which    *)
(* those in b are spoiled.                                                 *)
Holds(x, f, b) ==
  /\ x.at \in {"create", "decode"} => f[x.avatar][x.slot] = "none"
  /\ x.at = "write" => f[x.avatar][x.slot] = "part" /\ <<x.avatar, x.slot>> \notin b
  /\ x.at \in {"create", "write"} /\ x.user = NoUser => f[x.avatar][Original] = "whole"
  /\ x.at = "update" \/ (x.at = "serve" /\ ~x.found) =>
       f[x.avatar][x.slot] = "whole" \/ <<x.avatar, x.slot>> \in b

RequestOK(x) == Holds(x, files, spoiled)

Exclusive ==
  \A q, r \in Request :
    q # r /\ req[q].at \in Locked /\ req[r].at \in Locked => Uploads(q) # Uploads(r)

PartsExplained ==
  \A a \in Avatar, s \in Slot : files[a][s] = "part" =>
    \/ <<a, s>> \in spoiled
    \/ \E r \in Request : req[r].at = "write" /\ req[r].avatar = a /\ req[r].slot = s

SpoiledForGood == \A a \in Avatar, s \in Slot : <<a, s>> \in spoiled => files[a][s] = "part"

AvatarInv ==
  /\ FilesOK
  /\ \A r \in Request : ShapeOK(req[r]) /\ RequestOK(req[r])
  /\ Exclusive /\ PartsExplained /\ SpoiledForGood /\ PictureWhole

(***************************************************************************)
(* The steps                                                               *)
(***************************************************************************)
LEMMA IdleOK ==
  /\ Idle \in ReqType /\ ShapeOK(Idle) /\ \A f, b : Holds(Idle, f, b)
  /\ Idle.at = "idle" /\ Idle.user = NoUser
BY DEF Idle, ReqType, ShapeOK, RequestOK, Holds, Slot

(* A request moves on, and changes no file; it takes a mutex that is free, *)
(* and gives up no file that it is writing.                                *)
LEMMA RequestMoves ==
  ASSUME AvatarInv, NEW r \in Request, NEW y \in ReqType, ShapeOK(y), RequestOK(y),
         req' = [req EXCEPT ![r] = y], UNCHANGED <<files, spoiled, picture>>,
         req[r].at # "write",
         y.at \in Locked =>
           \/ req[r].at \in Locked /\ y.user = req[r].user
           \/ MutexFree(r) /\ y.user = req[r].user
  PROVE  AvatarInv'
<1>1. req' \in [Request -> ReqType] /\ req'[r] = y /\ \A q \in Request \ {r} : req'[q] = req[q]
  BY DEF AvatarInv, FilesOK
<1>2. FilesOK'
  BY <1>1 DEF AvatarInv, FilesOK
<1>3. \A q \in Request : ShapeOK(req[q])' /\ RequestOK(req[q])'
  BY <1>1 DEF AvatarInv, RequestOK
<1>4. Exclusive'
  BY <1>1 DEF AvatarInv, Exclusive, MutexFree, Uploads
<1>5. PartsExplained'
  BY <1>1 DEF AvatarInv, PartsExplained
<1>6. SpoiledForGood' /\ PictureWhole'
  BY DEF AvatarInv, SpoiledForGood, PictureWhole
<1> QED
  BY <1>2, <1>3, <1>4, <1>5, <1>6 DEF AvatarInv

LEMMA BeginKeeps ==
  ASSUME AvatarInv, NEW r \in Request, NEW a \in Avatar,
         \/ \E u \in User : SaveAvatar(r, u, a)
         \/ \E s \in Slot : ServeAvatars(r, a, s)
  PROVE  AvatarInv'
<1>1. req[r].at # "write"
  BY IdleOK DEF SaveAvatar, ServeAvatars
<1>2. ASSUME NEW u \in User, SaveAvatar(r, u, a) PROVE AvatarInv'
  <2> DEFINE y == [Idle EXCEPT !.at = "lock", !.user = u, !.avatar = a]
  <2>1. y \in ReqType /\ ShapeOK(y) /\ RequestOK(y) /\ y.at = "lock"
    BY ZeroAssumption DEF Idle, ReqType, ShapeOK, RequestOK, Holds, Slot
  <2>2. req' = [req EXCEPT ![r] = y] /\ UNCHANGED <<files, spoiled, picture>>
    BY <1>2 DEF SaveAvatar
  <2> HIDE DEF y
  <2> QED
    BY <1>1, <2>1, <2>2, RequestMoves DEF Locked
<1>3. ASSUME NEW s \in Slot, ServeAvatars(r, a, s) PROVE AvatarInv'
  <2> DEFINE y == [Idle EXCEPT !.at = IF s = Original THEN "serve" ELSE "look",
                               !.avatar = a, !.slot = s, !.found = s = Original]
  <2>1. y \in ReqType /\ ShapeOK(y) /\ RequestOK(y) /\ y.at \in {"serve", "look"}
    BY ZeroAssumption DEF Idle, ReqType, ShapeOK, RequestOK, Holds, Slot
  <2>2. req' = [req EXCEPT ![r] = y] /\ UNCHANGED <<files, spoiled, picture>>
    BY <1>3 DEF ServeAvatars
  <2> HIDE DEF y
  <2> QED
    BY <1>1, <2>1, <2>2, RequestMoves DEF Locked
<1> QED
  BY <1>2, <1>3

(* Under the mutex, a part of a file that is there is a spoiled file.      *)
LEMMA PartIsSpoiled ==
  ASSUME AvatarInv, NEW r \in Request, req[r].at = "lock", MutexFree(r), File(r) = "part"
  PROVE  Name(r) \in spoiled
<1>1. req[r].avatar \in Avatar /\ req[r].slot \in Slot
  BY DEF AvatarInv, FilesOK, ReqType, ShapeOK
<1>2. ASSUME NEW q \in Request, req[q].at = "write",
             req[q].avatar = req[r].avatar, req[q].slot = req[r].slot
      PROVE  FALSE
  <2>1. Uploads(q) = Uploads(r)
    BY <1>2 DEF AvatarInv, ShapeOK, Uploads
  <2> QED
    BY <1>2, <2>1 DEF MutexFree, Locked
<1> QED
  BY <1>1, <1>2 DEF AvatarInv, PartsExplained, File, Name

LEMMA LockKeeps ==
  ASSUME AvatarInv, NEW r \in Request, Lock(r)
  PROVE  AvatarInv'
<1> DEFINE x == req[r]
           at == IF File(r) = "none" THEN (IF Uploads(r) THEN "create" ELSE "decode")
                 ELSE (IF Uploads(r) THEN "update" ELSE "serve")
           y == [x EXCEPT !.at = at]
<1>1. x.at = "lock" /\ MutexFree(r) /\ req' = [req EXCEPT ![r] = y]
      /\ UNCHANGED <<files, spoiled, picture>>
  BY DEF Lock, Goto
<1>2. x \in ReqType /\ ShapeOK(x) /\ x.avatar \in Avatar /\ x.slot \in Slot
  BY <1>1 DEF AvatarInv, FilesOK, ReqType, ShapeOK
<1>3. File(r) \in {"none", "part", "whole"}
  BY <1>2 DEF AvatarInv, FilesOK, File
<1>4. y \in ReqType /\ y.at = at /\ y.user = x.user /\ y.avatar = x.avatar /\ y.slot = x.slot
  BY <1>2 DEF ReqType
<1>5. ShapeOK(y)
  BY <1>1, <1>2, <1>4 DEF ShapeOK, Uploads
<1>6. File(r) = "part" => Name(r) \in spoiled
  BY <1>1, PartIsSpoiled
<1>7. RequestOK(y)
  <2> HIDE DEF y, x
  <2>1. /\ at \in {"create", "decode"} => files[x.avatar][x.slot] = "none"
        /\ at \in {"update", "serve"} => files[x.avatar][x.slot] = "whole" \/ <<x.avatar, x.slot>> \in spoiled
        /\ at \in {"create", "decode", "update", "serve"} /\ (at = "create" => x.user # NoUser)
    BY <1>3, <1>6 DEF Uploads, File, Name, x
  <2> HIDE DEF at
  <2> QED
    BY <1>4, <2>1 DEF RequestOK, Holds, File, Name
<1> HIDE DEF y
<1> QED
  BY <1>1, <1>4, <1>5, <1>7, RequestMoves

LEMMA LooksKeep ==
  ASSUME AvatarInv, NEW r \in Request, Look(r) \/ LookForOriginal(r) \/ Decode(r)
  PROVE  AvatarInv'
<1> DEFINE x == req[r]
<1>1. x \in ReqType /\ ShapeOK(x) /\ RequestOK(x) /\ x.avatar \in Avatar /\ x.slot \in Slot
  BY DEF AvatarInv, FilesOK, ReqType, ShapeOK, Look, LookForOriginal, Decode
<1>2. CASE Look(r)
  <2> DEFINE y == [x EXCEPT !.at = IF File(r) = "none" THEN "original" ELSE "serve",
                            !.found = File(r) # "none"]
  <2>1. y \in ReqType /\ ShapeOK(y) /\ RequestOK(y) /\ y.at \in {"original", "serve"}
    BY <1>1, <1>2 DEF ReqType, ShapeOK, RequestOK, Holds, Look
  <2>2. req' = [req EXCEPT ![r] = y] /\ UNCHANGED <<files, spoiled, picture>> /\ x.at = "look"
    BY <1>2 DEF Look
  <2> HIDE DEF y
  <2> QED
    BY <2>1, <2>2, RequestMoves DEF Locked
<1>3. CASE req' = [req EXCEPT ![r] = Idle] /\ (LookForOriginal(r) \/ Decode(r))
  <2>1. x.at # "write" /\ UNCHANGED <<files, spoiled, picture>>
    BY <1>3 DEF LookForOriginal, Decode
  <2> QED
    BY <1>3, <2>1, IdleOK, RequestMoves DEF Locked, RequestOK
<1>4. CASE LookForOriginal(r) /\ Goto(r, "lock")
  <2> DEFINE y == [x EXCEPT !.at = "lock"]
  <2>1. y \in ReqType /\ ShapeOK(y) /\ RequestOK(y) /\ y.at = "lock"
    BY <1>1, <1>4 DEF ReqType, ShapeOK, RequestOK, Holds, LookForOriginal
  <2>2. req' = [req EXCEPT ![r] = y] /\ UNCHANGED <<files, spoiled, picture>> /\ x.at = "original"
    BY <1>4 DEF LookForOriginal, Goto
  <2> HIDE DEF y
  <2> QED
    BY <2>1, <2>2, RequestMoves DEF Locked
<1>5. CASE Decode(r) /\ files[x.avatar][Original] = "whole" /\ Goto(r, "create")
  <2> DEFINE y == [x EXCEPT !.at = "create"]
  <2>1. y \in ReqType /\ ShapeOK(y) /\ RequestOK(y) /\ y.at = "create" /\ y.user = x.user
    BY <1>1, <1>5 DEF ReqType, ShapeOK, RequestOK, Holds, Decode
  <2>2. req' = [req EXCEPT ![r] = y] /\ UNCHANGED <<files, spoiled, picture>> /\ x.at = "decode"
    BY <1>5 DEF Decode, Goto
  <2> HIDE DEF y
  <2> QED
    BY <2>1, <2>2, RequestMoves DEF Locked
<1> QED
  BY <1>2, <1>3, <1>4, <1>5 DEF LookForOriginal, Decode, Answer

LEMMA AnswersKeep ==
  ASSUME AvatarInv, NEW r \in Request, Serve(r) \/ Fail(r)
  PROVE  AvatarInv'
<1>1. req' = [req EXCEPT ![r] = Idle] /\ UNCHANGED <<files, spoiled, picture>> /\ req[r].at # "write"
  BY DEF Serve, Fail, Answer
<1> QED
  BY <1>1, IdleOK, RequestMoves DEF Locked, RequestOK

(* One file changes.                                                       *)
LEMMA FileWritten ==
  ASSUME FilesOK, NEW a \in Avatar, NEW s \in Slot, NEW v \in {"none", "part", "whole"},
         files' = [files EXCEPT ![a][s] = v]
  PROVE  /\ files' \in [Avatar -> [Slot -> {"none", "part", "whole"}]]
         /\ files'[a][s] = v
         /\ \A b \in Avatar, t \in Slot : b # a \/ t # s => files'[b][t] = files[b][t]
BY DEF FilesOK

(* The writer of a file is the only one that is about to write it.         *)
LEMMA SingleWriter ==
  ASSUME AvatarInv, NEW r \in Request, req[r].at \in {"create", "write"},
         NEW q \in Request \ {r}, req[q].at \in Locked
  PROVE  ~(req[q].avatar = req[r].avatar /\ req[q].slot = req[r].slot)
BY DEF AvatarInv, Exclusive, ShapeOK, Uploads, Locked

LEMMA CreateKeeps ==
  ASSUME AvatarInv, NEW r \in Request, Create(r)
  PROVE  AvatarInv'
<1> DEFINE x == req[r]
           y == [x EXCEPT !.at = "write"]
<1>1. x \in ReqType /\ ShapeOK(x) /\ RequestOK(x) /\ x.avatar \in Avatar /\ x.slot \in Slot
      /\ x.at = "create"
  BY DEF AvatarInv, FilesOK, ReqType, ShapeOK, Create
<1>2. /\ y \in ReqType /\ ShapeOK(y) /\ y.at = "write" /\ y.user = x.user
      /\ y.avatar = x.avatar /\ y.slot = x.slot
  BY <1>1 DEF ReqType, ShapeOK
<1>3. /\ files' = [files EXCEPT ![x.avatar][x.slot] = "part"]
      /\ req' = [req EXCEPT ![r] = y] /\ UNCHANGED <<spoiled, picture>>
  BY DEF Create, Goto
<1> HIDE DEF y
<1>4. req' \in [Request -> ReqType] /\ req'[r] = y /\ \A q \in Request \ {r} : req'[q] = req[q]
  BY <1>2, <1>3 DEF AvatarInv, FilesOK
<1>5. /\ files' \in [Avatar -> [Slot -> {"none", "part", "whole"}]]
      /\ files'[x.avatar][x.slot] = "part"
      /\ \A b \in Avatar, t \in Slot : b # x.avatar \/ t # x.slot => files'[b][t] = files[b][t]
  BY <1>1, <1>3, FileWritten DEF AvatarInv
<1>6. FilesOK'
  BY <1>3, <1>4, <1>5 DEF AvatarInv, FilesOK
<1>7. files[x.avatar][x.slot] = "none" /\ <<x.avatar, x.slot>> \notin spoiled
  BY <1>1 DEF RequestOK, Holds, AvatarInv, SpoiledForGood
<1>8. Holds(y, files', spoiled')
  <2>1. x.user = NoUser => x.slot # Original /\ files[x.avatar][Original] = "whole"
    BY <1>1 DEF ShapeOK, RequestOK, Holds
  <2> QED
    BY <1>1, <1>2, <1>3, <1>5, <1>7, <2>1 DEF Holds, Slot
<1>9. ASSUME NEW q \in Request \ {r} PROVE Holds(req[q], files', spoiled')
  <2> DEFINE z == req[q]
  <2>1. RequestOK(z) /\ ShapeOK(z) /\ z \in ReqType /\ (z.at # "idle" => z.avatar \in Avatar) /\ z.slot \in Slot
    BY DEF AvatarInv, FilesOK, ReqType, ShapeOK
  <2>2. z.at \in Locked => ~(z.avatar = x.avatar /\ z.slot = x.slot)
    BY <1>1, SingleWriter
  <2>3. z.avatar = x.avatar => (files[z.avatar][Original] = "whole" => files'[z.avatar][Original] = "whole")
    BY <1>1, <1>5, <1>7 DEF Slot
  <2>4. z.avatar = x.avatar /\ z.slot = x.slot =>
          files[z.avatar][z.slot] # "whole" /\ <<z.avatar, z.slot>> \notin spoiled
    BY <1>7
  <2>5. z.avatar \in Avatar /\ z.avatar # x.avatar => \A t \in Slot : files'[z.avatar][t] = files[z.avatar][t]
    BY <1>5
  <2>6. z.avatar \in Avatar /\ z.slot # x.slot => files'[z.avatar][z.slot] = files[z.avatar][z.slot]
    BY <1>5, <2>1
  <2>7. Original \in Slot
    BY DEF Slot
  <2>8. CASE z.at = "idle"
    BY <2>8 DEF Holds
  <2>9. CASE z.at # "idle" /\ z.avatar = x.avatar /\ z.slot = x.slot
    BY <2>1, <2>2, <2>4, <2>9 DEF RequestOK, Holds, Locked
  <2>10. CASE z.at # "idle" /\ ~(z.avatar = x.avatar /\ z.slot = x.slot)
    <3>1. files'[z.avatar][z.slot] = files[z.avatar][z.slot]
      BY <2>1, <2>5, <2>6, <2>10
    <3>2. files[z.avatar][Original] = "whole" => files'[z.avatar][Original] = "whole"
      BY <2>1, <2>3, <2>5, <2>7, <2>10
    <3> QED
      BY <1>3, <2>1, <3>1, <3>2 DEF RequestOK, Holds
  <2> QED
    BY <2>8, <2>9, <2>10
<1>10. \A q \in Request : ShapeOK(req[q])' /\ RequestOK(req[q])'
  BY <1>2, <1>4, <1>8, <1>9 DEF AvatarInv, ShapeOK, RequestOK
<1>11. Exclusive'
  BY <1>1, <1>2, <1>4 DEF AvatarInv, Exclusive, Uploads, Locked
<1>12. PartsExplained'
  BY <1>1, <1>2, <1>3, <1>4, <1>5 DEF AvatarInv, PartsExplained
<1>13. SpoiledForGood'
  BY <1>3, <1>5, <1>7 DEF AvatarInv, SpoiledForGood
<1>14. PictureWhole'
  <2>1. ASSUME NEW u \in User, picture[u] # NoAvatar
        PROVE  files'[picture[u]][Original] = "whole" \/ <<picture[u], Original>> \in spoiled
    <3>1. picture[u] \in Avatar /\ Original \in Slot
      BY <2>1 DEF AvatarInv, FilesOK, Slot
    <3> QED
      BY <1>5, <1>7, <2>1, <3>1 DEF AvatarInv, PictureWhole
  <2> QED
    BY <1>3, <2>1 DEF PictureWhole
<1> QED
  BY <1>6, <1>10, <1>11, <1>12, <1>13, <1>14 DEF AvatarInv

(* A request leaves off writing: the file is whole, or spoiled for good.   *)
LEMMA WritingEnds ==
  ASSUME AvatarInv, NEW r \in Request, req[r].at = "write", NEW y \in ReqType,
         ShapeOK(y), Holds(y, files', spoiled'), y.at \notin Locked,
         req' = [req EXCEPT ![r] = y], picture' = picture,
         \/ /\ files' = [files EXCEPT ![req[r].avatar][req[r].slot] = "whole"]
            /\ spoiled' = spoiled
         \/ files' = files /\ spoiled' = spoiled \cup {Name(r)}
  PROVE  AvatarInv'
<1> DEFINE x == req[r]
<1>1. /\ x \in ReqType /\ ShapeOK(x) /\ x.avatar \in Avatar /\ x.slot \in Slot
      /\ files[x.avatar][x.slot] = "part" /\ <<x.avatar, x.slot>> \notin spoiled
  BY DEF AvatarInv, FilesOK, ReqType, ShapeOK, RequestOK, Holds
<1>2. req' \in [Request -> ReqType] /\ req'[r] = y /\ \A q \in Request \ {r} : req'[q] = req[q]
  BY DEF AvatarInv, FilesOK
<1>3. \A q \in Request \ {r} : req[q].at \in Locked =>
        ~(req[q].avatar = x.avatar /\ req[q].slot = x.slot)
  BY SingleWriter
<1>4. /\ files' \in [Avatar -> [Slot -> {"none", "part", "whole"}]] /\ spoiled' \subseteq Avatar \X Slot
      /\ \A a \in Avatar, s \in Slot :
           IF a = x.avatar /\ s = x.slot
           THEN \/ files'[a][s] = "whole" /\ <<a, s>> \notin spoiled'
                \/ files'[a][s] = "part" /\ <<a, s>> \in spoiled'
           ELSE files'[a][s] = files[a][s] /\ (<<a, s>> \in spoiled' <=> <<a, s>> \in spoiled)
  <2>1. CASE files' = [files EXCEPT ![x.avatar][x.slot] = "whole"] /\ spoiled' = spoiled
    <3>1. /\ files' \in [Avatar -> [Slot -> {"none", "part", "whole"}]]
          /\ files'[x.avatar][x.slot] = "whole"
          /\ \A b \in Avatar, t \in Slot : b # x.avatar \/ t # x.slot => files'[b][t] = files[b][t]
      BY <1>1, <2>1, FileWritten DEF AvatarInv
    <3> QED
      BY <1>1, <2>1, <3>1 DEF AvatarInv, FilesOK
  <2>2. CASE files' = files /\ spoiled' = spoiled \cup {<<x.avatar, x.slot>>}
    BY <1>1, <2>2 DEF AvatarInv, FilesOK
  <2> QED
    BY <2>1, <2>2 DEF Name
<1>5. FilesOK'
  BY <1>2, <1>4 DEF AvatarInv, FilesOK
<1>6. ASSUME NEW q \in Request \ {r} PROVE Holds(req[q], files', spoiled')
  <2> DEFINE z == req[q]
  <2>1. RequestOK(z) /\ (z.at # "idle" => z.avatar \in Avatar) /\ z.slot \in Slot /\ Original \in Slot
    BY DEF AvatarInv, FilesOK, ReqType, ShapeOK, Slot
  <2>2. z.at \in Locked => ~(z.avatar = x.avatar /\ z.slot = x.slot)
    BY <1>3
  <2>3. CASE z.at = "idle"
    BY <2>3 DEF Holds
  <2>4. CASE z.at # "idle" /\ z.avatar = x.avatar /\ z.slot = x.slot
    BY <1>1, <1>4, <2>1, <2>2, <2>4 DEF Holds, Locked
  <2>5. CASE z.at # "idle" /\ ~(z.avatar = x.avatar /\ z.slot = x.slot)
    <3>1. /\ files'[z.avatar][z.slot] = files[z.avatar][z.slot]
          /\ <<z.avatar, z.slot>> \in spoiled' <=> <<z.avatar, z.slot>> \in spoiled
      BY <1>4, <2>1, <2>5
    <3>2. files[z.avatar][Original] = "whole" => files'[z.avatar][Original] = "whole"
      BY <1>1, <1>4, <2>1, <2>5
    <3> QED
      BY <2>1, <3>1, <3>2 DEF RequestOK, Holds
  <2> QED
    BY <2>3, <2>4, <2>5
<1>7. \A q \in Request : ShapeOK(req[q])' /\ RequestOK(req[q])'
  BY <1>2, <1>6 DEF AvatarInv, ShapeOK, RequestOK
<1>8. Exclusive'
  BY <1>2 DEF AvatarInv, Exclusive, Uploads
<1>9. PartsExplained'
  BY <1>2, <1>4 DEF AvatarInv, PartsExplained
<1>10. SpoiledForGood'
  BY <1>4 DEF AvatarInv, SpoiledForGood
<1>11. PictureWhole'
  <2>1. \A u \in User : picture[u] # NoAvatar => picture[u] \in Avatar /\ Original \in Slot
    BY DEF AvatarInv, FilesOK, Slot
  <2> QED
    BY <1>1, <1>4, <2>1 DEF AvatarInv, PictureWhole
<1> QED
  BY <1>5, <1>7, <1>8, <1>9, <1>10, <1>11 DEF AvatarInv

LEMMA WritesKeep ==
  ASSUME AvatarInv, NEW r \in Request, Write(r) \/ WriteFails(r)
  PROVE  AvatarInv'
<1> DEFINE x == req[r]
<1>1. x \in ReqType /\ ShapeOK(x) /\ x.avatar \in Avatar /\ x.slot \in Slot /\ x.at = "write"
  BY DEF AvatarInv, FilesOK, ReqType, ShapeOK, Write, WriteFails
<1>2. CASE Write(r)
  <2> DEFINE y == [x EXCEPT !.at = IF Uploads(r) THEN "update" ELSE "serve"]
  <2>1. /\ y \in ReqType /\ ShapeOK(y) /\ y.at \in {"update", "serve"}
        /\ y.avatar = x.avatar /\ y.slot = x.slot
    BY <1>1 DEF ReqType, ShapeOK, Uploads
  <2>2. /\ files' = [files EXCEPT ![x.avatar][x.slot] = "whole"]
        /\ req' = [req EXCEPT ![r] = y] /\ UNCHANGED <<spoiled, picture>>
    BY <1>2 DEF Write, Goto
  <2> HIDE DEF y
  <2>3. files'[x.avatar][x.slot] = "whole"
    BY <1>1, <2>2, FileWritten DEF AvatarInv
  <2>4. Holds(y, files', spoiled')
    BY <2>1, <2>3 DEF Holds
  <2> QED
    BY <1>1, <2>1, <2>2, <2>4, WritingEnds DEF Locked
<1>3. CASE WriteFails(r)
  BY <1>1, <1>3, IdleOK, WritingEnds DEF WriteFails, Answer, Locked
<1> QED
  BY <1>2, <1>3

LEMMA UpdateKeeps ==
  ASSUME AvatarInv, NEW r \in Request, UpdatePicture(r)
  PROVE  AvatarInv'
<1> DEFINE x == req[r]
<1>1. /\ x \in ReqType /\ x.avatar \in Avatar /\ x.slot = Original /\ x.user \in User /\ x.at = "update"
      /\ files[x.avatar][Original] = "whole" \/ <<x.avatar, Original>> \in spoiled
  <2>1. x \in ReqType /\ x.at = "update" /\ ShapeOK(x) /\ RequestOK(x)
    BY DEF AvatarInv, FilesOK, UpdatePicture
  <2> HIDE DEF x
  <2>2. x.avatar \in Avatar /\ x.slot = Original /\ x.user # NoUser
    BY <2>1 DEF ShapeOK
  <2>3. x.user \in User
    BY <2>1, <2>2 DEF ReqType
  <2>4. files[x.avatar][x.slot] = "whole" \/ <<x.avatar, x.slot>> \in spoiled
    BY <2>1 DEF RequestOK, Holds
  <2> QED
    BY <2>1, <2>2, <2>3, <2>4
<1>2. /\ picture' = [picture EXCEPT ![x.user] = x.avatar]
      /\ req' = [req EXCEPT ![r] = Idle] /\ UNCHANGED <<files, spoiled>>
  BY DEF UpdatePicture, Answer
<1>3. req' \in [Request -> ReqType] /\ req'[r] = Idle /\ \A q \in Request \ {r} : req'[q] = req[q]
  BY <1>2, IdleOK DEF AvatarInv, FilesOK
<1>4. /\ picture' \in [User -> Avatar \cup {NoAvatar}] /\ picture'[x.user] = x.avatar
      /\ \A u \in User \ {x.user} : picture'[u] = picture[u]
  BY <1>1, <1>2 DEF AvatarInv, FilesOK
<1>5. FilesOK' /\ SpoiledForGood'
  BY <1>2, <1>3, <1>4 DEF AvatarInv, FilesOK, SpoiledForGood
<1>6. \A q \in Request : ShapeOK(req[q])' /\ RequestOK(req[q])'
  BY <1>2, <1>3, IdleOK DEF AvatarInv, ShapeOK, RequestOK
<1>7. Exclusive' /\ PartsExplained'
  BY <1>1, <1>2, <1>3, IdleOK DEF AvatarInv, Exclusive, PartsExplained, Uploads, Locked
<1>8. PictureWhole'
  BY <1>1, <1>2, <1>4 DEF AvatarInv, PictureWhole
<1> QED
  BY <1>5, <1>6, <1>7, <1>8 DEF AvatarInv

LEMMA CrashKeeps ==
  ASSUME AvatarInv, Crash
  PROVE  AvatarInv'
<1>1. /\ spoiled' = spoiled \cup {Name(r) : r \in {q \in Request : req[q].at = "write"}}
      /\ req' = [r \in Request |-> Idle] /\ UNCHANGED <<files, picture>>
  BY DEF Crash
<1>2. \A r \in Request : req[r].at = "write" =>
        /\ req[r].avatar \in Avatar /\ req[r].slot \in Slot
        /\ files[req[r].avatar][req[r].slot] = "part"
  BY DEF AvatarInv, FilesOK, ReqType, ShapeOK, RequestOK, Holds
<1>3. /\ spoiled' \subseteq Avatar \X Slot /\ spoiled \subseteq spoiled'
      /\ \A a \in Avatar, s \in Slot : <<a, s>> \in spoiled' \ spoiled => files[a][s] = "part"
  BY <1>1, <1>2 DEF AvatarInv, FilesOK, Name
<1>4. \A r \in Request : req'[r] = Idle
  BY <1>1
<1>5. FilesOK'
  BY <1>1, <1>3, IdleOK DEF AvatarInv, FilesOK
<1>6. (\A r \in Request : ShapeOK(req[r])' /\ RequestOK(req[r])') /\ Exclusive'
  BY <1>4, IdleOK DEF ShapeOK, RequestOK, Exclusive, Locked
<1>7. PartsExplained'
  <2>1. \A r \in Request : req[r].at = "write" => <<req[r].avatar, req[r].slot>> \in spoiled'
    BY <1>1 DEF Name
  <2>2. ASSUME NEW a \in Avatar, NEW s \in Slot, files[a][s] = "part" PROVE <<a, s>> \in spoiled'
    BY <1>3, <2>1, <2>2 DEF AvatarInv, PartsExplained
  <2> QED
    BY <1>1, <2>2 DEF PartsExplained
<1>8. SpoiledForGood' /\ PictureWhole'
  BY <1>1, <1>3 DEF AvatarInv, SpoiledForGood, PictureWhole
<1> QED
  BY <1>5, <1>6, <1>7, <1>8 DEF AvatarInv

LEMMA AvatarInit == ASSUME Init PROVE AvatarInv
<1>1. FilesOK
  BY IdleOK DEF Init, FilesOK
<1>2. \A r \in Request : ShapeOK(req[r]) /\ RequestOK(req[r]) /\ req[r].at = "idle"
  BY IdleOK DEF Init, RequestOK
<1> QED
  BY <1>1, <1>2 DEF Init, AvatarInv, Exclusive, PartsExplained, SpoiledForGood, PictureWhole, Locked

LEMMA AvatarNext == ASSUME AvatarInv, [Next]_vars PROVE AvatarInv'
<1>1. CASE UNCHANGED vars
  BY <1>1 DEF vars, AvatarInv, FilesOK, ShapeOK, RequestOK, Exclusive, PartsExplained, SpoiledForGood,
              PictureWhole, Uploads
<1>2. CASE Next
  BY <1>2, BeginKeeps, LockKeeps, LooksKeep, AnswersKeep, CreateKeeps, WritesKeep, UpdateKeeps, CrashKeeps
  DEF Next, Step
<1> QED
  BY <1>1, <1>2

(***************************************************************************)
(* The refinement                                                          *)
(***************************************************************************)
Stored == {n \in Avatar \X Slot : files[n[1]][n[2]] = "whole"}

(* Who writes a file decides a name that has not been decided, and resizes *)
(* a whole original.                                                       *)
LEMMA WriterDecides ==
  ASSUME AvatarInv, NEW r \in Request, req[r].at = "write"
  PROVE  Name(r) \in Store!Name /\ Store!Decide(Name(r))
<1>1. /\ req[r].avatar \in Avatar /\ req[r].slot \in Slot /\ Original \in Slot
      /\ files[req[r].avatar][req[r].slot] = "part" /\ Name(r) \notin spoiled
      /\ req[r].slot = Original \/ files[req[r].avatar][Original] = "whole"
  BY DEF AvatarInv, FilesOK, ReqType, ShapeOK, RequestOK, Holds, Name, Slot
<1> QED
  BY <1>1 DEF Name, Store!Name, Store!Decide

LEMMA StoreStep == ASSUME AvatarInv, [Next]_vars PROVE [Store!Next]_(Store!vars)
<1>1. ASSUME NEW r \in Request, Write(r) PROVE Store!Next
  <2>1. /\ req[r].avatar \in Avatar /\ req[r].slot \in Slot /\ req[r].at = "write"
        /\ files' = [files EXCEPT ![req[r].avatar][req[r].slot] = "whole"] /\ spoiled' = spoiled
    BY <1>1 DEF AvatarInv, FilesOK, ReqType, ShapeOK, Write
  <2>2. Stored' = Stored \cup {Name(r)}
    <3>1. \A a \in Avatar, s \in Slot : files'[a][s] = "whole" <=>
            files[a][s] = "whole" \/ (a = req[r].avatar /\ s = req[r].slot)
      <4> DEFINE a0 == req[r].avatar
                 s0 == req[r].slot
      <4>1. /\ files'[a0][s0] = "whole"
            /\ \A b \in Avatar, t \in Slot : b # a0 \/ t # s0 => files'[b][t] = files[b][t]
        <5>1. /\ FilesOK /\ a0 \in Avatar /\ s0 \in Slot
              /\ files' = [files EXCEPT ![a0][s0] = "whole"]
          BY <2>1 DEF AvatarInv
        <5> HIDE DEF a0, s0
        <5> QED
          BY <5>1, FileWritten
      <4> HIDE DEF a0, s0
      <4>2. \A a \in Avatar, s \in Slot : files'[a][s] = "whole" <=>
              files[a][s] = "whole" \/ (a = a0 /\ s = s0)
        BY <4>1
      <4> QED
        BY <4>2 DEF a0, s0
    <3>2. \A n \in Avatar \X Slot : files'[n[1]][n[2]] = "whole" <=>
            files[n[1]][n[2]] = "whole" \/ n = Name(r)
      BY <3>1 DEF Name
    <3>3. Name(r) \in Avatar \X Slot
      BY <2>1 DEF Name
    <3> QED
      BY <3>2, <3>3 DEF Stored
  <2>3. Store!Store(Name(r)) /\ Name(r) \in Store!Name
    BY <2>1, <2>2, WriterDecides DEF Store!Store, Stored
  <2> QED
    BY <2>3 DEF Store!Next, Store!Store
<1>2. ASSUME NEW r \in Request, WriteFails(r) PROVE Store!Next
  <2>1. Store!Spoil(Name(r)) /\ Name(r) \in Store!Name
    BY <1>2, WriterDecides DEF WriteFails, Store!Spoil
  <2> QED
    BY <2>1 DEF Store!Next
<1>3. ASSUME Crash PROVE Store!Next
  <2> DEFINE S == {Name(r) : r \in {q \in Request : req[q].at = "write"}}
  <2>1. \A n \in S : n \in Store!Name /\ Store!Decide(n)
    BY WriterDecides
  <2>2. S \in SUBSET Store!Name /\ Store!SpoilSeveral(S)
    BY <1>3, <2>1 DEF Crash, Store!SpoilSeveral
  <2> QED
    BY <2>2 DEF Store!Next
<1>4. ASSUME NEW r \in Request, Create(r) PROVE UNCHANGED Store!vars
  <2>1. /\ req[r].avatar \in Avatar /\ req[r].slot \in Slot /\ files[req[r].avatar][req[r].slot] = "none"
        /\ files' = [files EXCEPT ![req[r].avatar][req[r].slot] = "part"] /\ spoiled' = spoiled
    BY <1>4 DEF AvatarInv, FilesOK, ReqType, ShapeOK, RequestOK, Holds, Create
  <2>2. Stored' = Stored
    BY <2>1, FileWritten DEF AvatarInv, Stored
  <2> QED
    BY <2>1, <2>2 DEF Store!vars, Stored
<1>5. ASSUME UNCHANGED <<files, spoiled>> PROVE UNCHANGED Store!vars
  BY <1>5 DEF Store!vars
<1>6. ASSUME NEW r \in Request,
             \/ \E a \in Avatar :
                  \/ \E u \in User : SaveAvatar(r, u, a)
                  \/ \E s \in Slot : ServeAvatars(r, a, s)
             \/ UpdatePicture(r) \/ Look(r) \/ LookForOriginal(r) \/ Decode(r) \/ Serve(r)
             \/ Lock(r) \/ Fail(r)
      PROVE  UNCHANGED <<files, spoiled>>
  BY <1>6 DEF SaveAvatar, ServeAvatars, UpdatePicture, Look, LookForOriginal, Decode, Serve, Lock, Fail
<1> QED
  BY <1>1, <1>2, <1>3, <1>4, <1>5, <1>6 DEF Next, Step, vars

(***************************************************************************)
(* The theorems                                                            *)
(***************************************************************************)
LEMMA AvatarInvSuffices == ASSUME AvatarInv PROVE AvatarsWhole
<1>1. TypeOK
  <2>1. \A r \in Request : req[r].at = "decode" => req[r].slot # Original
    BY DEF AvatarInv, ShapeOK
  <2>2. \A q, r \in Request :
          q # r /\ req[q].at = "write" /\ req[r].at = "write" => Name(q) # Name(r)
    BY SingleWriter DEF Name, Locked
  <2> QED
    BY <2>1, <2>2 DEF AvatarInv, FilesOK, TypeOK, ReqType
<1>2. GeneratedWhole
  BY DEF AvatarInv, RequestOK, Holds, GeneratedWhole, File, Name
<1> QED
  BY <1>1, <1>2 DEF AvatarInv, AvatarsWhole

(* The invariant that the following rest on.                               *)
THEOREM AvatarInvariance == Spec => []AvatarInv
BY AvatarInit, AvatarNext, PTL DEF Spec

(* saveAvatar and generateResizedAvatar: what a row names, and what is     *)
(* served after waiting for a mutex, is a whole picture, unless its writing*)
(* failed or was cut off; and no two requests write the same file.         *)
THEOREM AvatarsWholeHolds == Spec => []AvatarsWhole
BY AvatarInvSuffices, AvatarInvariance, PTL

(* Looking with os.Stat and writing under a mutex implements a store that  *)
(* decides every name once, and resizes whole originals only.              *)
THEOREM ContentStoreImplemented == Spec => ImplementsContentStore
<1>1. Init => Store!Init
  BY DEF Init, Store!Init
<1> QED
  BY <1>1, StoreStep, AvatarInvariance, PTL DEF ImplementsContentStore, Store!Spec, Spec

(***************************************************************************)
(* Requests end                                                            *)
(***************************************************************************)
(* How many steps a request has left at most, by where it is.              *)
StepsLeft ==
  [idle |-> 0, serve |-> 1, update |-> 1, write |-> 2, create |-> 3, decode |-> 4, lock |-> 5,
   original |-> 6, look |-> 7]

Begins ==
  \E r \in Request, a \in Avatar :
    \/ \E u \in User : SaveAvatar(r, u, a)
    \/ \E s \in Slot : ServeAvatars(r, a, s)

(* One request comes closer to its answer, and the others stay where they  *)
(* are.                                                                    *)
Shortens ==
  \E r \in Request :
    /\ StepsLeft[req[r].at]' < StepsLeft[req[r].at]
    /\ \A q \in Request \ {r} : req'[q] = req[q]

(* What the table says, entry by entry.                                    *)
LEMMA StepsLeftValues ==
  /\ StepsLeft["idle"] = 0 /\ StepsLeft["serve"] = 1 /\ StepsLeft["update"] = 1
  /\ StepsLeft["write"] = 2 /\ StepsLeft["create"] = 3 /\ StepsLeft["decode"] = 4
  /\ StepsLeft["lock"] = 5 /\ StepsLeft["original"] = 6 /\ StepsLeft["look"] = 7
BY DEF StepsLeft

(* A request moves to where fewer steps are left.                          *)
LEMMA MoveShortens ==
  ASSUME AvatarInv, NEW r \in Request, NEW y, req' = [req EXCEPT ![r] = y],
         StepsLeft[y.at] < StepsLeft[req[r].at]
  PROVE  Shortens
BY DEF AvatarInv, FilesOK, Shortens

(* The same, when nothing but its place changes.                           *)
LEMMA GotoShortens ==
  ASSUME AvatarInv, NEW r \in Request, NEW at, Goto(r, at),
         StepsLeft[at] < StepsLeft[req[r].at]
  PROVE  Shortens
<1> DEFINE y == [req[r] EXCEPT !.at = at]
<1>1. req[r] \in ReqType
  BY DEF AvatarInv, FilesOK
<1>2. y.at = at
  BY <1>1 DEF ReqType
<1>3. req' = [req EXCEPT ![r] = y]
  BY DEF Goto
<1> HIDE DEF y
<1> QED
  BY <1>2, <1>3, MoveShortens

(* An answer leaves no step.                                               *)
LEMMA AnswerShortens ==
  ASSUME AvatarInv, NEW r \in Request, req[r].at # "idle", Answer(r)
  PROVE  Shortens
<1>1. req[r] \in ReqType
  BY DEF AvatarInv, FilesOK
<1>2. StepsLeft[Idle.at] < StepsLeft[req[r].at]
  BY <1>1, IdleOK, StepsLeftValues DEF ReqType
<1> QED
  BY <1>2, MoveShortens DEF Answer

(* A look tells whether the picture has to be made.                        *)
LEMMA LookShortens ==
  ASSUME AvatarInv, NEW r \in Request, Look(r)
  PROVE  Shortens
<1> DEFINE y == [req[r] EXCEPT !.at = IF File(r) = "none" THEN "original" ELSE "serve",
                               !.found = File(r) # "none"]
<1>1. req[r] \in ReqType
  BY DEF AvatarInv, FilesOK
<1>2. y.at \in {"original", "serve"}
  BY <1>1 DEF ReqType
<1>3. req' = [req EXCEPT ![r] = y] /\ req[r].at = "look"
  BY DEF Look
<1>4. StepsLeft[y.at] < StepsLeft[req[r].at]
  <2> HIDE DEF y
  <2> QED
    BY <1>2, <1>3, StepsLeftValues
<1> HIDE DEF y
<1> QED
  BY <1>3, <1>4, MoveShortens

(* Every step of a request brings its answer closer, and a failing one     *)
(* gives it at once: nothing is tried again, so a request, on its own or   *)
(* next to others, takes seven steps at most.                              *)
THEOREM AvatarRequestsShorten == Spec => [][Begins \/ Crash \/ Shortens]_vars
<1>1. ASSUME AvatarInv, Next PROVE Begins \/ Crash \/ Shortens
  <2>1. ASSUME NEW r \in Request, Create(r) \/ Write(r) \/ Lock(r) PROVE Shortens
    BY <1>1, <2>1, GotoShortens, StepsLeftValues DEF Create, Write, Lock
  <2>2. ASSUME NEW r \in Request, UpdatePicture(r) \/ Serve(r) \/ WriteFails(r) \/ Fail(r)
        PROVE  Shortens
    BY <1>1, <2>2, AnswerShortens DEF UpdatePicture, Serve, WriteFails, Fail
  <2>3. ASSUME NEW r \in Request, LookForOriginal(r) \/ Decode(r) PROVE Shortens
    BY <1>1, <2>3, AnswerShortens, GotoShortens, StepsLeftValues DEF LookForOriginal, Decode
  <2> QED
    BY <1>1, <2>1, <2>2, <2>3, LookShortens DEF Next, Step, Begins
<1> QED
  BY <1>1, AvatarInvariance, PTL DEF Spec

(* The guards of the actions that serve request r, Fail aside.             *)
CanGoOn(r) ==
  \/ req[r].at \in {"create", "write", "update", "look", "original", "decode", "serve"}
  \/ req[r].at = "lock" /\ MutexFree(r)

NoCircularWait ==
  \A r \in Request : req[r].at # "idle" => \E q \in Request : CanGoOn(q)

(* And some request can always take its next step: who waits for a mutex   *)
(* waits for one that goes on.                                             *)
THEOREM AvatarNoCircularWait == Spec => []NoCircularWait
<1>1. ASSUME AvatarInv, NEW r \in Request, req[r].at # "idle"
      PROVE  \E q \in Request : CanGoOn(q)
  <2>1. req[r].at \in {"lock", "create", "write", "update", "look", "original", "decode", "serve"}
    BY <1>1 DEF AvatarInv, FilesOK, ReqType
  <2> QED
    BY <2>1 DEF CanGoOn, MutexFree, Locked
<1>2. AvatarInv => NoCircularWait
  BY <1>1 DEF NoCircularWait
<1> QED
  BY <1>2, AvatarInvariance, PTL
=============================================================================
