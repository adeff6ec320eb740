--------------------------- MODULE ProfileProofs ---------------------------
(***************************************************************************)
(* Proofs about what users see of each other: profiles and their cache     *)
(* (UserCache), who is online (Presence), who types (Typing), and how an   *)
(* event reaches the client (EventStream), for any number of requests,     *)
(* listeners, updates, reports and events, and names of any length.  Each  *)
(* part has its inductive invariant, one lemma for an action or a few that *)
(* are alike, and the lemmas Init, Next and InvSuffices; the theorems come *)
(* last and carry the results to the composition of MCProfiles.            *)
(***************************************************************************)
EXTENDS MCProfiles, SequenceTheorems, TLAPS

(***************************************************************************)
(* UserCache: the inductive invariant                                      *)
(***************************************************************************)
UserReq ==
  [at : {"idle", "select", "add", "tell", "again", "use"}, kind : {"get", "update"},
   no : 0..row, field : Field \cup {NoField}, data : 0..row \cup {NoEntry}, since : 0..row,
   clean : BOOLEAN, alone : BOOLEAN]

CountersOK ==
  /\ row \in 0..MaxUpdates /\ done \in 0..row
  /\ written \in [Field -> 0..row] /\ shown \in [Field -> 0..row]
  /\ cache \in 0..row \cup {NoEntry}
  /\ req \in [Request -> UserReq]
  /\ stale \in BOOLEAN /\ unheard \subseteq Field

(* Each request by itself.                                                 *)
ProfileReqOK(x) ==
  /\ x.no # 0 => x.kind = "update" /\ x.at \in {"select", "add", "tell"}
  /\ x.no # 0 <=> x.field \in Field
  /\ x.since <= done
  /\ x.at \in {"again", "use"} => x.kind = "get"
  /\ x.at = "use" => x.data # NoEntry /\ (x.clean => x.data >= x.since)
  /\ x.at # "idle" /\ x.kind = "get" /\ x.clean => ~stale

(* While the cache is not stale, nothing but the present row is about to be*)
(* added, and the entry, if there is one, is no older than any update that *)
(* was answered or is about to be.                                         *)
NothingOldAdded == ~stale => \A r \in Refreshing : req[r].data = row

EntryRecent ==
  ~stale /\ cache # NoEntry =>
    /\ cache >= done
    /\ \A r \in Request : req[r].at = "tell" => cache >= req[r].no

(* An update of a field alone is alone.                                    *)
AloneIsAlone == \A f \in Field : \A q, r \in Writing(f) : q # r => ~req[q].alone

(* Unless unheard, the client was told of what the field has, or the one   *)
(* update under way is about to tell it.                                   *)
HeardOrAboutTo ==
  \A f \in Field \ unheard :
    \/ Writing(f) = {} /\ shown[f] = written[f]
    \/ \E r \in Writing(f) : Writing(f) = {r} /\ req[r].no = written[f]

ProfileInv ==
  /\ CountersOK /\ \A r \in Request : ProfileReqOK(req[r])
  /\ NothingOldAdded /\ EntryRecent /\ CacheCurrent /\ AloneIsAlone /\ HeardOrAboutTo

(***************************************************************************)
(* UserCache: its steps                                                    *)
(***************************************************************************)
LEMMA RowIsNat == ASSUME CountersOK PROVE row \in Nat /\ row \in 0..row /\ 0 \in 0..row
BY BoundAssumption DEF CountersOK

LEMMA IdleProfile ==
  ASSUME CountersOK
  PROVE  /\ Idle \in UserReq /\ ProfileReqOK(Idle)
         /\ Idle.at = "idle" /\ Idle.no = 0 /\ Idle.kind = "get" /\ Idle.alone = TRUE
         /\ Idle.field = NoField /\ Idle.field \notin Field
BY BoundAssumption, FieldAssumption DEF CountersOK, Idle, UserReq, ProfileReqOK, NoEntry

(* A request moves on, and changes no copy of the profile; who was to write*)
(* the cache is to write it still.                                         *)
LEMMA ProfileMoves ==
  ASSUME ProfileInv, NEW r \in Request, NEW y \in UserReq, ProfileReqOK(y),
         req' = [req EXCEPT ![r] = y], UNCHANGED <<row, cache, written, shown, done, stale>>,
         unheard \subseteq unheard', unheard' \subseteq Field,
         \/ y.no = req[r].no /\ y.field = req[r].field /\ y.alone = req[r].alone
         \/ y.field \notin Field /\ req[r].field \notin Field \ unheard',
         y.at = "tell" => req[r].at = "tell" /\ y.no = req[r].no,
         y.at = "add" => y.data = row,
         req[r].no # 0 /\ req[r].at \in {"select", "add"} =>
           y.no # 0 /\ y.kind = "update" /\ y.at \in {"select", "add"}
  PROVE  ProfileInv'
<1>1. req' \in [Request -> UserReq] /\ req'[r] = y /\ \A q \in Request \ {r} : req'[q] = req[q]
  BY DEF ProfileInv, CountersOK
<1>2. CountersOK'
  BY <1>1 DEF ProfileInv, CountersOK, UserReq
<1>3. \A q \in Request : ProfileReqOK(req[q])'
  BY <1>1 DEF ProfileInv, ProfileReqOK
<1>4. NothingOldAdded'
  BY <1>1 DEF ProfileInv, NothingOldAdded, Refreshing
<1>5. EntryRecent'
  BY <1>1 DEF ProfileInv, EntryRecent
<1>6. CacheCurrent'
  BY <1>1 DEF ProfileInv, CacheCurrent
<1>7. \A q \in Request : req'[q].field \in Field =>
        req'[q].field = req[q].field /\ req'[q].no = req[q].no /\ req'[q].alone = req[q].alone
  BY <1>1
<1>8. AloneIsAlone'
  BY <1>7 DEF ProfileInv, AloneIsAlone, Writing
<1>9. HeardOrAboutTo'
  <2> SUFFICES ASSUME NEW f \in Field, f \notin unheard'
               PROVE  \/ Writing(f)' = {} /\ shown[f] = written[f]
                      \/ \E q \in Writing(f)' : Writing(f)' = {q} /\ req'[q].no = written[f]
    BY DEF HeardOrAboutTo
  <2>1. \A q \in Request : req'[q].field = f <=> req[q].field = f
    BY <1>1
  <2>2. Writing(f)' = Writing(f)
    BY <2>1 DEF Writing
  <2>3. \A q \in Writing(f) : req'[q].no = req[q].no
    BY <1>7, <2>1 DEF Writing
  <2> QED
    BY <2>2, <2>3 DEF ProfileInv, HeardOrAboutTo
<1> QED
  BY <1>2, <1>3, <1>4, <1>5, <1>6, <1>8, <1>9 DEF ProfileInv

LEMMA ProfileReads ==
  ASSUME ProfileInv, NEW r \in Request,
         UpdateNothing(r) \/ UserRefreshReads(r) \/ UserGet(r) \/ UserGetAgain(r) \/ Use(r)
  PROVE  ProfileInv'
<1> DEFINE x == req[r]
<1>1. CountersOK /\ x \in UserReq /\ ProfileReqOK(x)
  BY DEF ProfileInv, CountersOK
<1>2. UNCHANGED <<row, cache, written, shown, done, stale, unheard>> /\ unheard \subseteq Field
  BY <1>1 DEF UpdateNothing, UserRefreshReads, UserGet, UserGetAgain, Use, CountersOK
<1>3. CASE UpdateNothing(r)
  <2> DEFINE y == [Idle EXCEPT !.at = "select", !.kind = "update"]
  <2>1. y \in UserReq /\ ProfileReqOK(y) /\ y.at = "select" /\ y.no = 0 /\ y.field \notin Field
    BY <1>1, IdleProfile DEF Idle, UserReq, ProfileReqOK
  <2>2. req' = [req EXCEPT ![r] = y] /\ x.no = 0 /\ x.field \notin Field
    BY <1>1, <1>3, IdleProfile DEF UpdateNothing
  <2> HIDE DEF y
  <2> QED
    BY <1>2, <2>1, <2>2, ProfileMoves
<1>4. CASE UserRefreshReads(r)
  <2> DEFINE y == [x EXCEPT !.at = "add", !.data = row]
  <2>1. y \in UserReq /\ y.at = "add" /\ y.no = x.no /\ y.kind = x.kind /\ y.data = row
        /\ y.alone = x.alone /\ y.since = x.since /\ y.clean = x.clean /\ y.field = x.field
    BY <1>1, RowIsNat DEF UserReq
  <2>2. ProfileReqOK(y) /\ x.at = "select"
    BY <1>1, <1>4, <2>1 DEF ProfileReqOK, UserRefreshReads
  <2>3. req' = [req EXCEPT ![r] = y]
    BY <1>4 DEF UserRefreshReads
  <2>4. x.no # 0 => y.no # 0 /\ y.kind = "update"
    BY <1>1, <2>1 DEF ProfileReqOK
  <2> HIDE DEF y
  <2> QED
    BY <1>2, <2>1, <2>2, <2>3, <2>4, ProfileMoves
<1>5. CASE UserGet(r)
  <2> DEFINE b == [Idle EXCEPT !.since = done, !.clean = ~stale]
             y == IF cache = NoEntry THEN [b EXCEPT !.at = "select"]
                  ELSE [b EXCEPT !.at = "use", !.data = cache]
  <2>1. cache # NoEntry /\ ~stale => cache >= done
    BY DEF ProfileInv, EntryRecent
  <2>2. y \in UserReq /\ y.at \in {"select", "use"} /\ y.no = 0 /\ y.field \notin Field /\ ProfileReqOK(y)
    <3>1. /\ b \in UserReq /\ b.kind = "get" /\ b.no = 0 /\ b.since = done
          /\ b.clean = ~stale /\ b.field \notin Field
      BY <1>1, IdleProfile DEF Idle, UserReq, CountersOK
    <3> HIDE DEF b
    <3>2. CASE cache = NoEntry
      BY <1>1, <3>1, <3>2, RowIsNat DEF UserReq, ProfileReqOK, CountersOK
    <3>3. CASE cache # NoEntry
      <4>1. y \in UserReq /\ y.at = "use" /\ y.kind = "get" /\ y.no = 0 /\ y.since = done
            /\ y.clean = ~stale /\ y.data = cache /\ y.field \notin Field
        BY <1>1, <3>1, <3>3 DEF UserReq, CountersOK
      <4> HIDE DEF y
      <4>2. y.clean => ~stale /\ y.data >= y.since
        BY <2>1, <3>3, <4>1
      <4>3. y.since <= done
        BY <1>1, <4>1, RowIsNat DEF CountersOK
      <4> QED
        BY <3>3, <4>1, <4>2, <4>3 DEF ProfileReqOK
    <3> QED
      BY <3>2, <3>3
  <2>3. req' = [req EXCEPT ![r] = y] /\ x.no = 0 /\ x.field \notin Field
    BY <1>1, <1>5, IdleProfile DEF UserGet
  <2> HIDE DEF y
  <2> QED
    BY <1>2, <2>2, <2>3, ProfileMoves
<1>6. CASE x.at \in {"again", "use"} /\ req' = [req EXCEPT ![r] = Idle]
  <2>1. x.no = 0 /\ x.field \notin Field
    BY <1>1, <1>6 DEF ProfileReqOK
  <2> QED
    BY <1>1, <1>2, <1>6, <2>1, IdleProfile, ProfileMoves
<1>7. CASE x.at = "again" /\ cache # NoEntry
           /\ req' = [req EXCEPT ![r].at = "use", ![r].data = cache]
  <2> DEFINE y == [x EXCEPT !.at = "use", !.data = cache]
  <2>1. y \in UserReq /\ y.at = "use" /\ y.no = x.no /\ y.kind = x.kind /\ y.data = cache
        /\ y.alone = x.alone /\ y.since = x.since /\ y.clean = x.clean /\ y.field = x.field
    BY <1>1 DEF UserReq, CountersOK
  <2>2. x.no = 0
    BY <1>1, <1>7 DEF ProfileReqOK
  <2>3. x.clean => cache >= x.since
    <3>1. x.clean => cache >= done
      BY <1>1, <1>7 DEF ProfileInv, ProfileReqOK, EntryRecent
    <3> QED
      BY <1>1, <3>1, RowIsNat DEF ProfileReqOK, CountersOK, UserReq, NoEntry
  <2>4. ProfileReqOK(y)
    BY <1>1, <1>7, <2>1, <2>2, <2>3 DEF ProfileReqOK
  <2>5. req' = [req EXCEPT ![r] = y]
    BY <1>7
  <2> HIDE DEF y
  <2> QED
    BY <1>2, <2>1, <2>2, <2>4, <2>5, ProfileMoves
<1> QED
  BY <1>3, <1>4, <1>5, <1>6, <1>7 DEF UserGetAgain, Use, Answer

LEMMA ProfileUpdates ==
  ASSUME ProfileInv, NEW r \in Request, NEW f \in Field, Update(r, f)
  PROVE  ProfileInv'
<1> DEFINE x == [Idle EXCEPT !.at = "select"]
           y == [x EXCEPT !.kind = "update", !.no = row + 1, !.field = f, !.alone = Writing(f) = {}]
           z(q) == [req[q] EXCEPT !.clean = @ /\ Refreshing = {}, !.alone = @ /\ q \notin Writing(f)]
<1>1. /\ CountersOK /\ req[r] = Idle /\ row < MaxUpdates /\ row' = row + 1
      /\ written' = [written EXCEPT ![f] = row + 1]
      /\ stale' = (stale \/ Refreshing # {})
      /\ unheard' = (IF Writing(f) = {} THEN unheard ELSE unheard \cup {f})
      /\ UNCHANGED <<cache, shown, done>>
      /\ req' = [q \in Request |-> IF q = r THEN y ELSE z(q)]
  BY DEF ProfileInv, Update, Commit
<1>2. row \in Nat /\ row' \in 0..MaxUpdates /\ 0..row \subseteq 0..row' /\ row' \in 0..row'
      /\ row' # 0
  <2>1. row \in Nat /\ MaxUpdates \in Nat
    BY <1>1, RowIsNat, BoundAssumption
  <2>2. row < MaxUpdates /\ row' = row + 1
    BY <1>1
  <2>3. row' \in 0..MaxUpdates /\ row' # 0 /\ row' \in 0..row'
    BY <2>1, <2>2
  <2>4. 0..row \subseteq 0..row'
    BY <2>1, <2>2
  <2> QED
    BY <2>1, <2>3, <2>4
<1>3. /\ y \in UserReq' /\ y.at = "select" /\ y.kind = "update" /\ y.no = row' /\ y.since = 0
      /\ y.field = f /\ y.alone = (Writing(f) = {})
  BY <1>1, <1>2, IdleProfile DEF Idle, UserReq
<1>4. ASSUME NEW q \in Request \ {r}
      PROVE  /\ z(q) \in UserReq' /\ z(q).at = req[q].at /\ z(q).kind = req[q].kind
             /\ z(q).no = req[q].no /\ z(q).data = req[q].data /\ z(q).since = req[q].since
             /\ z(q).alone = (req[q].alone /\ q \notin Writing(f))
             /\ z(q).clean = (req[q].clean /\ Refreshing = {}) /\ z(q).field = req[q].field
  BY <1>1, <1>2 DEF CountersOK, UserReq
<1> HIDE DEF y, z
<1>5. req' \in [Request -> UserReq'] /\ req'[r] = y /\ \A q \in Request \ {r} : req'[q] = z(q)
  BY <1>1, <1>3, <1>4
<1>6. CountersOK'
  <2>1. written' \in [Field -> 0..row'] /\ shown' \in [Field -> 0..row']
    BY <1>1, <1>2 DEF CountersOK
  <2> QED
    BY <1>1, <1>2, <1>5, <2>1 DEF CountersOK
<1>7. \A q \in Request : ProfileReqOK(req[q])'
  <2>1. ProfileReqOK(req[r])'
    BY <1>1, <1>2, <1>3, <1>5, RowIsNat DEF ProfileReqOK, CountersOK
  <2>2. ASSUME NEW q \in Request \ {r} PROVE ProfileReqOK(req[q])'
    <3>1. ProfileReqOK(req[q])
      BY DEF ProfileInv
    <3>2. z(q).clean => req[q].clean /\ (stale' => stale)
      BY <1>1, <1>4
    <3> QED
      BY <1>1, <1>4, <1>5, <3>1, <3>2 DEF ProfileReqOK
  <2> QED
    BY <2>1, <2>2
<1>8. NothingOldAdded'
  <2>1. stale' \/ Refreshing = {}
    BY <1>1
  <2>2. Refreshing' = Refreshing
    BY <1>1, <1>3, <1>4, <1>5, IdleProfile DEF Refreshing
  <2> QED
    BY <2>1, <2>2 DEF NothingOldAdded
<1>9. EntryRecent'
  <2>1. stale => stale'
    BY <1>1
  <2>2. \A q \in Request : req'[q].at = "tell" => req[q].at = "tell" /\ req'[q].no = req[q].no
    BY <1>3, <1>4, <1>5
  <2> QED
    BY <1>1, <2>1, <2>2 DEF ProfileInv, EntryRecent
<1>10. CacheCurrent'
  BY <1>2, <1>3, <1>5 DEF CacheCurrent
<1>11. /\ \A q \in Request \ {r} : req'[q].field = req[q].field /\ req'[q].no = req[q].no
                                     /\ req'[q].alone = (req[q].alone /\ q \notin Writing(f))
       /\ req'[r].field = f /\ req'[r].no = row' /\ req'[r].alone = (Writing(f) = {})
  BY <1>3, <1>4, <1>5
<1>12. /\ \A g \in Field : r \notin Writing(g) /\ (g # f => Writing(g)' = Writing(g))
       /\ Writing(f)' = Writing(f) \cup {r}
  BY <1>1, <1>11, IdleProfile DEF Writing
<1>13. AloneIsAlone'
  <2> SUFFICES ASSUME NEW g \in Field, NEW p \in Writing(g)', NEW q \in Writing(g)', p # q
               PROVE  ~req'[p].alone
    BY DEF AloneIsAlone
  <2>1. p \in Request /\ q \in Request
    BY DEF Writing
  <2>2. CASE g = f
    BY <1>11, <1>12, <2>1, <2>2
  <2>3. CASE g # f
    BY <1>11, <1>12, <2>1, <2>3 DEF ProfileInv, AloneIsAlone
  <2> QED
    BY <2>2, <2>3
<1>14. HeardOrAboutTo'
  <2> SUFFICES ASSUME NEW g \in Field, g \notin unheard'
               PROVE  \/ Writing(g)' = {} /\ shown'[g] = written'[g]
                      \/ \E q \in Writing(g)' : Writing(g)' = {q} /\ req'[q].no = written'[g]
    BY DEF HeardOrAboutTo
  <2>1. CASE g = f
    <3>1. Writing(f)' = {r} /\ written'[f] = row'
      BY <1>1, <1>12, <2>1 DEF CountersOK
    <3> QED
      BY <1>11, <2>1, <3>1
  <2>2. CASE g # f
    <3>1. Writing(g)' = Writing(g) /\ r \notin Writing(g) /\ written'[g] = written[g] /\ shown'[g] = shown[g]
      BY <1>1, <1>12, <2>2 DEF CountersOK
    <3>2. \A q \in Writing(g) : req'[q].no = req[q].no
      BY <1>11, <3>1 DEF Writing
    <3>3. g \notin unheard
      BY <1>1
    <3> QED
      BY <3>1, <3>2, <3>3 DEF ProfileInv, HeardOrAboutTo
  <2> QED
    BY <2>1, <2>2
<1> QED
  BY <1>6, <1>7, <1>8, <1>9, <1>10, <1>13, <1>14 DEF ProfileInv

LEMMA RefreshKeeps ==
  ASSUME ProfileInv, NEW r \in Request, UserRefreshAdds(r)
  PROVE  ProfileInv'
<1> DEFINE x == req[r]
           y == [x EXCEPT !.at = IF x.kind = "update" THEN "tell" ELSE "again"]
<1>1. /\ CountersOK /\ x \in UserReq /\ ProfileReqOK(x) /\ x.at = "add" /\ cache' = x.data
      /\ stale' = (stale /\ ~(\A q \in Refreshing : req[q].data = row))
      /\ req' = [req EXCEPT ![r] = y] /\ UNCHANGED <<row, written, shown, done, unheard>>
  BY DEF ProfileInv, CountersOK, UserRefreshAdds
<1>2. /\ y \in UserReq /\ y.at \in {"tell", "again"} /\ y.no = x.no /\ y.kind = x.kind
      /\ y.since = x.since /\ y.clean = x.clean /\ y.alone = x.alone /\ y.field = x.field
      /\ (y.at = "again" => x.kind = "get") /\ (y.at = "tell" => x.kind = "update")
  BY <1>1 DEF UserReq
<1> HIDE DEF y
<1>3. req' \in [Request -> UserReq] /\ req'[r] = y /\ \A q \in Request \ {r} : req'[q] = req[q]
  BY <1>1, <1>2 DEF CountersOK
<1>4. CountersOK'
  BY <1>1, <1>3 DEF CountersOK, UserReq
<1>5. ~stale' => \A q \in Refreshing : req[q].data = row
  <2>1. CASE ~stale
    BY <2>1 DEF ProfileInv, NothingOldAdded
  <2>2. CASE stale
    BY <1>1, <2>2
  <2> QED
    BY <2>1, <2>2
<1>6. r \in Refreshing /\ Refreshing' \subseteq Refreshing \ {r}
  BY <1>1, <1>2, <1>3 DEF Refreshing
<1>7. ~stale' => cache' = row
  BY <1>1, <1>5, <1>6
<1>8. stale' => stale
  BY <1>1
<1>9. \A q \in Request : ProfileReqOK(req[q])'
  BY <1>1, <1>2, <1>3, <1>8 DEF ProfileInv, ProfileReqOK
<1>10. NothingOldAdded'
  BY <1>1, <1>3, <1>5, <1>6 DEF NothingOldAdded, Refreshing
<1>11. EntryRecent'
  <2>1. ASSUME NEW n \in 0..row PROVE row >= n
    BY <1>1, RowIsNat
  <2>2. done \in 0..row /\ \A q \in Request : req'[q].no \in 0..row
    BY <1>1, <1>3 DEF CountersOK, UserReq
  <2> QED
    BY <1>1, <1>7, <2>1, <2>2 DEF EntryRecent
<1>12. CacheCurrent'
  BY <1>1, <1>7 DEF CacheCurrent
<1>13. \A q \in Request :
         req'[q].field = req[q].field /\ req'[q].no = req[q].no /\ req'[q].alone = req[q].alone
  BY <1>2, <1>3
<1>14. AloneIsAlone' /\ HeardOrAboutTo'
  <2>1. \A f : Writing(f)' = Writing(f)
    BY <1>13 DEF Writing
  <2>2. \A f : Writing(f) \subseteq Request
    BY DEF Writing
  <2> QED
    BY <1>1, <1>13, <2>1, <2>2 DEF ProfileInv, AloneIsAlone, HeardOrAboutTo
<1> QED
  BY <1>4, <1>9, <1>10, <1>11, <1>12, <1>14 DEF ProfileInv

LEMMA EmitKeeps ==
  ASSUME ProfileInv, NEW r \in Request, Emit(r)
  PROVE  ProfileInv'
<1> DEFINE x == req[r]
<1>1. /\ CountersOK /\ x \in UserReq /\ ProfileReqOK(x) /\ x.at = "tell"
      /\ \/ x.no = 0 /\ UNCHANGED <<shown, unheard>>
         \/ x.no # 0 /\ shown' = [shown EXCEPT ![x.field] = x.no]
            /\ unheard' = (IF x.alone /\ x.no = written[x.field] THEN unheard \ {x.field} ELSE unheard)
         \/ x.no # 0 /\ unheard' = unheard \cup {x.field} /\ UNCHANGED shown
      /\ done' = (IF x.no > done THEN x.no ELSE done)
      /\ req' = [req EXCEPT ![r] = Idle] /\ UNCHANGED <<row, cache, written, stale>>
  BY DEF ProfileInv, CountersOK, Emit, ToldOf, Answered, Answer
<1>2. Idle \in UserReq /\ Idle.at = "idle" /\ Idle.no = 0 /\ Idle.field \notin Field
  BY <1>1, IdleProfile
<1>3. req' \in [Request -> UserReq] /\ req'[r] = Idle /\ \A q \in Request \ {r} : req'[q] = req[q]
  BY <1>1, <1>2 DEF CountersOK
<1>4. /\ shown' \in [Field -> 0..row] /\ done' \in 0..row /\ unheard' \subseteq Field /\ x.no \in 0..row
      /\ done \in Nat /\ done' \in Nat /\ x.no \in Nat /\ done <= done'
  <2>1. shown \in [Field -> 0..row] /\ done \in 0..row /\ x.no \in 0..row /\ unheard \subseteq Field /\ row \in Nat
    BY <1>1, RowIsNat DEF CountersOK, UserReq
  <2>2. x.no # 0 => x.field \in Field
    BY <1>1 DEF ProfileReqOK
  <2>3. shown' \in [Field -> 0..row] /\ unheard' \subseteq Field
    BY <1>1, <2>1, <2>2
  <2>4. done' \in 0..row
    BY <1>1, <2>1
  <2>5. done \in Nat /\ done' \in Nat /\ x.no \in Nat
    BY <2>1, <2>4
  <2>6. done <= done'
    BY <1>1, <2>5
  <2> QED
    BY <2>1, <2>3, <2>4, <2>5, <2>6
<1>5. CountersOK'
  BY <1>1, <1>3, <1>4 DEF CountersOK, UserReq
<1>6. \A q \in Request : ProfileReqOK(req[q])'
  <2>1. ASSUME NEW q \in Request \ {r} PROVE ProfileReqOK(req[q])'
    <3>1. ProfileReqOK(req[q]) /\ req[q].since \in Nat
      BY <1>1, RowIsNat DEF ProfileInv, CountersOK, UserReq
    <3>2. req[q].since <= done'
      BY <1>4, <3>1 DEF ProfileReqOK
    <3> QED
      BY <1>1, <1>3, <3>1, <3>2 DEF ProfileReqOK
  <2>2. ProfileReqOK(req[r])'
    <3>1. req'[r].no = 0 /\ req'[r].at = "idle" /\ req'[r].field \notin Field /\ req'[r].since = 0
      BY <1>2, <1>3 DEF Idle
    <3>2. 0 <= done'
      BY <1>4
    <3> QED
      BY <3>1, <3>2 DEF ProfileReqOK
  <2> QED
    BY <2>1, <2>2
<1>7. NothingOldAdded'
  BY <1>1, <1>2, <1>3 DEF ProfileInv, NothingOldAdded, Refreshing
<1>8. EntryRecent'
  <2>1. ~stale /\ cache # NoEntry => cache >= done'
    BY <1>1 DEF ProfileInv, EntryRecent
  <2> QED
    BY <1>1, <1>2, <1>3, <2>1 DEF ProfileInv, EntryRecent
<1>9. CacheCurrent'
  BY <1>1, <1>3 DEF ProfileInv, CacheCurrent
<1>10. \A f \in Field : Writing(f)' = Writing(f) \ {r}
  BY <1>2, <1>3 DEF Writing
<1>11. AloneIsAlone'
  <2>1. \A f \in Field : \A q \in Writing(f)' : q \in Writing(f) /\ req'[q] = req[q]
    BY <1>3, <1>10 DEF Writing
  <2> QED
    BY <2>1 DEF ProfileInv, AloneIsAlone
<1>12. HeardOrAboutTo'
  <2> SUFFICES ASSUME NEW f \in Field, f \notin unheard'
               PROVE  \/ Writing(f)' = {} /\ shown'[f] = written[f]
                      \/ \E q \in Writing(f)' : Writing(f)' = {q} /\ req'[q].no = written[f]
    BY <1>1 DEF HeardOrAboutTo
  <2>1. r \in Writing(f) <=> x.field = f
    BY DEF Writing
  <2>2. CASE x.field = f
    <3>1. x.no # 0
      BY <1>1, <2>2 DEF ProfileReqOK
    <3>2. /\ shown' = [shown EXCEPT ![f] = x.no]
          /\ unheard' = (IF x.alone /\ x.no = written[f] THEN unheard \ {f} ELSE unheard)
      BY <1>1, <2>2, <3>1
    <3>3. shown'[f] = x.no
      BY <1>1, <3>2 DEF CountersOK
    <3>4. CASE x.alone /\ x.no = written[f]
      <4>1. \A q \in Writing(f) : q = r
        BY <2>1, <2>2, <3>4 DEF ProfileInv, AloneIsAlone
      <4>2. Writing(f)' = {}
        BY <1>10, <4>1
      <4> QED
        BY <3>3, <3>4, <4>2
    <3>5. CASE ~(x.alone /\ x.no = written[f])
      <4>1. f \notin unheard
        BY <3>2, <3>5
      <4>2. Writing(f) = {r} /\ x.no = written[f]
        BY <2>1, <2>2, <4>1 DEF ProfileInv, HeardOrAboutTo
      <4>3. Writing(f)' = {}
        BY <1>10, <4>2
      <4> QED
        BY <3>3, <4>2, <4>3
    <3> QED
      BY <3>4, <3>5
  <2>3. CASE x.field # f
    <3>1. Writing(f)' = Writing(f)
      BY <1>10, <2>1, <2>3
    <3>2. f \notin unheard /\ shown'[f] = shown[f]
      BY <1>1, <2>3 DEF CountersOK
    <3>3. \A q \in Writing(f) : req'[q].no = req[q].no
      BY <1>3, <2>1, <2>3 DEF Writing
    <3> QED
      BY <3>1, <3>2, <3>3 DEF ProfileInv, HeardOrAboutTo
  <2> QED
    BY <2>2, <2>3
<1> QED
  BY <1>5, <1>6, <1>7, <1>8, <1>9, <1>11, <1>12 DEF ProfileInv

LEMMA ProfileFails ==
  ASSUME ProfileInv, NEW r \in Request, Fail(r)
  PROVE  ProfileInv'
<1> DEFINE x == req[r]
           z(q) == [req[q] EXCEPT !.clean = @ /\ x.no = 0]
<1>1. CountersOK /\ x \in UserReq /\ ProfileReqOK(x) /\ Idle \in UserReq /\ ProfileReqOK(Idle)
      /\ Idle.at = "idle" /\ Idle.no = 0 /\ Idle.field \notin Field /\ (x.no # 0 <=> x.field \in Field)
  BY IdleProfile DEF ProfileInv, CountersOK, ProfileReqOK
<1>2. /\ UNCHANGED <<row, cache, written, shown, done>> /\ unheard' = unheard \cup ({x.field} \cap Field)
      /\ x.at = "select" /\ stale' = (stale \/ x.no # 0)
      /\ req' = [q \in Request |-> IF q = r THEN Idle ELSE z(q)]
  BY DEF Fail
<1>3. unheard \subseteq unheard' /\ unheard' \subseteq Field /\ x.field \notin Field \ unheard'
  BY <1>1, <1>2 DEF CountersOK
<1>4. CASE x.no = 0
  <2>1. \A q \in Request : z(q) = req[q]
    BY <1>1, <1>4 DEF CountersOK, UserReq
  <2> HIDE DEF z
  <2>2. req' = [req EXCEPT ![r] = Idle] /\ stale' = stale
    BY <1>1, <1>2, <1>4, <2>1 DEF CountersOK
  <2> QED
    BY <1>1, <1>2, <1>3, <1>4, <2>2, ProfileMoves
<1>5. CASE x.no # 0
  <2>1. stale' = TRUE
    BY <1>2, <1>5
  <2>2. ASSUME NEW q \in Request
        PROVE  /\ z(q) \in UserReq /\ z(q).at = req[q].at /\ z(q).kind = req[q].kind
               /\ z(q).no = req[q].no /\ z(q).data = req[q].data /\ z(q).since = req[q].since
               /\ z(q).alone = req[q].alone /\ z(q).clean = FALSE /\ z(q).field = req[q].field
    BY <1>1, <1>5 DEF CountersOK, UserReq
  <2> HIDE DEF z
  <2>3. req' \in [Request -> UserReq] /\ req'[r] = Idle /\ \A q \in Request \ {r} : req'[q] = z(q)
    BY <1>1, <1>2, <2>2
  <2>4. CountersOK'
    BY <1>1, <1>2, <1>3, <2>1, <2>3 DEF CountersOK, UserReq
  <2>5. \A q \in Request : ProfileReqOK(req[q])'
    <3>1. ProfileReqOK(req[r])'
      BY <1>1, <1>2, <2>3 DEF ProfileReqOK, Idle
    <3>2. ASSUME NEW q \in Request \ {r} PROVE ProfileReqOK(req[q])'
      <4>1. ProfileReqOK(req[q]) /\ req'[q] = z(q)
        BY <2>3 DEF ProfileInv
      <4> QED
        BY <1>2, <2>2, <4>1 DEF ProfileReqOK
    <3> QED
      BY <3>1, <3>2
  <2>6. NothingOldAdded' /\ EntryRecent' /\ CacheCurrent'
    BY <2>1 DEF NothingOldAdded, EntryRecent, CacheCurrent
  <2>7. \A q \in Request \ {r} :
          req'[q].field = req[q].field /\ req'[q].no = req[q].no /\ req'[q].alone = req[q].alone
    BY <2>2, <2>3
  <2>8. AloneIsAlone'
    BY <1>1, <2>3, <2>7 DEF ProfileInv, AloneIsAlone, Writing
  <2>9. HeardOrAboutTo'
    <3> SUFFICES ASSUME NEW f \in Field, f \notin unheard'
                 PROVE  \/ Writing(f)' = {} /\ shown[f] = written[f]
                        \/ \E q \in Writing(f)' : Writing(f)' = {q} /\ req'[q].no = written[f]
      BY <1>2 DEF HeardOrAboutTo
    <3>1. f # x.field /\ f \notin unheard
      BY <1>2
    <3>2. Writing(f)' = Writing(f) /\ r \notin Writing(f)
      BY <1>1, <2>3, <2>7, <3>1 DEF Writing
    <3>3. \A q \in Writing(f) : req'[q].no = req[q].no
      BY <2>7, <3>2 DEF Writing
    <3> QED
      BY <3>1, <3>2, <3>3 DEF ProfileInv, HeardOrAboutTo
  <2> QED
    BY <2>4, <2>5, <2>6, <2>8, <2>9 DEF ProfileInv
<1> QED
  BY <1>4, <1>5

LEMMA ProfileLosses ==
  ASSUME ProfileInv, Evict \/ Restart
  PROVE  ProfileInv'
<1>1. CASE Evict
  <2>1. cache' = NoEntry /\ UNCHANGED <<row, written, shown, req, done, stale, unheard>>
    BY <1>1 DEF Evict
  <2> QED
    BY <2>1 DEF ProfileInv, CountersOK, UserReq, ProfileReqOK, NothingOldAdded, Refreshing,
                EntryRecent, CacheCurrent, AloneIsAlone, HeardOrAboutTo, Writing
<1>2. CASE Restart
  <2>1. /\ cache' = NoEntry /\ req' = [r \in Request |-> Idle] /\ stale' = FALSE
        /\ unheard' = unheard \cup {f \in Field : Writing(f) # {}}
        /\ UNCHANGED <<row, written, shown, done>>
    BY <1>2 DEF Restart
  <2>2. CountersOK /\ Idle \in UserReq /\ ProfileReqOK(Idle) /\ Idle.at = "idle" /\ Idle.no = 0
      /\ Idle.field \notin Field
    BY IdleProfile DEF ProfileInv
  <2>3. \A r \in Request : req'[r] = Idle
    BY <2>1
  <2>4. CountersOK'
    BY <2>1, <2>2 DEF CountersOK, UserReq
  <2>5. \A r \in Request : ProfileReqOK(req[r])'
    BY <2>1, <2>2, <2>3 DEF ProfileReqOK
  <2>6. NothingOldAdded' /\ EntryRecent' /\ CacheCurrent' /\ AloneIsAlone'
    BY <2>1, <2>2, <2>3 DEF NothingOldAdded, Refreshing, EntryRecent, CacheCurrent, AloneIsAlone,
                            Writing
  <2>7. HeardOrAboutTo'
    <3>1. \A f \in Field : Writing(f)' = {}
      BY <2>2, <2>3 DEF Writing
    <3>2. \A f \in Field \ unheard' : f \notin unheard /\ Writing(f) = {}
      BY <2>1
    <3> QED
      BY <2>1, <3>1, <3>2 DEF ProfileInv, HeardOrAboutTo
  <2> QED
    BY <2>4, <2>5, <2>6, <2>7 DEF ProfileInv
<1> QED
  BY <1>1, <1>2

LEMMA ProfileInit == ASSUME Init PROVE ProfileInv
<1>1. CountersOK
  <2>1. 0 \in 0..MaxUpdates /\ 0 \in 0..0 /\ row = 0 /\ done = 0
          /\ written = [f \in Field |-> 0] /\ shown = written
    BY BoundAssumption DEF Init
  <2>2. Idle \in UserReq
    BY <2>1 DEF Idle, UserReq
  <2> QED
    BY <2>1, <2>2 DEF Init, CountersOK
<1>2. Idle.at = "idle" /\ Idle.no = 0 /\ Idle.field \notin Field /\ ProfileReqOK(Idle) /\ \A r \in Request : req[r] = Idle
  BY <1>1, IdleProfile DEF Init
<1> QED
  BY <1>1, <1>2 DEF Init, ProfileInv, NothingOldAdded, Refreshing, EntryRecent, CacheCurrent,
                    AloneIsAlone, HeardOrAboutTo, Writing

LEMMA ProfileNext == ASSUME ProfileInv, [Next]_vars PROVE ProfileInv'
<1>1. CASE UNCHANGED vars
  BY <1>1 DEF vars, ProfileInv, CountersOK, UserReq, ProfileReqOK, NothingOldAdded, Refreshing,
              EntryRecent, CacheCurrent, AloneIsAlone, HeardOrAboutTo, Writing
<1>2. CASE Next
  BY <1>2, ProfileReads, ProfileUpdates, RefreshKeeps, EmitKeeps, ProfileFails, ProfileLosses DEF Next
<1> QED
  BY <1>1, <1>2

LEMMA ProfileInvSuffices == ASSUME ProfileInv PROVE ProfileFollowed
<1>1. TypeOK
  <2>1. {row, done} \subseteq 0..MaxUpdates
    <3>1. row \in Nat /\ row <= MaxUpdates /\ MaxUpdates \in Nat /\ done \in 0..row
      BY RowIsNat, BoundAssumption DEF ProfileInv, CountersOK
    <3> QED
      BY <3>1
  <2>2. \A r \in Request : req[r].at = "use" => req[r].data # NoEntry
    BY DEF ProfileInv, ProfileReqOK
  <2> QED
    BY <2>1, <2>2 DEF ProfileInv, CountersOK, UserReq, TypeOK
<1>2. SignedAsUpdated
  BY DEF ProfileInv, ProfileReqOK, SignedAsUpdated
<1>3. ClientsConverge
  BY DEF ProfileInv, HeardOrAboutTo, ClientsConverge
<1> QED
  BY <1>1, <1>2, <1>3 DEF ProfileInv, ProfileFollowed

(***************************************************************************)
(* Presence: the inductive invariant                                       *)
(***************************************************************************)
Announcement == [at : {"idle", "query", "emit"}, no : 0..changes, alone : BOOLEAN]

ChangesOK ==
  /\ changes \in 1..MaxChanges
  /\ announcing \in [Announcer -> Announcement]
  /\ room \subseteq Listener
  /\ view \in [Listener -> 0..changes]
  /\ missed \in [Listener -> SUBSET (1..changes)]
  /\ silent \subseteq 1..changes /\ crossed \subseteq Listener

(* Announcements under way are of different changes, and only the last     *)
(* change may be announced alone; with an earlier one, all are crossed.    *)
AnnouncedApart ==
  /\ \A r \in Online!Announcing : announcing[r].no >= 1
  /\ \A q, r \in Online!Announcing :
       q # r => announcing[q].no # announcing[r].no /\ ~announcing[q].alone
  /\ \A r \in Online!Announcing :
       announcing[r].no = changes \/ (crossed = Listener /\ ~announcing[r].alone)

PresenceInv == ChangesOK /\ AnnouncedApart /\ Online!NothingElseMissed

(***************************************************************************)
(* Presence: its steps                                                     *)
(***************************************************************************)
LEMMA ChangesAreNat ==
  ASSUME ChangesOK
  PROVE  changes \in Nat /\ changes >= 1 /\ MaxChanges \in Nat /\ changes <= MaxChanges
BY BoundsAssumption DEF ChangesOK

LEMMA BeginKeeps ==
  ASSUME PresenceInv, NEW r \in Announcer, Online!NewSession(r) \/ Online!RemoveSession(r)
  PROVE  PresenceInv'
<1> DEFINE y == [at |-> "query", no |-> changes + 1, alone |-> Online!Announcing = {}]
           z(q) == [announcing[q] EXCEPT !.alone = announcing[q] = Online!Idle]
<1>1. /\ ChangesOK /\ announcing[r] = Online!Idle /\ changes < MaxChanges /\ changes' = changes + 1
      /\ announcing' = [q \in Announcer |-> IF q = r THEN y ELSE z(q)]
      /\ crossed' = (IF Online!Announcing = {} THEN crossed ELSE Listener)
      /\ UNCHANGED <<room, view, missed, silent>>
  BY DEF PresenceInv, Online!NewSession, Online!RemoveSession, Online!Begin
<1>2. /\ changes \in Nat /\ changes' \in 1..MaxChanges /\ 0..changes \subseteq 0..changes'
      /\ 1..changes \subseteq 1..changes' /\ changes' \in 0..changes'
  BY <1>1, ChangesAreNat
<1>3. y \in Announcement' /\ y.no = changes' /\ y # Online!Idle
      /\ y.alone = (Online!Announcing = {}) /\ y.no >= 1
  BY <1>1, <1>2 DEF Announcement, Online!Idle
<1>4. ASSUME NEW q \in Announcer
      PROVE  /\ z(q) \in Announcement' /\ z(q).no = announcing[q].no /\ z(q).no \in 0..changes
             /\ (q \in Online!Announcing => z(q).alone = FALSE)
             /\ (q \notin Online!Announcing => z(q) = Online!Idle)
  <2>1. announcing[q] \in Announcement
    BY <1>1 DEF ChangesOK
  <2>2. z(q) \in Announcement' /\ z(q).no = announcing[q].no /\ z(q).no \in 0..changes
        /\ z(q).alone = (announcing[q] = Online!Idle)
    BY <1>2, <2>1 DEF Announcement
  <2>3. CASE announcing[q] = Online!Idle
    <3>1. announcing[q].alone = TRUE
      BY <2>3 DEF Online!Idle
    <3>2. z(q) = announcing[q]
      BY <2>1, <2>3, <3>1 DEF Announcement
    <3>4. z(q) = Online!Idle
      BY <2>3, <3>2
    <3> QED
      BY <2>2, <2>3, <3>4 DEF Online!Announcing
  <2>4. CASE announcing[q] # Online!Idle
    BY <2>2, <2>4 DEF Online!Announcing
  <2> QED
    BY <2>3, <2>4
<1>5. \A q \in Announcer : z(q) # Online!Idle => q \in Online!Announcing
  BY <1>4
<1> HIDE DEF y, z
<1>6. /\ announcing' \in [Announcer -> Announcement'] /\ announcing'[r] = y
      /\ \A q \in Announcer \ {r} : announcing'[q] = z(q)
  BY <1>1, <1>3, <1>4
<1>7. ChangesOK'
  BY <1>1, <1>2, <1>6 DEF ChangesOK
<1>8. r \in Online!Announcing' /\ \A q \in Online!Announcing' : q = r \/ q \in Online!Announcing
  BY <1>3, <1>5, <1>6 DEF Online!Announcing
<1>9. Online!Announcing \subseteq Announcer /\ r \notin Online!Announcing
  BY <1>1 DEF Online!Announcing
<1>10. AnnouncedApart'
  <2>1. ASSUME NEW q \in Online!Announcing', q # r
        PROVE  /\ q \in Online!Announcing /\ announcing'[q].no = announcing[q].no
               /\ announcing'[q].no \in 0..changes /\ announcing'[q].alone = FALSE
               /\ Online!Announcing # {} /\ announcing'[q].no >= 1
    BY <1>4, <1>6, <1>8, <1>9, <2>1 DEF PresenceInv, AnnouncedApart
  <2>2. \A n \in 0..changes : n # changes'
    BY <1>1, <1>2
  <2>3. \A q, p \in Online!Announcing' :
          q # p => announcing'[q].no # announcing'[p].no /\ ~announcing'[q].alone
    BY <1>3, <1>6, <2>1, <2>2 DEF PresenceInv, AnnouncedApart
  <2> QED
    BY <1>1, <1>3, <1>6, <2>1, <2>3 DEF AnnouncedApart
<1>11. Online!NothingElseMissed'
  <2>1. ASSUME NEW l \in Online!Listed', l \notin crossed', NEW n \in (view'[l] + 1)..changes'
        PROVE  n \in missed'[l] \cup silent' \/ \E q \in Online!Announcing' : announcing'[q].no = n
    <3>1. l \in Online!Listed /\ l \notin crossed /\ Online!Announcing = {} /\ view[l] \in Nat
      BY <1>1, <1>2, <2>1 DEF Online!Listed, ChangesOK
    <3>2. CASE n = changes'
      BY <1>3, <1>6, <1>8, <3>2
    <3>3. CASE n # changes'
      <4>1. n \in (view[l] + 1)..changes
        BY <1>1, <1>2, <2>1, <3>1, <3>3
      <4> QED
        BY <1>1, <3>1, <4>1 DEF PresenceInv, Online!NothingElseMissed
    <3> QED
      BY <3>2, <3>3
  <2> QED
    BY <2>1 DEF Online!NothingElseMissed
<1> QED
  BY <1>7, <1>10, <1>11 DEF PresenceInv

LEMMA QueriesKeep ==
  ASSUME PresenceInv, NEW r \in Announcer, Online!Query(r) \/ Online!QueryFails(r)
  PROVE  PresenceInv'
<1>1. ChangesOK /\ announcing[r] \in Announcement /\ r \in Online!Announcing
      /\ announcing[r].no >= 1 /\ announcing[r].no \in 1..changes
  <2>1. ChangesOK /\ announcing[r] \in Announcement /\ r \in Online!Announcing
    BY DEF PresenceInv, ChangesOK, Online!Query, Online!QueryFails, Online!Announcing, Online!Idle
  <2>2. announcing[r].no >= 1 /\ announcing[r].no \in 0..changes
    BY <2>1 DEF PresenceInv, AnnouncedApart, Announcement
  <2> QED
    BY <2>1, <2>2, ChangesAreNat
<1>2. CASE Online!Query(r)
  <2> DEFINE y == [announcing[r] EXCEPT !.at = "emit"]
  <2>1. y \in Announcement /\ y.no = announcing[r].no /\ y.alone = announcing[r].alone /\ y.at = "emit"
    BY <1>1 DEF Announcement
  <2>2. y # Online!Idle
    BY <2>1 DEF Online!Idle
  <2>3. announcing' = [announcing EXCEPT ![r] = y]
        /\ UNCHANGED <<changes, room, view, missed, silent, crossed>>
    BY <1>2 DEF Online!Query
  <2> HIDE DEF y
  <2>4. /\ announcing' \in [Announcer -> Announcement] /\ announcing'[r] = y
        /\ \A q \in Announcer \ {r} : announcing'[q] = announcing[q]
    BY <1>1, <2>1, <2>3 DEF ChangesOK
  <2>5. Online!Announcing' = Online!Announcing
    BY <1>1, <2>2, <2>4 DEF Online!Announcing
  <2>6. \A q \in Online!Announcing : q \in Announcer /\ announcing'[q].no = announcing[q].no
          /\ announcing'[q].alone = announcing[q].alone
    BY <2>1, <2>4 DEF Online!Announcing
  <2>7. ChangesOK' /\ AnnouncedApart'
    BY <1>1, <2>3, <2>4, <2>5, <2>6 DEF PresenceInv, ChangesOK, Announcement, AnnouncedApart
  <2>8. Online!NothingElseMissed'
    <3>1. Online!Listed' = Online!Listed
      BY <2>3 DEF Online!Listed
    <3> QED
      BY <2>3, <2>5, <2>6, <3>1 DEF PresenceInv, Online!NothingElseMissed
  <2> QED
    BY <2>7, <2>8 DEF PresenceInv
<1>3. CASE Online!QueryFails(r)
  <2>1. /\ announcing' = [announcing EXCEPT ![r] = Online!Idle]
        /\ silent' = silent \cup {announcing[r].no}
        /\ UNCHANGED <<changes, room, view, missed, crossed>>
    BY <1>3 DEF Online!QueryFails, Online!Answer
  <2>2. Online!Idle \in Announcement
    BY <1>1, ChangesAreNat DEF Online!Idle, Announcement
  <2>3. /\ announcing' \in [Announcer -> Announcement] /\ announcing'[r] = Online!Idle
        /\ \A q \in Announcer \ {r} : announcing'[q] = announcing[q]
    BY <1>1, <2>1, <2>2 DEF ChangesOK
  <2>4. Online!Announcing' = Online!Announcing \ {r}
    BY <2>3 DEF Online!Announcing
  <2>5. \A q \in Online!Announcing \ {r} : announcing'[q] = announcing[q]
    BY <2>3 DEF Online!Announcing
  <2>6. ChangesOK' /\ AnnouncedApart'
    <3>1. ChangesOK'
      BY <1>1, <2>1, <2>3 DEF ChangesOK, Announcement
    <3>2. AnnouncedApart'
      BY <2>1, <2>4, <2>5 DEF PresenceInv, AnnouncedApart
    <3> QED
      BY <3>1, <3>2
  <2>7. Online!NothingElseMissed'
    <3>1. Online!Listed' = Online!Listed
      BY <2>1 DEF Online!Listed
    <3> QED
      BY <2>1, <2>4, <2>5, <3>1 DEF PresenceInv, Online!NothingElseMissed
  <2> QED
    BY <2>6, <2>7 DEF PresenceInv
<1> QED
  BY <1>2, <1>3

LEMMA AnnouncementKeeps ==
  ASSUME PresenceInv, NEW r \in Announcer, Online!Emit(r)
  PROVE  PresenceInv'
<1> DEFINE no == announcing[r].no
<1>1. ChangesOK /\ announcing[r] \in Announcement /\ r \in Online!Announcing
      /\ Online!Idle \in Announcement
  BY ChangesAreNat DEF PresenceInv, ChangesOK, Online!Emit, Online!Announcing, Online!Idle, Announcement
<1>2. no \in 1..changes /\ no \in 0..changes
  <2>1. no >= 1 /\ no \in 0..changes
    BY <1>1 DEF PresenceInv, AnnouncedApart, Announcement
  <2> QED
    BY <1>1, <2>1, ChangesAreNat
<1>3. PICK heard \in SUBSET (room \cap Online!Listed) :
        /\ view' = [l \in Listener |-> IF l \in heard THEN no ELSE view[l]]
        /\ missed' = [l \in Listener |->
             IF l \in Online!Listed \ heard THEN missed[l] \cup {no} ELSE missed[l]]
        /\ crossed' = (IF announcing[r].alone THEN crossed \ heard ELSE crossed)
  BY DEF Online!Emit
<1>4. announcing' = [announcing EXCEPT ![r] = Online!Idle] /\ UNCHANGED <<changes, room, silent>>
  BY DEF Online!Emit, Online!Answer
<1>5. /\ announcing' \in [Announcer -> Announcement] /\ announcing'[r] = Online!Idle
      /\ \A q \in Announcer \ {r} : announcing'[q] = announcing[q]
  BY <1>1, <1>4 DEF ChangesOK
<1>6. Online!Announcing' = Online!Announcing \ {r}
      /\ \A q \in Online!Announcing \ {r} : announcing'[q] = announcing[q]
  BY <1>5 DEF Online!Announcing
<1> HIDE DEF no
<1>7. ChangesOK'
  <2>1. view' \in [Listener -> 0..changes] /\ missed' \in [Listener -> SUBSET (1..changes)]
    BY <1>1, <1>2, <1>3 DEF ChangesOK
  <2> QED
    BY <1>1, <1>3, <1>4, <1>5, <2>1 DEF ChangesOK, Announcement
<1>8. announcing[r].alone => Online!Announcing' = {}
  BY <1>1, <1>6 DEF PresenceInv, AnnouncedApart
<1>9. AnnouncedApart'
  BY <1>3, <1>4, <1>6, <1>8 DEF PresenceInv, AnnouncedApart
<1>10. Online!NothingElseMissed'
  <2>1. ASSUME NEW l \in Online!Listed', l \notin crossed', NEW n \in (view'[l] + 1)..changes
        PROVE  n \in missed'[l] \cup silent \/ \E q \in Online!Announcing' : announcing'[q].no = n
    <3>1. l \in Listener
      BY <2>1 DEF Online!Listed
    <3>2. CASE l \in heard
      <4>1. no = changes
        BY <1>1, <1>3, <2>1, <3>1, <3>2 DEF PresenceInv, AnnouncedApart, no
      <4>2. view'[l] = changes
        BY <1>3, <3>1, <3>2, <4>1
      <4> QED
        BY <1>1, <2>1, <4>2, ChangesAreNat
    <3>3. CASE l \notin heard
      <4>1. view'[l] = view[l] /\ l \in Online!Listed /\ l \notin crossed
        BY <1>3, <2>1, <3>1, <3>3 DEF Online!Listed
      <4>2. missed'[l] = missed[l] \cup {no}
        BY <1>3, <3>1, <3>3, <4>1
      <4>3. n \in missed[l] \cup silent \/ \E q \in Online!Announcing : announcing[q].no = n
        BY <2>1, <4>1 DEF PresenceInv, Online!NothingElseMissed
      <4> QED
        BY <1>6, <4>2, <4>3 DEF no
    <3> QED
      BY <3>2, <3>3
  <2> QED
    BY <1>4, <2>1 DEF Online!NothingElseMissed
<1> QED
  BY <1>7, <1>9, <1>10 DEF PresenceInv

LEMMA ListenersKeep ==
  ASSUME PresenceInv, NEW l \in Listener,
         Online!GetMembers(l) \/ Online!SetServer(l) \/ Online!LeaveServer(l)
  PROVE  PresenceInv'
<1>1. ChangesOK /\ UNCHANGED <<changes, announcing, silent>> /\ Online!Announcing' = Online!Announcing
  BY DEF PresenceInv, Online!GetMembers, Online!SetServer, Online!LeaveServer, Online!Announcing
<1>2. changes \in Nat /\ changes \in 0..changes /\ 0 \in 0..changes
  BY <1>1, ChangesAreNat
<1>3. \/ crossed' = crossed
      \/ crossed' = crossed \ {l} /\ Online!Announcing = {}
  BY DEF Online!GetMembers, Online!SetServer, Online!LeaveServer
<1>4. /\ view' \in [Listener -> 0..changes] /\ missed' \in [Listener -> SUBSET (1..changes)]
      /\ room' \subseteq Listener
      /\ \A k \in Listener \ {l} : view'[k] = view[k] /\ missed'[k] = missed[k]
      /\ \/ view'[l] = changes
         \/ view'[l] = 0
         \/ view'[l] = view[l] /\ missed'[l] = missed[l] /\ crossed' = crossed
  BY <1>1, <1>2 DEF ChangesOK, Online!GetMembers, Online!SetServer, Online!LeaveServer, Online!NoList
<1>5. ChangesOK'
  BY <1>1, <1>3, <1>4 DEF ChangesOK, Announcement
<1>6. AnnouncedApart'
  BY <1>1, <1>3 DEF PresenceInv, AnnouncedApart
<1>7. Online!NothingElseMissed'
  <2>1. ASSUME NEW k \in Online!Listed', k \notin crossed', NEW n \in (view'[k] + 1)..changes
        PROVE  n \in missed'[k] \cup silent \/ \E q \in Online!Announcing : announcing[q].no = n
    <3>1. k \in Listener /\ view'[k] # 0
      BY <2>1 DEF Online!Listed, Online!NoList
    <3>2. view'[k] # changes
      BY <1>2, <2>1
    <3>3. view'[k] = view[k] /\ missed'[k] = missed[k] /\ k \notin crossed
      BY <1>3, <1>4, <2>1, <3>1, <3>2
    <3>4. k \in Online!Listed
      BY <3>1, <3>3 DEF Online!Listed, Online!NoList
    <3> QED
      BY <2>1, <3>3, <3>4 DEF PresenceInv, Online!NothingElseMissed
  <2> QED
    BY <1>1, <2>1 DEF Online!NothingElseMissed
<1> QED
  BY <1>5, <1>6, <1>7 DEF PresenceInv

LEMMA PresenceInit == ASSUME Online!Init PROVE PresenceInv
<1>1. ChangesOK
  <2>1. changes = 1 /\ 1 \in 1..MaxChanges /\ 0 \in 0..1
    BY BoundsAssumption DEF Online!Init
  <2> QED
    BY <2>1 DEF Online!Init, ChangesOK, Announcement, Online!Idle, Online!NoList
<1>2. Online!Announcing = {} /\ Online!Listed = {}
  BY DEF Online!Init, Online!Announcing, Online!Listed
<1> QED
  BY <1>1, <1>2 DEF PresenceInv, AnnouncedApart, Online!NothingElseMissed

LEMMA PresenceNext == ASSUME PresenceInv, [Online!Next]_(Online!vars) PROVE PresenceInv'
<1>1. CASE UNCHANGED Online!vars
  BY <1>1 DEF Online!vars, PresenceInv, ChangesOK, Announcement, AnnouncedApart, Online!Announcing,
              Online!NothingElseMissed, Online!Listed
<1>2. CASE Online!Next
  BY <1>2, BeginKeeps, QueriesKeep, AnnouncementKeeps, ListenersKeep DEF Online!Next
<1> QED
  BY <1>1, <1>2

LEMMA PresenceInvSuffices == ASSUME PresenceInv PROVE PresenceFollowed
<1>1. Online!TypeOK
  <2>1. changes \in 0..MaxChanges
    BY ChangesAreNat DEF PresenceInv
  <2>2. \A q, r \in Online!Announcing : q # r => announcing[q].no # announcing[r].no
    BY DEF PresenceInv, AnnouncedApart
  <2> QED
    BY <2>1, <2>2 DEF PresenceInv, ChangesOK, Announcement, Online!TypeOK
<1>2. Online!PresenceConverges
  <2>1. ASSUME NEW l \in Online!Listed \ crossed, Online!Announcing = {},
               changes \notin missed[l] \cup silent
        PROVE  view[l] = changes
    <3>1. view[l] \in 0..changes /\ changes \in Nat
      BY <2>1, ChangesAreNat DEF PresenceInv, ChangesOK, Online!Listed
    <3>2. changes \notin (view[l] + 1)..changes
      BY <2>1 DEF PresenceInv, Online!NothingElseMissed
    <3> QED
      BY <3>1, <3>2
  <2> QED
    BY <2>1 DEF Online!PresenceConverges, Online!Online
<1> QED
  BY <1>1, <1>2 DEF PresenceInv, PresenceFollowed

(***************************************************************************)
(* Typing: the inductive invariant                                         *)
(***************************************************************************)
Report == [action : Types!Action, alone : BOOLEAN, told : BOOLEAN]
Numbers == 0 .. Len(reports)
Reporting == [at : {"idle", "name", "begin", "emit"}, no : Numbers, left : SUBSET listening]

ReportsOK ==
  /\ reports \in Seq(Report) /\ Len(reports) <= MaxReports
  /\ reporting \in [Reporter -> Reporting]
  /\ listening \subseteq Listener /\ excused \subseteq listening
  /\ since \in [Listener -> Numbers]
  /\ told \in [Listener -> Numbers]

ReporterOK(x) ==
  /\ x.at = "idle" => x = Types!Idle
  /\ x.at # "idle" => x.no >= 1
  /\ x.at # "emit" => x.left = {}

(* While a report that was alone is handled, no other is, and once it was, *)
(* nothing older is.                                                       *)
AloneHandledAlone ==
  \A n \in DOMAIN reports, q \in Types!Busy : reports[n].alone =>
    /\ reporting[q].no >= n
    /\ reporting[q].no = n => Types!Busy = {q}

(* Its emission has told those that it has visited.                        *)
VisitedAreTold ==
  \A q \in Reporter : reporting[q].at = "emit" /\ reports[reporting[q].no].alone =>
    \A l \in listening \ (excused \cup reporting[q].left) : told[l] = reporting[q].no

OthersShowNothing == \A l \in Listener \ listening : told[l] = 0

TypingInv ==
  /\ ReportsOK /\ \A r \in Reporter : ReporterOK(reporting[r])
  /\ AloneHandledAlone /\ VisitedAreTold /\ OthersShowNothing /\ Types!TypingSettles

(***************************************************************************)
(* Typing: its steps                                                       *)
(***************************************************************************)
LEMMA NumbersFacts ==
  ASSUME ReportsOK
  PROVE  /\ Len(reports) \in Nat /\ DOMAIN reports = 1 .. Len(reports)
         /\ \A n \in DOMAIN reports : reports[n] \in Report
         /\ 0 \in Numbers /\ DOMAIN reports \subseteq Numbers
<1>1. Len(reports) \in Nat /\ DOMAIN reports = 1 .. Len(reports)
      /\ \A n \in 1 .. Len(reports) : reports[n] \in Report
  BY LenProperties, ElementOfSeq DEF ReportsOK
<1> QED
  BY <1>1 DEF Numbers

LEMMA BusyFacts ==
  ASSUME TypingInv, NEW q \in Types!Busy
  PROVE  /\ q \in Reporter /\ reporting[q] \in Reporting /\ reporting[q].at # "idle"
         /\ reporting[q].no \in DOMAIN reports
<1>1. q \in Reporter /\ reporting[q] \in Reporting /\ reporting[q].at # "idle"
  BY DEF TypingInv, ReportsOK, ReporterOK, Types!Busy
<1>2. reporting[q].no >= 1 /\ reporting[q].no \in 0 .. Len(reports)
  BY <1>1 DEF TypingInv, ReporterOK, Reporting, Numbers
<1> QED
  BY <1>1, <1>2, NumbersFacts DEF TypingInv

LEMMA IdleReporter ==
  ASSUME ReportsOK
  PROVE  Types!Idle \in Reporting /\ ReporterOK(Types!Idle) /\ Types!Idle.at = "idle"
BY NumbersFacts DEF Types!Idle, Reporting, ReporterOK

(* A new report.                                                           *)
LEMMA TypingKeeps ==
  ASSUME TypingInv, NEW r \in Reporter, NEW action \in Types!Action, Types!Typing(r, action)
  PROVE  TypingInv'
<1> DEFINE k == Len(reports) + 1
           new == [action |-> action, alone |-> Types!Busy = {}, told |-> FALSE]
           old(n) == [reports[n] EXCEPT !.alone = @ /\ \A q \in Types!Busy : reporting[q].no # n]
           y == [at |-> IF action = "start" THEN "name" ELSE "begin", no |-> k, left |-> {}]
<1>1. /\ ReportsOK /\ reporting[r] = Types!Idle /\ Len(reports) < MaxReports
      /\ reports' = [n \in 1 .. k |-> IF n = k THEN new ELSE old(n)]
      /\ reporting' = [reporting EXCEPT ![r] = y]
      /\ UNCHANGED <<listening, since, told, excused>>
  BY DEF TypingInv, Types!Typing
<1>2. Len(reports) \in Nat /\ k \in Nat /\ DOMAIN reports = 1 .. Len(reports)
      /\ \A n \in 1 .. Len(reports) : n \in 1 .. k /\ n # k /\ reports[n] \in Report
  BY <1>1, NumbersFacts
<1>3. new \in Report /\ new.told = FALSE /\ (new.alone => Types!Busy = {})
  BY DEF Report
<1>4. ASSUME NEW n \in 1 .. Len(reports)
      PROVE  /\ old(n) \in Report /\ old(n).told = reports[n].told
             /\ old(n).alone => reports[n].alone /\ \A q \in Types!Busy : reporting[q].no # n
  BY <1>2 DEF Report
<1>5. y.no = k /\ y.left = {} /\ y.at \in {"name", "begin"} /\ y # Types!Idle
  BY <1>2 DEF Types!Idle
<1> HIDE DEF new, old, y
<1>6. reports' \in [1 .. k -> Report]
  BY <1>1, <1>2, <1>3, <1>4
<1>7. reports' \in Seq(Report) /\ Len(reports') = k /\ DOMAIN reports' = 1 .. k
  <2> HIDE DEF k
  <2> QED
    BY <1>2, <1>6, SMT
<1>8. reports'[k] = new /\ \A n \in 1 .. Len(reports) : reports'[n] = old(n)
  BY <1>1, <1>2
<1>9. Numbers \subseteq Numbers' /\ k \in Numbers' /\ Numbers' = 0 .. k
  BY <1>2, <1>7 DEF Numbers
<1>10. /\ Reporting \subseteq Reporting' /\ y \in Reporting'
  <2>1. Reporting \subseteq Reporting'
    BY <1>1, <1>9 DEF Reporting
  <2>2. y \in Reporting'
    BY <1>1, <1>9 DEF Reporting, y
  <2> QED
    BY <2>1, <2>2
<1>11. /\ reporting' \in [Reporter -> Reporting'] /\ reporting'[r] = y
       /\ \A q \in Reporter \ {r} : reporting'[q] = reporting[q]
  BY <1>1, <1>10 DEF ReportsOK
<1>12. ReportsOK'
  <2>1. Len(reports') <= MaxReports
    BY <1>1, <1>2, <1>7, BoundsAssumption
  <2> QED
    BY <1>1, <1>7, <1>9, <1>11, <2>1 DEF ReportsOK
<1>13. \A q \in Reporter : ReporterOK(reporting[q])'
  BY <1>2, <1>5, <1>11 DEF TypingInv, ReporterOK
<1>14. Types!Busy' = Types!Busy \cup {r} /\ r \notin Types!Busy
  BY <1>1, <1>5, <1>11 DEF Types!Busy
<1>15. \A q \in Types!Busy : q # r /\ reporting'[q] = reporting[q] /\ reporting[q].no \in 1 .. Len(reports)
  BY <1>2, <1>11, <1>14, BusyFacts
<1>16. AloneHandledAlone'
  <2>1. ASSUME NEW n \in 1 .. k, NEW q \in Types!Busy', reports'[n].alone
        PROVE  /\ reporting'[q].no >= n
               /\ reporting'[q].no = n => Types!Busy' = {q}
    <3>1. CASE n = k
      <4>1. Types!Busy = {} /\ q = r
        BY <1>3, <1>8, <1>14, <2>1, <3>1
      <4> QED
        BY <1>2, <1>5, <1>11, <1>14, <3>1, <4>1
    <3>2. CASE n # k
      <4>1. n \in 1 .. Len(reports)
        BY <1>2, <2>1, <3>2
      <4>2. reports[n].alone /\ \A p \in Types!Busy : reporting[p].no # n
        BY <1>4, <1>8, <2>1, <4>1
      <4>3. CASE q = r
        BY <1>2, <1>5, <1>11, <4>1, <4>3
      <4>4. CASE q \in Types!Busy
        BY <1>2, <1>15, <4>1, <4>2, <4>4 DEF TypingInv, AloneHandledAlone
      <4> QED
        BY <1>14, <2>1, <4>3, <4>4
    <3> QED
      BY <3>1, <3>2
  <2> QED
    BY <1>7, <2>1 DEF AloneHandledAlone
<1>17. VisitedAreTold'
  <2>1. ASSUME NEW q \in Reporter, reporting'[q].at = "emit"
        PROVE  /\ reporting'[q] = reporting[q] /\ reporting[q].no \in 1 .. Len(reports)
               /\ reports'[reporting[q].no].alone => reports[reporting[q].no].alone
    <3>1. q # r /\ reporting'[q] = reporting[q]
      BY <1>5, <1>11, <2>1
    <3>2. q \in Types!Busy
      BY <2>1, <3>1 DEF Types!Busy, Types!Idle
    <3> QED
      BY <1>4, <1>8, <1>15, <3>1, <3>2
  <2> QED
    BY <1>1, <2>1 DEF TypingInv, VisitedAreTold
<1>18. OthersShowNothing'
  BY <1>1 DEF TypingInv, OthersShowNothing
<1>19. Types!TypingSettles'
  <2>1. ASSUME NEW n \in 1 .. k, NEW l \in listening \ excused,
               reports'[n].alone, reports'[n].told, told[l] < n
        PROVE  told[l] = Types!Nothing /\ n <= since[l]
    <3>1. n # k
      BY <1>3, <1>8, <2>1
    <3>2. n \in 1 .. Len(reports)
      BY <1>2, <2>1, <3>1
    <3>3. reports[n].alone /\ reports[n].told
      BY <1>4, <1>8, <2>1, <3>2
    <3> QED
      BY <1>2, <2>1, <3>2, <3>3 DEF TypingInv, Types!TypingSettles
  <2> QED
    BY <1>1, <1>7, <2>1 DEF Types!TypingSettles, Types!Nothing
<1> QED
  BY <1>12, <1>13, <1>16, <1>17, <1>18, <1>19 DEF TypingInv

(* A request moves on, or ends, and leaves the reports alone; it has told  *)
(* whom it has visited, and only when nobody older is left to be told.     *)
LEMMA ReporterMoves ==
  ASSUME TypingInv, NEW r \in Types!Busy, NEW y \in Reporting, ReporterOK(y),
         reporting' = [reporting EXCEPT ![r] = y], UNCHANGED <<reports, listening, since>>,
         excused' \subseteq listening, excused \subseteq excused',
         told' \in [Listener -> Numbers],
         y = Types!Idle \/ (y.at # "idle" /\ y.no = reporting[r].no),
         \A l \in Listener : told'[l] = told[l] \/ (l \in listening /\ told'[l] = reporting[r].no),
         y.at = "emit" =>
           \A l \in listening \ (excused' \cup y.left) : told'[l] = y.no \/
             (reporting[r].at = "emit" /\ l \notin reporting[r].left /\ told'[l] = told[l])
  PROVE  TypingInv'
<1>1. /\ ReportsOK /\ r \in Reporter /\ reporting[r].at # "idle"
      /\ reporting[r].no \in DOMAIN reports
  BY BusyFacts DEF TypingInv
<1>2. /\ reporting' \in [Reporter -> Reporting] /\ reporting'[r] = y
      /\ \A q \in Reporter \ {r} : reporting'[q] = reporting[q]
  BY <1>1 DEF ReportsOK
<1>3. ReportsOK'
  BY <1>1, <1>2 DEF ReportsOK, Numbers, Reporting
<1>4. \A q \in Reporter : ReporterOK(reporting[q])'
  BY <1>2 DEF TypingInv, ReporterOK
<1>5. Types!Busy' \subseteq Types!Busy /\ \A q \in Types!Busy' : reporting'[q].no = reporting[q].no
  <2>1. \A q \in Types!Busy' : q \in Types!Busy /\ (q = r => y # Types!Idle)
    BY <1>2 DEF Types!Busy
  <2>2. Types!Busy' \subseteq Reporter
    BY DEF Types!Busy
  <2> QED
    BY <1>2, <2>1, <2>2
<1>6. AloneHandledAlone'
  <2>1. ASSUME NEW n \in DOMAIN reports, NEW q \in Types!Busy', reports[n].alone
        PROVE  /\ reporting'[q].no >= n
               /\ reporting'[q].no = n => Types!Busy' = {q}
    BY <1>5, <2>1 DEF TypingInv, AloneHandledAlone
  <2> QED
    BY <2>1 DEF AloneHandledAlone
<1>7. VisitedAreTold'
  <2>1. ASSUME NEW q \in Reporter, reporting'[q].at = "emit", reports[reporting'[q].no].alone,
               NEW l \in listening \ (excused' \cup reporting'[q].left)
        PROVE  told'[l] = reporting'[q].no
    <3>1. CASE q = r
      <4>1. y.no = reporting[r].no /\ y.at = "emit" /\ l \notin excused
        BY <1>2, <2>1, <3>1 DEF Types!Idle
      <4>2. reporting[r].at = "emit" /\ l \notin reporting[r].left => told[l] = reporting[r].no
        BY <1>1, <1>2, <2>1, <3>1, <4>1 DEF TypingInv, VisitedAreTold
      <4> QED
        BY <1>2, <2>1, <3>1, <4>1, <4>2
    <3>2. CASE q # r
      <4>1. reporting'[q] = reporting[q] /\ q \in Types!Busy
        BY <1>2, <2>1, <3>2 DEF Types!Busy, Types!Idle
      <4>2. reporting[q].no \in DOMAIN reports
        BY <4>1, BusyFacts
      <4>3. Types!Busy = {q}
        BY <2>1, <4>1, <4>2 DEF TypingInv, AloneHandledAlone
      <4> QED
        BY <3>2, <4>3
    <3> QED
      BY <3>1, <3>2
  <2> QED
    BY <2>1 DEF VisitedAreTold
<1>8. OthersShowNothing'
  BY DEF TypingInv, OthersShowNothing
<1>9. Types!TypingSettles'
  <2>1. ASSUME NEW n \in DOMAIN reports, NEW l \in listening \ excused',
               reports[n].alone, reports[n].told, told'[l] < n
        PROVE  told'[l] = Types!Nothing /\ n <= since[l]
    <3>1. l \in Listener /\ l \in listening \ excused
      BY <1>1, <2>1 DEF ReportsOK
    <3>2. CASE told'[l] = told[l]
      BY <2>1, <3>1, <3>2 DEF TypingInv, Types!TypingSettles
    <3>3. CASE told'[l] = reporting[r].no
      <4>1. reporting[r].no >= n /\ reporting[r].no \in Nat /\ n \in Nat
        BY <1>1, <2>1, NumbersFacts DEF TypingInv, AloneHandledAlone
      <4> QED
        BY <2>1, <3>3, <4>1
    <3> QED
      BY <3>1, <3>2, <3>3
  <2> QED
    BY <2>1 DEF Types!TypingSettles
<1> QED
  BY <1>3, <1>4, <1>6, <1>7, <1>8, <1>9 DEF TypingInv

LEMMA HandlerKeeps ==
  ASSUME TypingInv, NEW r \in Reporter,
         Types!GetName(r) \/ Types!GetNameFails(r) \/ Types!BeginEmit(r)
  PROVE  TypingInv'
<1> DEFINE x == reporting[r]
<1>1. r \in Types!Busy
  BY DEF Types!GetName, Types!GetNameFails, Types!BeginEmit, Types!Busy, Types!Idle
<1>2. ReportsOK /\ x \in Reporting /\ ReporterOK(x) /\ x.no >= 1 /\ told \in [Listener -> Numbers]
      /\ excused \subseteq listening
  BY <1>1, BusyFacts DEF TypingInv, ReporterOK, ReportsOK
<1>3. UNCHANGED <<reports, listening, since, told, excused>>
  BY DEF Types!GetName, Types!GetNameFails, Types!BeginEmit
<1>4. CASE Types!GetName(r)
  <2> DEFINE y == [x EXCEPT !.at = "begin"]
  <2>1. y \in Reporting /\ y.at = "begin" /\ y.no = x.no /\ ReporterOK(y)
    BY <1>2, <1>4 DEF Reporting, ReporterOK, Types!GetName
  <2>2. reporting' = [reporting EXCEPT ![r] = y]
    BY <1>4 DEF Types!GetName
  <2> HIDE DEF y
  <2> QED
    BY <1>1, <1>2, <1>3, <2>1, <2>2, ReporterMoves
<1>5. CASE Types!GetNameFails(r)
  <2>1. reporting' = [reporting EXCEPT ![r] = Types!Idle]
    BY <1>5 DEF Types!GetNameFails, Types!Answer
  <2> QED
    BY <1>1, <1>2, <1>3, <2>1, IdleReporter, ReporterMoves
<1>6. CASE Types!BeginEmit(r)
  <2> DEFINE y == [x EXCEPT !.at = "emit", !.left = listening]
  <2>1. y \in Reporting /\ y.at = "emit" /\ y.no = x.no /\ y.left = listening
    BY <1>2 DEF Reporting
  <2>2. reporting' = [reporting EXCEPT ![r] = y]
    BY <1>6 DEF Types!BeginEmit
  <2>3. ReporterOK(y)
    BY <1>2, <2>1 DEF ReporterOK
  <2> HIDE DEF y
  <2> QED
    BY <1>1, <1>2, <1>3, <2>1, <2>2, <2>3, ReporterMoves
<1> QED
  BY <1>4, <1>5, <1>6

LEMMA SendTold ==
  ASSUME TypingInv, NEW r \in Reporter, NEW l \in Listener, Types!Send(r, l)
  PROVE  TypingInv'
<1> DEFINE x == reporting[r]
           y == [x EXCEPT !.left = @ \ {l}]
<1>1. r \in Types!Busy /\ x.at = "emit" /\ l \in x.left
  BY DEF Types!Send, Types!Busy, Types!Idle
<1>2. ReportsOK /\ x \in Reporting /\ ReporterOK(x) /\ l \in listening
  BY <1>1, BusyFacts DEF TypingInv, Reporting
<1>3. y \in Reporting /\ y.at = "emit" /\ y.no = x.no /\ y.left = x.left \ {l}
  BY <1>1, <1>2 DEF Reporting
<1>4. ReporterOK(y)
  BY <1>1, <1>2, <1>3 DEF ReporterOK
<1>5. reporting' = [reporting EXCEPT ![r] = y] /\ UNCHANGED <<reports, listening, since>>
      /\ \/ told' = [told EXCEPT ![l] = x.no] /\ excused' = excused
         \/ excused' = excused \cup {l} /\ told' = told
  BY DEF Types!Send
<1> HIDE DEF y
<1>6. /\ excused' \subseteq listening /\ excused \subseteq excused'
      /\ told' \in [Listener -> Numbers]
      /\ \A k \in Listener : told'[k] = told[k] \/ (k \in listening /\ told'[k] = x.no)
      /\ l \in excused' \/ told'[l] = x.no
      /\ \A k \in Listener \ {l} : told'[k] = told[k]
  BY <1>2, <1>5 DEF ReportsOK, Reporting
<1>7. \A k \in listening \ (excused' \cup y.left) :
        told'[k] = y.no \/ (x.at = "emit" /\ k \notin x.left /\ told'[k] = told[k])
  BY <1>1, <1>2, <1>3, <1>6 DEF ReportsOK
<1> QED
  BY <1>1, <1>3, <1>4, <1>5, <1>6, <1>7, ReporterMoves

(* Those who listened while the emission went on were told, or excused.    *)
LEMMA EndEmitKeeps ==
  ASSUME TypingInv, NEW r \in Reporter, Types!EndEmit(r)
  PROVE  TypingInv'
<1> DEFINE no == reporting[r].no
<1>1. r \in Types!Busy /\ reporting[r].at = "emit" /\ reporting[r].left = {}
  BY DEF Types!EndEmit, Types!Busy, Types!Idle
<1>2. /\ ReportsOK /\ no \in DOMAIN reports
  BY <1>1, BusyFacts DEF TypingInv
<1>3. /\ reports' = [reports EXCEPT ![no].told = TRUE]
      /\ reporting' = [reporting EXCEPT ![r] = Types!Idle]
      /\ UNCHANGED <<listening, since, told, excused>>
  BY DEF Types!EndEmit, Types!Answer
<1> HIDE DEF no
<1>4. Len(reports) \in Nat /\ DOMAIN reports = 1 .. Len(reports) /\ reports \in [1 .. Len(reports) -> Report]
      /\ no \in 1 .. Len(reports)
  BY <1>2, NumbersFacts, LenProperties DEF ReportsOK
<1>5. /\ reports' \in [1 .. Len(reports) -> Report]
      /\ \A n \in 1 .. Len(reports) : reports'[n].alone = reports[n].alone
      /\ \A n \in (1 .. Len(reports)) \ {no} : reports'[n].told = reports[n].told
  <2>1. [reports[no] EXCEPT !.told = TRUE] \in Report
        /\ [reports[no] EXCEPT !.told = TRUE].alone = reports[no].alone
    BY <1>4 DEF Report
  <2>2. reports' = [reports EXCEPT ![no] = [reports[no] EXCEPT !.told = TRUE]]
    BY <1>3
  <2> QED
    BY <1>4, <2>1, <2>2
<1>6. reports' \in Seq(Report) /\ Len(reports') = Len(reports) /\ DOMAIN reports' = 1 .. Len(reports)
  <2> DEFINE k == Len(reports)
  <2>1. k \in Nat /\ reports' \in [1 .. k -> Report]
    BY <1>4, <1>5
  <2> HIDE DEF k
  <2>2. reports' \in Seq(Report) /\ Len(reports') = k /\ DOMAIN reports' = 1 .. k
    BY <2>1, SMT
  <2> QED
    BY <2>2 DEF k
<1>7. Types!Idle \in Reporting /\ ReporterOK(Types!Idle)
  BY <1>2, IdleReporter
<1>8. /\ reporting' \in [Reporter -> Reporting] /\ reporting'[r] = Types!Idle
      /\ \A q \in Reporter \ {r} : reporting'[q] = reporting[q]
  BY <1>2, <1>3, <1>7 DEF ReportsOK
<1>9. Numbers' = Numbers
  BY <1>6 DEF Numbers
<1>10. ReportsOK'
  BY <1>2, <1>3, <1>6, <1>8, <1>9 DEF ReportsOK, Reporting
<1>11. \A q \in Reporter : ReporterOK(reporting[q])'
  BY <1>7, <1>8 DEF TypingInv, ReporterOK
<1>12. Types!Busy' = Types!Busy \ {r} /\ \A q \in Types!Busy \ {r} : reporting'[q] = reporting[q]
  BY <1>8 DEF Types!Busy
<1>13. AloneHandledAlone'
  <2>1. ASSUME NEW n \in 1 .. Len(reports), NEW q \in Types!Busy', reports[n].alone
        PROVE  /\ reporting'[q].no >= n
               /\ reporting'[q].no = n => Types!Busy' = {q}
    BY <1>4, <1>12, <2>1 DEF TypingInv, AloneHandledAlone
  <2> QED
    BY <1>5, <1>6, <2>1 DEF AloneHandledAlone
<1>14. VisitedAreTold'
  <2>1. ASSUME NEW q \in Reporter, reporting'[q].at = "emit"
        PROVE  /\ reporting'[q] = reporting[q] /\ reporting[q].no \in 1 .. Len(reports)
               /\ reports'[reporting[q].no].alone = reports[reporting[q].no].alone
    <3>1. q # r /\ reporting'[q] = reporting[q] /\ q \in Types!Busy
      BY <1>8, <2>1 DEF Types!Busy, Types!Idle
    <3>2. reporting[q].no \in 1 .. Len(reports)
      BY <1>4, <3>1, BusyFacts
    <3> QED
      BY <1>5, <3>1, <3>2
  <2> QED
    BY <1>3, <2>1 DEF TypingInv, VisitedAreTold
<1>15. OthersShowNothing'
  BY <1>3 DEF TypingInv, OthersShowNothing
<1>16. Types!TypingSettles'
  <2>1. ASSUME NEW n \in 1 .. Len(reports), NEW l \in listening \ excused,
               reports'[n].alone, reports'[n].told, told[l] < n
        PROVE  told[l] = Types!Nothing /\ n <= since[l]
    <3>1. reports[n].alone
      BY <1>5, <2>1
    <3>2. CASE n = no
      <4>1. told[l] = no
        BY <1>1, <2>1, <3>1, <3>2 DEF TypingInv, VisitedAreTold, no
      <4> QED
        BY <1>4, <2>1, <3>2, <4>1
    <3>3. CASE n # no
      BY <1>4, <1>5, <2>1, <3>1, <3>3 DEF TypingInv, Types!TypingSettles
    <3> QED
      BY <3>2, <3>3
  <2> QED
    BY <1>3, <1>6, <2>1 DEF Types!TypingSettles, Types!Nothing
<1> QED
  BY <1>10, <1>11, <1>13, <1>14, <1>15, <1>16 DEF TypingInv

(* Nobody comes or goes while an emission goes on.                         *)
LEMMA ComingAndGoingKeeps ==
  ASSUME TypingInv, NEW l \in Listener, Types!Enter(l) \/ Types!Leave(l)
  PROVE  TypingInv'
<1>1. ReportsOK /\ UNCHANGED <<reports, reporting>> /\ \A q \in Reporter : reporting[q].at # "emit"
  BY DEF TypingInv, Types!Enter, Types!Leave, Types!Unlocked
<1>2. \A q \in Reporter : reporting[q].left = {}
  BY <1>1 DEF TypingInv, ReporterOK
<1>3. 0 \in Numbers /\ Len(reports) \in Numbers /\ Len(reports) \in Nat
      /\ DOMAIN reports = 1 .. Len(reports)
  BY <1>1, NumbersFacts DEF Numbers
<1>4. /\ listening' \subseteq Listener /\ excused' \subseteq listening'
      /\ since' \in [Listener -> Numbers] /\ told' \in [Listener -> Numbers]
      /\ \A k \in Listener \ listening' : told'[k] = 0
      /\ \A k \in listening' \ excused' :
           \/ k \in listening \ excused /\ told'[k] = told[k] /\ since'[k] = since[k]
           \/ told'[k] = 0 /\ since'[k] = Len(reports)
  <2>1. CASE Types!Enter(l)
    <3>1. /\ l \notin listening /\ listening' = listening \cup {l}
          /\ since' = [since EXCEPT ![l] = Len(reports)] /\ told' = told /\ excused' = excused
      BY <2>1 DEF Types!Enter
    <3> QED
      BY <1>1, <1>3, <3>1 DEF TypingInv, ReportsOK, OthersShowNothing
  <2>2. CASE Types!Leave(l)
    <3>1. /\ l \in listening /\ listening' = listening \ {l} /\ since' = since
          /\ told' = [told EXCEPT ![l] = 0] /\ excused' = excused \ {l}
      BY <2>2 DEF Types!Leave, Types!Nothing
    <3> QED
      BY <1>1, <1>3, <3>1 DEF TypingInv, ReportsOK, OthersShowNothing
  <2> QED
    BY <2>1, <2>2
<1>5. ReportsOK'
  <2>1. \A q \in Reporter : reporting[q] \in Reporting'
    BY <1>1, <1>2 DEF ReportsOK, Reporting, Numbers
  <2> QED
    BY <1>1, <1>4, <2>1 DEF ReportsOK, Numbers
<1>6. \A q \in Reporter : ReporterOK(reporting[q])'
  BY <1>1 DEF TypingInv, ReporterOK
<1>7. AloneHandledAlone' /\ VisitedAreTold' /\ OthersShowNothing'
  BY <1>1, <1>4 DEF TypingInv, AloneHandledAlone, VisitedAreTold, OthersShowNothing, Types!Busy
<1>8. Types!TypingSettles'
  <2>1. ASSUME NEW n \in 1 .. Len(reports), NEW k \in listening' \ excused',
               reports[n].alone, reports[n].told, told'[k] < n
        PROVE  told'[k] = Types!Nothing /\ n <= since'[k]
    <3>1. CASE k \in listening \ excused /\ told'[k] = told[k] /\ since'[k] = since[k]
      BY <1>3, <2>1, <3>1 DEF TypingInv, Types!TypingSettles
    <3>2. CASE told'[k] = 0 /\ since'[k] = Len(reports)
      BY <1>3, <2>1, <3>2 DEF Types!Nothing
    <3> QED
      BY <1>4, <2>1, <3>1, <3>2
  <2> QED
    BY <1>1, <1>3, <2>1 DEF Types!TypingSettles, Types!Nothing
<1> QED
  BY <1>5, <1>6, <1>7, <1>8 DEF TypingInv

LEMMA TypingInit == ASSUME Types!Init PROVE TypingInv
<1>1. reports = <<>> /\ Len(reports) = 0 /\ reports \in Seq(Report) /\ DOMAIN reports = {}
  BY EmptySeq DEF Types!Init
<1>2. /\ Types!Idle \in Reporting /\ ReporterOK(Types!Idle) /\ Types!Idle.at = "idle"
      /\ \A r \in Reporter : reporting[r] = Types!Idle
  BY <1>1 DEF Types!Init, Types!Idle, Reporting, Numbers, ReporterOK
<1>3. ReportsOK
  <2>1. 0 <= MaxReports /\ 0 \in Numbers
    BY <1>1, BoundsAssumption DEF Numbers
  <2> QED
    BY <1>1, <1>2, <2>1 DEF Types!Init, ReportsOK, Types!Nothing
<1> QED
  BY <1>1, <1>2, <1>3 DEF Types!Init, TypingInv, AloneHandledAlone, VisitedAreTold,
                          OthersShowNothing, Types!TypingSettles, Types!Nothing

LEMMA TypingNext == ASSUME TypingInv, [Types!Next]_(Types!vars) PROVE TypingInv'
<1>1. CASE UNCHANGED Types!vars
  BY <1>1 DEF Types!vars, TypingInv, ReportsOK, Numbers, Reporting, ReporterOK, AloneHandledAlone,
              VisitedAreTold, OthersShowNothing, Types!TypingSettles, Types!Busy
<1>2. CASE Types!Next
  BY <1>2, TypingKeeps, HandlerKeeps, SendTold, EndEmitKeeps, ComingAndGoingKeeps DEF Types!Next
<1> QED
  BY <1>1, <1>2

LEMMA TypingInvSuffices == ASSUME TypingInv PROVE TypingSettles
<1>1. Types!TypeOK
  BY NumbersFacts DEF TypingInv, ReportsOK, Report, Numbers, Reporting, Types!TypeOK
<1> QED
  BY <1>1 DEF TypingInv, TypingSettles

(***************************************************************************)
(* EventStream: the inductive invariant                                    *)
(***************************************************************************)
Symbol ==
  NameSymbol \cup {"x", "nl", "event_field", "data_field",
   "unnamed", "typing", "user_info", "user_id", "session_id"}

EventName == {"unnamed", "typing", "user_info", "user_id", "session_id"}

(* An event that may be put into text.                                     *)
Sendable(e) ==
  /\ e = [event |-> e.event, data |-> e.data]
  /\ e.event \in EventName /\ e.data \in Seq(Symbol)
  /\ e.data # <<>> /\ e.data[1] = "x" /\ e.data[Len(e.data)] # "nl"

(* What the parser can be, and what it can make.                           *)
Made == [event : Symbol, data : Seq(Symbol)]

Parser ==
  [field : {"blank", "event_field", "data_field", "ignored"}, event : Symbol, data : Seq(Symbol),
   made : Seq(Made)]

(* No line break in the first j symbols of the data of e.                  *)
Unbroken(e, j) == \A i \in 1 .. j : e.data[i] # "nl"

(* Of an event with several lines the client has the first, or delivered it*)
HasFirstLine(e, c) ==
  \/ /\ Stream!FirstLine(e).data # <<>>
     /\ c.event = e.event /\ c.data = Stream!FirstLine(e).data /\ c.made = <<>>
  \/ c.event = "unnamed" /\ c.data = <<>> /\ c.made = <<Stream!FirstLine(e)>>

(* The parser after the first j symbols of the data of e.                  *)
InData(e, j, c) ==
  /\ c.field = "blank" <=> j > 0 /\ e.data[j] = "nl"
  /\ Unbroken(e, j) =>
       c = [field |-> "data_field", event |-> e.event, data |-> SubSeq(e.data, 1, j),
            made |-> <<>>]
  /\ ~Unbroken(e, j) /\ Stream!Plain(e) => c.field \in {"blank", "ignored"} /\ HasFirstLine(e, c)

(* The symbols of the text of e that come before its data.                 *)
Header(e) == IF e.event = "unnamed" THEN 1 ELSE 4

(* t is the text of e: h symbols, m of data, and a blank line.             *)
Layout(e, t, h, m) ==
  /\ t \in Seq(Symbol) /\ m \in Nat /\ m >= 1 /\ Len(t) = h + m + 2
  /\ \/ h = 4 /\ t[1] = "event_field" /\ t[2] = e.event /\ t[3] = "nl" /\ e.event # "unnamed"
     \/ h = 1 /\ e.event = "unnamed"
  /\ t[h] = "data_field" /\ \A j \in 1 .. m : t[h + j] = e.data[j]
  /\ t[h + m + 1] = "nl" /\ t[h + m + 2] = "nl"

(* The parser after the first k symbols of the text of e.                  *)
Parsing(e, k, c) ==
  LET h == Header(e)   m == Len(e.data) IN
  /\ k = 0 => c = Stream!Begin
  /\ k > 0 /\ k < h =>
       c = [field |-> IF k = 3 THEN "blank" ELSE "event_field",
            event |-> IF k = 1 THEN "unnamed" ELSE e.event,
            data |-> <<>>, made |-> <<>>]
  /\ k >= h /\ k <= h + m => InData(e, k - h, c)
  /\ k > h + m => c.field = "blank" /\ (Stream!Plain(e) => HasFirstLine(e, c))

Events == Stream!Greeting \o emitted

(* The bus holds the last of the events put on it.                         *)
BusOK ==
  /\ eventBus \in Seq(Seq(Symbol)) /\ Len(eventBus) <= Len(emitted) /\ Len(eventBus) <= Capacity
  /\ greeting # <<>> => Len(eventBus) = Len(emitted)
  /\ \A i \in 1 .. Len(eventBus) :
       eventBus[i] = Stream!Encode(emitted[Len(emitted) - Len(eventBus) + i])

(* On the wire are the texts that come after those received.               *)
WireOK ==
  /\ wire \in Seq(Seq(Symbol)) /\ received \in Seq(Seq(Made))
  /\ \A i \in 1 .. Len(wire) : wire[i] = Stream!Encode(Events[Len(received) + i])

ClientOK ==
  /\ client \in Parser /\ arrived \in Nat
  /\ wire = <<>> => arrived = 0
  /\ arrived = 0 => client = Stream!Begin
  /\ wire # <<>> =>
       arrived < Len(wire[1]) /\ Parsing(Events[Len(received) + 1], arrived, client)

ReceivedOK ==
  \A i \in 1 .. Len(received) :
    Stream!Plain(Events[i]) => received[i] = <<Stream!FirstLine(Events[i])>>

StreamInv ==
  /\ greeting \in {Stream!Greeting, Tail(Stream!Greeting), <<>>} /\ open \in BOOLEAN
  /\ emitted \in Seq(Stream!Event) /\ Len(emitted) <= MaxEvents
  /\ BusOK /\ WireOK /\ ClientOK /\ ReceivedOK /\ Stream!NothingLost

(***************************************************************************)
(* EventStream: texts                                                      *)
(***************************************************************************)
LEMMA Short ==
  ASSUME NEW S, NEW x \in S, NEW y \in S, NEW z \in S
  PROVE  /\ <<x>> \in Seq(S) /\ Len(<<x>>) = 1 /\ <<x>>[1] = x
         /\ <<x, y>> \in Seq(S) /\ Len(<<x, y>>) = 2 /\ <<x, y>>[1] = x /\ <<x, y>>[2] = y
         /\ <<x, y, z>> \in Seq(S) /\ Len(<<x, y, z>>) = 3
         /\ <<x, y, z>>[1] = x /\ <<x, y, z>>[2] = y /\ <<x, y, z>>[3] = z
<1>1. <<x>> \in Seq(S) /\ Len(<<x>>) = 1 /\ <<x>>[1] = x
  OBVIOUS
<1>2. <<x, y>> \in Seq(S) /\ Len(<<x, y>>) = 2 /\ <<x, y>>[1] = x /\ <<x, y>>[2] = y
  OBVIOUS
<1>3. /\ <<x, y, z>> \in Seq(S) /\ Len(<<x, y, z>>) = 3
      /\ <<x, y, z>>[1] = x /\ <<x, y, z>>[2] = y /\ <<x, y, z>>[3] = z
  OBVIOUS
<1> QED
  BY <1>1, <1>2, <1>3

LEMMA Joined ==
  ASSUME NEW S, NEW left \in Seq(S), NEW right \in Seq(S)
  PROVE  /\ left \o right \in Seq(S) /\ Len(left \o right) = Len(left) + Len(right)
         /\ Len(left) \in Nat /\ Len(right) \in Nat
         /\ \A i \in 1 .. Len(left) : (left \o right)[i] = left[i]
         /\ \A j \in 1 .. Len(right) : (left \o right)[Len(left) + j] = right[j]
<1>1. Len(left) \in Nat /\ Len(right) \in Nat
  OBVIOUS
<1>2. /\ left \o right \in Seq(S) /\ Len(left \o right) = Len(left) + Len(right)
      /\ \A i \in 1 .. Len(left) + Len(right) : (left \o right)[i] = IF i <= Len(left) THEN left[i] ELSE right[i - Len(left)]
  BY ConcatProperties
<1> DEFINE both == left \o right
<1> HIDE DEF both
<1>3. \A i \in 1 .. Len(left) : both[i] = left[i]
  BY <1>1, <1>2 DEF both
<1>4. ASSUME NEW j \in 1 .. Len(right) PROVE both[Len(left) + j] = right[j]
  <2>1. Len(left) + j \in 1 .. Len(left) + Len(right) /\ ~(Len(left) + j <= Len(left)) /\ (Len(left) + j) - Len(left) = j
    BY <1>1
  <2> QED
    BY <1>2, <2>1 DEF both
<1> QED
  BY <1>1, <1>2, <1>3, <1>4 DEF both

LEMMA Symbols ==
  /\ {"x", "nl", "event_field", "data_field", "unnamed"} \subseteq Symbol /\ EventName \subseteq Symbol /\ NameSymbol \subseteq Symbol
BY DEF Symbol, EventName

(* For the provers, which take a concatenation apart by itself too soon.   *)
Joining(both, left, right) == both = left \o right

LEMMA Joins ==
  ASSUME NEW S, NEW left \in Seq(S), NEW right \in Seq(S), NEW both, Joining(both, left, right)
  PROVE  /\ both \in Seq(S) /\ Len(both) = Len(left) + Len(right)
         /\ Len(left) \in Nat /\ Len(right) \in Nat
         /\ \A i \in 1 .. Len(left) : both[i] = left[i]
         /\ \A j \in 1 .. Len(right) : both[Len(left) + j] = right[j]
BY Joined DEF Joining

LEMMA Tails ==
  ASSUME NEW S, NEW s \in Seq(S), s # <<>>
  PROVE  /\ Tail(s) \in Seq(S) /\ Len(s) \in Nat /\ Len(s) >= 1 /\ Len(Tail(s)) = Len(s) - 1 /\ Head(s) = s[1]
         /\ \A i \in 1 .. Len(s) - 1 : Tail(s)[i] = s[i + 1]
         /\ Len(s) = 1 => Tail(s) = <<>>
<1>1. Len(s) \in Nat /\ Len(s) >= 1 /\ Head(s) = s[1]
  OBVIOUS
<1>2. PICK t : t = Tail(s)
  OBVIOUS
<1>3. t \in Seq(S) /\ Len(t) = Len(s) - 1 /\ \A i \in 1 .. Len(s) - 1 : t[i] = s[i + 1]
  BY <1>2
<1>4. ASSUME Len(s) = 1 PROVE t = <<>>
  <2>1. Len(t) = 0
    BY <1>3, <1>4
  <2> QED
    BY <1>3, <2>1, EmptySeq
<1> QED
  BY <1>1, <1>2, <1>3, <1>4

LEMMA EventsSendable == \A e \in Stream!Event : Sendable(e)
<1> SUFFICES ASSUME NEW e \in Stream!Event PROVE Sendable(e)
  OBVIOUS
<1>1. <<"x">> \in Seq(Symbol) /\ <<"x", "x">> \in Seq(Symbol)
  BY Symbols, Short
<1>2. ASSUME NEW name \in Stream!DisplayName, e = [event |-> "typing", data |-> <<"x">> \o name]
      PROVE  Sendable(e)
  <2>1. PICK n \in 1 .. MaxName : name \in [1 .. n -> NameSymbol]
    BY DEF Stream!DisplayName
  <2>2. n \in Nat /\ n >= 1
    BY <2>1, StreamAssumption
  <2>3. name \in Seq(NameSymbol) /\ Len(name) = n
    BY <2>1, <2>2
  <2>4. name \in Seq(Symbol)
    BY <2>3, Symbols, SeqMonotonic
  <2>5. name[n] # "nl"
    BY <2>3 DEF Stream!DisplayName, Stream!Trimmed
  <2>6. Len(<<"x">>) = 1 /\ <<"x">>[1] = "x"
    OBVIOUS
  <2>7. PICK d : d = <<"x">> \o name
    OBVIOUS
  <2>8. /\ d \in Seq(Symbol) /\ Len(d) = 1 + n /\ d[1] = "x" /\ d[1 + n] = name[n]
    BY <1>1, <2>2, <2>3, <2>4, <2>6, <2>7, Joined
  <2>9. e.event = "typing" /\ e.data = d /\ e = [event |-> "typing", data |-> d]
    BY <1>2, <2>7
  <2>10. d # <<>>
    BY <2>2, <2>8
  <2> QED
    BY <2>5, <2>8, <2>9, <2>10 DEF Sendable, EventName
<1>3. ASSUME e = [event |-> "user_info", data |-> <<"x">>] PROVE Sendable(e)
  BY <1>1, <1>3 DEF Sendable, EventName
<1>4. ASSUME e = [event |-> "unnamed", data |-> <<"x", "x">>] PROVE Sendable(e)
  BY <1>1, <1>4 DEF Sendable, EventName
<1> QED
  BY <1>2, <1>3, <1>4 DEF Stream!Event

LEMMA GreetingSendable ==
  /\ Stream!Greeting \in Seq({Stream!Greeting[1], Stream!Greeting[2]}) /\ Len(Stream!Greeting) = 2
  /\ Sendable(Stream!Greeting[1]) /\ Sendable(Stream!Greeting[2])
<1>1. PICK u, s : /\ u = [event |-> "user_id", data |-> <<"x">>]
                  /\ s = [event |-> "session_id", data |-> <<"x">>]
  OBVIOUS
<1>2. Stream!Greeting = <<u, s>>
  BY <1>1 DEF Stream!Greeting
<1>3. <<"x">> \in Seq(Symbol) /\ <<"x">> # <<>> /\ Len(<<"x">>) = 1 /\ <<"x">>[1] = "x"
  BY Symbols, Short
<1>4. Sendable(u)
  BY <1>1, <1>3 DEF Sendable, EventName
<1>5. Sendable(s)
  BY <1>1, <1>3 DEF Sendable, EventName
<1> QED
  BY <1>2, <1>4, <1>5, Short

LEMMA TextLayout ==
  ASSUME NEW S, NEW start \in Seq(S), NEW data \in Seq(S), NEW blank \in Seq(S),
         NEW body, Joining(body, start, data), NEW t, Joining(t, body, blank)
  PROVE  /\ t \in Seq(S) /\ Len(t) = Len(start) + Len(data) + Len(blank)
         /\ \A i \in 1 .. Len(start) : t[i] = start[i]
         /\ \A j \in 1 .. Len(data) : t[Len(start) + j] = data[j]
         /\ \A k \in 1 .. Len(blank) : t[Len(start) + Len(data) + k] = blank[k]
<1>1. /\ body \in Seq(S) /\ Len(body) = Len(start) + Len(data) /\ Len(start) \in Nat /\ Len(data) \in Nat
      /\ \A i \in 1 .. Len(start) : body[i] = start[i]
      /\ \A j \in 1 .. Len(data) : body[Len(start) + j] = data[j]
  BY Joins
<1>2. /\ t \in Seq(S) /\ Len(t) = Len(body) + Len(blank)
      /\ \A i \in 1 .. Len(body) : t[i] = body[i]
      /\ \A j \in 1 .. Len(blank) : t[Len(body) + j] = blank[j]
  <2>1. body \in Seq(S)
    BY <1>1
  <2> QED
    BY <2>1, Joins
<1>3. ASSUME NEW i \in 1 .. Len(start) PROVE t[i] = start[i]
  <2>1. i \in 1 .. Len(body)
    BY <1>1
  <2> QED
    BY <1>1, <1>2, <2>1
<1>4. ASSUME NEW j \in 1 .. Len(data) PROVE t[Len(start) + j] = data[j]
  <2>1. Len(start) + j \in 1 .. Len(body)
    BY <1>1
  <2> QED
    BY <1>1, <1>2, <2>1
<1> QED
  BY <1>1, <1>2, <1>3, <1>4

(* The text of an event, symbol by symbol.                                 *)
LEMMA TextOf ==
  ASSUME NEW e, Sendable(e)
  PROVE  Layout(e, Stream!Encode(e), Header(e), Len(e.data))
<1> SUFFICES ASSUME NEW t, t = Stream!Encode(e), NEW h, h = Header(e), NEW m, m = Len(e.data)
             PROVE  Layout(e, t, h, m)
  OBVIOUS
<1>1. e.data \in Seq(Symbol) /\ m \in Nat /\ m >= 1 /\ e.event \in Symbol
  <2>1. e.data \in Seq(Symbol) /\ e.data # <<>>
    BY DEF Sendable
  <2>2. Len(e.data) \in Nat /\ Len(e.data) # 0
    BY <2>1, EmptySeq
  <2>3. e.event \in Symbol
    BY Symbols DEF Sendable
  <2>4. Len(e.data) >= 1
    BY <2>2
  <2> QED
    BY <2>1, <2>2, <2>3, <2>4
<1>2. PICK mark, blank : mark = <<"data_field">> /\ blank = <<"nl", "nl">>
  OBVIOUS
<1>3. /\ mark \in Seq(Symbol) /\ Len(mark) = 1 /\ mark[1] = "data_field"
      /\ blank \in Seq(Symbol) /\ Len(blank) = 2 /\ blank[1] = "nl" /\ blank[2] = "nl"
  BY <1>2, Symbols, Short
<1>4. PICK before : before = IF e.event # "unnamed" THEN <<"event_field", e.event, "nl">> ELSE <<>>
  OBVIOUS
<1>5. PICK start : Joining(start, before, mark)
  BY DEF Joining
<1>6. PICK data, body : data = e.data /\ Joining(body, start, data)
  BY DEF Joining
<1>9. Joining(t, body, blank)
  BY <1>2, <1>4, <1>5, <1>6 DEF Stream!Encode, Joining
<1>7. /\ start \in Seq(Symbol) /\ Len(start) = h /\ start[h] = "data_field"
      /\ \/ h = 4 /\ start[1] = "event_field" /\ start[2] = e.event /\ start[3] = "nl" /\ e.event # "unnamed"
         \/ h = 1 /\ e.event = "unnamed"
  <2>1. CASE e.event # "unnamed"
    <3>1. before = <<"event_field", e.event, "nl">> /\ h = 4
      BY <1>4, <2>1 DEF Header
    <3>2. /\ before \in Seq(Symbol) /\ Len(before) = 3
          /\ before[1] = "event_field" /\ before[2] = e.event /\ before[3] = "nl"
      BY <1>1, <3>1, Symbols, Short
    <3>3. /\ start \in Seq(Symbol) /\ Len(start) = 3 + 1
          /\ \A i \in 1 .. 3 : start[i] = before[i]
          /\ \A k \in 1 .. 1 : start[3 + k] = mark[k]
      <4>1. /\ start \in Seq(Symbol) /\ Len(start) = Len(before) + Len(mark)
            /\ \A i \in 1 .. Len(before) : start[i] = before[i]
            /\ \A j \in 1 .. Len(mark) : start[Len(before) + j] = mark[j]
        <5>1. before \in Seq(Symbol) /\ mark \in Seq(Symbol)
          BY <1>3, <3>2
        <5>2. Joining(start, before, mark)
          BY <1>5
        <5>3. Len(start) = Len(before) + Len(mark) /\ start \in Seq(Symbol)
          BY <5>1, <5>2, Joins
        <5>4. \A i \in 1 .. Len(before) : start[i] = before[i]
          BY <5>1, <5>2, Joins
        <5>5. \A j \in 1 .. Len(mark) : start[Len(before) + j] = mark[j]
          BY <5>1, <5>2, Joins
        <5> QED
          BY <5>3, <5>4, <5>5
      <4> QED
        BY <1>3, <3>2, <4>1
    <3>4. start[1] = before[1] /\ start[2] = before[2] /\ start[3] = before[3] /\ start[3 + 1] = mark[1]
      BY <3>3
    <3> QED
      BY <1>3, <2>1, <3>1, <3>2, <3>3, <3>4
  <2>2. CASE e.event = "unnamed"
    <3>1. before = <<>> /\ h = 1
      BY <1>4, <2>2 DEF Header
    <3>2. start = mark
      BY <1>3, <1>5, <3>1, ConcatEmptySeq DEF Joining
    <3> QED
      BY <1>3, <2>2, <3>1, <3>2
  <2> QED
    BY <2>1, <2>2
<1>8. data \in Seq(Symbol) /\ Len(data) = m
  BY <1>1, <1>6
<1>10. /\ t \in Seq(Symbol) /\ Len(t) = h + m + 2
       /\ \A i \in 1 .. h : t[i] = start[i]
       /\ \A j \in 1 .. m : t[h + j] = data[j]
       /\ t[h + m + 1] = blank[1] /\ t[h + m + 2] = blank[2]
  <2>1. /\ t \in Seq(Symbol) /\ Len(t) = Len(start) + Len(data) + Len(blank)
        /\ \A i \in 1 .. Len(start) : t[i] = start[i]
        /\ \A j \in 1 .. Len(data) : t[Len(start) + j] = data[j]
        /\ \A k \in 1 .. Len(blank) : t[Len(start) + Len(data) + k] = blank[k]
    <3>1. start \in Seq(Symbol) /\ data \in Seq(Symbol) /\ blank \in Seq(Symbol)
      BY <1>3, <1>7, <1>8
    <3>2. Joining(body, start, data) /\ Joining(t, body, blank)
      BY <1>6, <1>9
    <3> QED
      BY <3>1, <3>2, TextLayout
  <2> QED
    BY <1>1, <1>3, <1>7, <1>8, <2>1
<1>11. t[h] = start[h] /\ (h = 4 => t[1] = start[1] /\ t[2] = start[2] /\ t[3] = start[3])
  <2>1. (h = 1 \/ h = 4) /\ \A i \in 1 .. h : t[i] = start[i]
    BY <1>7, <1>10
  <2> QED
    BY <2>1
<1> QED
  BY <1>1, <1>3, <1>6, <1>7, <1>10, <1>11 DEF Layout

LEMMA BeginIsParser == Stream!Begin \in Parser
<1>1. <<>> \in Seq(Symbol) /\ <<>> \in Seq(Made) /\ "unnamed" \in Symbol
  BY Symbols, EmptySeq
<1>2. Parser = [field : {"blank", "event_field", "data_field", "ignored"}, event : Symbol, data : Seq(Symbol), made : Seq(Made)]
  BY DEF Parser
<1> QED
  BY <1>1, <1>2 DEF Stream!Begin

(* The parser keeps to its types.                                          *)
LEMMA ParserKept ==
  ASSUME NEW c \in Parser, NEW s \in Symbol
  PROVE  Stream!Parse(c, s) \in Parser
<1>1. Stream!Begin \in Parser
  BY BeginIsParser
<1>2. /\ c.data \in Seq(Symbol) /\ c.event \in Symbol
      /\ c.made \in Seq(Made)
  BY DEF Parser
<1>3. Append(c.made, [event |-> c.event, data |-> c.data]) \in Seq(Made)
  BY <1>2 DEF Made
<1>4. CASE c.field = "blank" /\ s = "nl"
  BY <1>1, <1>2, <1>3, <1>4 DEF Stream!Parse, Parser, Stream!Begin
<1>5. CASE c.field # "blank" /\ s = "nl"
  BY <1>5 DEF Stream!Parse, Parser
<1>6. CASE c.field = "blank" /\ s # "nl"
  BY <1>6 DEF Stream!Parse, Parser
<1>7. CASE c.field = "event_field" /\ s # "nl"
  BY <1>7 DEF Stream!Parse, Parser
<1>8. CASE c.field = "data_field" /\ s # "nl"
  <2>1. Append(c.data, s) \in Seq(Symbol)
    BY <1>2
  <2> QED
    BY <1>8, <2>1 DEF Stream!Parse, Parser
<1>9. CASE c.field = "ignored" /\ s # "nl"
  BY <1>9 DEF Stream!Parse
<1> QED
  BY <1>4, <1>5, <1>6, <1>7, <1>8, <1>9 DEF Parser

(* The first line of data, with and without a line break.                  *)
LEMMA WholeData ==
  ASSUME NEW e, Sendable(e), Unbroken(e, Len(e.data))
  PROVE  Stream!FirstLine(e) = [event |-> e.event, data |-> e.data]
<1>1. DOMAIN e.data = 1 .. Len(e.data)
  BY DEF Sendable
<1>2. Stream!Breaks(e) = {}
  BY <1>1 DEF Unbroken, Stream!Breaks
<1> QED
  BY <1>2 DEF Stream!FirstLine, Sendable

LEMMA FirstOfLines ==
  ASSUME NEW e, Sendable(e), NEW j \in 1 .. Len(e.data), e.data[j] = "nl", Unbroken(e, j - 1)
  PROVE  /\ j > 1 /\ j < Len(e.data)
         /\ Stream!FirstLine(e) = [event |-> e.event, data |-> SubSeq(e.data, 1, j - 1)]
         /\ SubSeq(e.data, 1, j - 1) # <<>>
<1>1. e.data \in Seq(Symbol) /\ Len(e.data) \in Nat /\ DOMAIN e.data = 1 .. Len(e.data) /\ j \in Nat /\ j >= 1
  BY DEF Sendable
<1>2. j # 1 /\ j # Len(e.data)
  BY DEF Sendable
<1>3. j \in Stream!Breaks(e) /\ \A i \in Stream!Breaks(e) : j <= i
  <2>1. j \in Stream!Breaks(e)
    BY <1>1 DEF Stream!Breaks
  <2>2. ASSUME NEW i \in Stream!Breaks(e) PROVE j <= i
    <3>1. i \in 1 .. Len(e.data) /\ e.data[i] = "nl"
      BY <1>1 DEF Stream!Breaks
    <3>2. i \notin 1 .. j - 1
      BY <3>1 DEF Unbroken
    <3> QED
      BY <1>1, <3>1, <3>2
  <2> QED
    BY <2>1, <2>2
<1>4. ASSUME NEW i \in Stream!Breaks(e), \A k \in Stream!Breaks(e) : i <= k PROVE i = j
  <2>1. i \in 1 .. Len(e.data) /\ i <= j /\ j <= i
    BY <1>1, <1>3, <1>4 DEF Stream!Breaks
  <2> QED
    BY <1>1, <2>1
<1>5. (CHOOSE i \in Stream!Breaks(e) : \A k \in Stream!Breaks(e) : i <= k) = j
  BY <1>3, <1>4
<1>6. Stream!FirstLine(e) = [e EXCEPT !.data = SubSeq(@, 1, j - 1)]
  BY <1>3, <1>5 DEF Stream!FirstLine
<1>7. Len(SubSeq(e.data, 1, j - 1)) = j - 1
  BY <1>1
<1>8. SubSeq(e.data, 1, j - 1) # <<>>
  BY <1>1, <1>2, <1>7
<1>9. Stream!FirstLine(e) = [event |-> e.event, data |-> SubSeq(e.data, 1, j - 1)]
  BY <1>6 DEF Sendable
<1> QED
  BY <1>1, <1>2, <1>8, <1>9

LEMMA LineIsEvent ==
  ASSUME NEW e, Sendable(e)
  PROVE  Stream!FirstLine(e) = [event |-> e.event, data |-> Stream!FirstLine(e).data]
<1>1. CASE Stream!Breaks(e) = {}
  BY <1>1 DEF Stream!FirstLine, Sendable
<1>2. CASE Stream!Breaks(e) # {}
  <2>1. PICK d : Stream!FirstLine(e) = [e EXCEPT !.data = d]
    BY <1>2 DEF Stream!FirstLine
  <2>2. Stream!FirstLine(e) = [event |-> e.event, data |-> d]
    BY <2>1 DEF Sendable
  <2> QED
    BY <2>2
<1> QED
  BY <1>1, <1>2

(* The parser in the data: one more symbol.                                *)
LEMMA DataStep ==
  ASSUME NEW e, Sendable(e), NEW c \in Parser, NEW j \in Nat, j < Len(e.data), InData(e, j, c)
  PROVE  InData(e, j + 1, Stream!Parse(c, e.data[j + 1]))
<1>1. e.data \in Seq(Symbol) /\ Len(e.data) \in Nat /\ j + 1 \in 1 .. Len(e.data)
  BY DEF Sendable
<1>2. PICK s : s = e.data[j + 1]
  OBVIOUS
<1>3. PICK d : d = Stream!Parse(c, s)
  OBVIOUS
<1>4. c.field \in {"blank", "event_field", "data_field", "ignored"}
      /\ c = [field |-> c.field, event |-> c.event, data |-> c.data, made |-> c.made]
  BY DEF Parser
<1>5. Unbroken(e, j + 1) <=> Unbroken(e, j) /\ s # "nl"
  BY <1>2 DEF Unbroken
<1>6. CASE s = "nl"
  <2>1. CASE Unbroken(e, j)
    <3>1. c = [field |-> "data_field", event |-> e.event, data |-> SubSeq(e.data, 1, j), made |-> <<>>]
      BY <2>1 DEF InData
    <3>2. d = [field |-> "blank", event |-> e.event, data |-> SubSeq(e.data, 1, j), made |-> <<>>]
      BY <1>3, <1>6, <3>1 DEF Stream!Parse
    <3>3. (j + 1) - 1 = j
      BY <1>1
    <3>4. /\ Stream!FirstLine(e) = [event |-> e.event, data |-> SubSeq(e.data, 1, j)]
          /\ SubSeq(e.data, 1, j) # <<>>
      BY <1>1, <1>2, <1>6, <2>1, <3>3, FirstOfLines
    <3>5. HasFirstLine(e, d)
      BY <3>2, <3>4 DEF HasFirstLine
    <3> QED
      BY <1>1, <1>2, <1>3, <1>5, <1>6, <3>2, <3>5 DEF InData
  <2>2. CASE ~Unbroken(e, j)
    <3>1. d.field = "blank"
      BY <1>3, <1>4, <1>6 DEF Stream!Parse, Stream!Begin
    <3>2. ASSUME Stream!Plain(e) PROVE HasFirstLine(e, d)
      <4>1. c.field \in {"blank", "ignored"} /\ HasFirstLine(e, c)
        BY <2>2, <3>2 DEF InData
      <4>2. CASE c.field = "ignored"
        <5>1. d = [field |-> "blank", event |-> c.event, data |-> c.data, made |-> c.made]
          BY <1>3, <1>4, <1>6, <4>2 DEF Stream!Parse
        <5> QED
          BY <4>1, <5>1 DEF HasFirstLine
      <4>3. CASE c.field = "blank"
        <5>1. d = [field |-> "blank", event |-> "unnamed", data |-> <<>>,
                   made |-> IF c.data = <<>> THEN c.made
                            ELSE Append(c.made, [event |-> c.event, data |-> c.data])]
          BY <1>3, <1>6, <4>3 DEF Stream!Parse, Stream!Begin
        <5>2. CASE c.event = "unnamed" /\ c.data = <<>> /\ c.made = <<Stream!FirstLine(e)>>
          BY <5>1, <5>2 DEF HasFirstLine
        <5>3. CASE /\ Stream!FirstLine(e).data # <<>> /\ c.event = e.event
                   /\ c.data = Stream!FirstLine(e).data /\ c.made = <<>>
          <6>1. Stream!FirstLine(e) = [event |-> c.event, data |-> c.data]
            BY <5>3, LineIsEvent
          <6>2. d.made = <<Stream!FirstLine(e)>>
            BY <5>1, <5>3, <6>1
          <6> QED
            BY <5>1, <6>2 DEF HasFirstLine
        <5> QED
          BY <4>1, <5>2, <5>3 DEF HasFirstLine
      <4> QED
        BY <4>1, <4>2, <4>3
    <3> QED
      BY <1>1, <1>2, <1>3, <1>5, <1>6, <3>1, <3>2 DEF InData
  <2> QED
    BY <2>1, <2>2
<1>7. CASE s # "nl"
  <2>1. CASE Unbroken(e, j)
    <3>1. c = [field |-> "data_field", event |-> e.event, data |-> SubSeq(e.data, 1, j), made |-> <<>>]
      BY <2>1 DEF InData
    <3>2. d = [field |-> "data_field", event |-> e.event, data |-> Append(SubSeq(e.data, 1, j), s), made |-> <<>>]
      BY <1>3, <1>7, <3>1 DEF Stream!Parse
    <3>3. Append(SubSeq(e.data, 1, j), s) = SubSeq(e.data, 1, j + 1)
      BY <1>1, <1>2
    <3>4. d = [field |-> "data_field", event |-> e.event, data |-> SubSeq(e.data, 1, j + 1), made |-> <<>>]
      BY <3>2, <3>3
    <3>5. InData(e, j + 1, d)
      BY <1>2, <1>5, <1>7, <2>1, <3>4 DEF InData
    <3> QED
      BY <1>2, <1>3, <3>5
  <2>2. CASE ~Unbroken(e, j)
    <3>1. d.field # "blank"
      BY <1>3, <1>4, <1>7 DEF Stream!Parse
    <3>2. ASSUME Stream!Plain(e) PROVE d.field = "ignored" /\ HasFirstLine(e, d)
      <4>1. c.field \in {"blank", "ignored"} /\ HasFirstLine(e, c)
        BY <2>2, <3>2 DEF InData
      <4>2. CASE c.field = "ignored"
        <5>1. d = c
          BY <1>3, <1>7, <4>2 DEF Stream!Parse
        <5> QED
          BY <4>1, <4>2, <5>1
      <4>3. CASE c.field = "blank"
        <5>1. j > 0 /\ e.data[j] = "nl"
          BY <4>3 DEF InData
        <5>2. j \in Stream!Breaks(e)
          BY <1>1, <5>1 DEF Stream!Breaks
        <5>3. s \notin {"event_field", "data_field"}
          BY <1>2, <3>2, <5>2 DEF Stream!Plain
        <5>4. d = [field |-> "ignored", event |-> c.event, data |-> c.data, made |-> c.made]
          BY <1>3, <1>4, <1>7, <4>3, <5>3 DEF Stream!Parse
        <5> QED
          BY <4>1, <5>4 DEF HasFirstLine
      <4> QED
        BY <4>1, <4>2, <4>3
    <3> QED
      BY <1>2, <1>3, <1>5, <1>7, <2>2, <3>1, <3>2 DEF InData
  <2> QED
    BY <2>1, <2>2
<1> QED
  BY <1>6, <1>7

LEMMA ParsingCases ==
  ASSUME NEW e, NEW c, NEW k \in Nat, NEW h \in Nat, NEW m \in Nat, h > 0, h = Header(e), m = Len(e.data)
  PROVE  /\ k >= h /\ k <= h + m => (Parsing(e, k, c) <=> InData(e, k - h, c))
         /\ k > h + m => (Parsing(e, k, c) <=> c.field = "blank" /\ (Stream!Plain(e) => HasFirstLine(e, c)))
<1>1. CASE k >= h /\ k <= h + m
  <2>1. k # 0 /\ ~(k > 0 /\ k < h) /\ ~(k > h + m)
    BY <1>1
  <2> QED
    BY <1>1, <2>1 DEF Parsing
<1>2. CASE k > h + m
  <2>1. k # 0 /\ ~(k > 0 /\ k < h) /\ ~(k >= h /\ k <= h + m)
    BY <1>2
  <2> QED
    BY <1>2, <2>1 DEF Parsing
<1> QED
  BY <1>1, <1>2

(* One more symbol of the text of an event.                                *)
LEMMA ParsingStep ==
  ASSUME NEW e, Sendable(e), NEW c \in Parser, NEW k \in Nat, Parsing(e, k, c),
         k < Header(e) + Len(e.data) + 1
  PROVE  Parsing(e, k + 1, Stream!Parse(c, Stream!Encode(e)[k + 1]))
<1>1. PICK t, h, m : t = Stream!Encode(e) /\ h = Header(e) /\ m = Len(e.data)
  OBVIOUS
<1>2. /\ m \in Nat /\ m >= 1 /\ h \in {1, 4}
      /\ \/ h = 4 /\ t[1] = "event_field" /\ t[2] = e.event /\ t[3] = "nl" /\ e.event # "unnamed"
         \/ h = 1 /\ e.event = "unnamed"
      /\ t[h] = "data_field" /\ (\A j \in 1 .. m : t[h + j] = e.data[j])
      /\ t[h + m + 1] = "nl" /\ t[h + m + 2] = "nl"
  <2>1. Layout(e, t, h, m)
    BY <1>1, TextOf
  <2> QED
    BY <2>1 DEF Layout
<1>3. PICK d : d = Stream!Parse(c, t[k + 1])
  OBVIOUS
<1>4. k < h + m + 1
  BY <1>1
<1>5. CASE k + 1 < h
  <2>1. h = 4 /\ k \in {0, 1, 2} /\ h + m >= 5
    BY <1>2, <1>5
  <2>2. e.event # "nl"
    BY DEF Sendable, EventName
  <2>3. CASE k = 0
    <3>1. c = [field |-> "blank", event |-> "unnamed", data |-> <<>>, made |-> <<>>]
      BY <2>3 DEF Parsing, Stream!Begin
    <3>2. t[k + 1] = "event_field"
      BY <1>2, <2>1, <2>3
    <3>3. d = [field |-> "event_field", event |-> "unnamed", data |-> <<>>, made |-> <<>>]
      BY <1>3, <3>1, <3>2 DEF Stream!Parse
    <3> QED
      BY <1>1, <1>3, <2>1, <2>3, <3>3 DEF Parsing
  <2>4. CASE k = 1
    <3>1. c = [field |-> "event_field", event |-> "unnamed", data |-> <<>>, made |-> <<>>]
      BY <1>1, <2>1, <2>4 DEF Parsing
    <3>2. t[k + 1] = e.event
      BY <1>2, <2>1, <2>4
    <3>3. d = [field |-> "event_field", event |-> e.event, data |-> <<>>, made |-> <<>>]
      BY <1>3, <2>2, <3>1, <3>2 DEF Stream!Parse
    <3> QED
      BY <1>1, <1>3, <2>1, <2>4, <3>3 DEF Parsing
  <2>5. CASE k = 2
    <3>1. c = [field |-> "event_field", event |-> e.event, data |-> <<>>, made |-> <<>>]
      BY <1>1, <2>1, <2>5 DEF Parsing
    <3>2. t[k + 1] = "nl"
      BY <1>2, <2>1, <2>5
    <3>3. d = [field |-> "blank", event |-> e.event, data |-> <<>>, made |-> <<>>]
      BY <1>3, <3>1, <3>2 DEF Stream!Parse
    <3> QED
      BY <1>1, <1>3, <2>1, <2>5, <3>3 DEF Parsing
  <2> QED
    BY <2>1, <2>3, <2>4, <2>5
<1>6. CASE k + 1 = h
  <2>1. t[k + 1] = "data_field"
    BY <1>2, <1>6
  <2>2. c = [field |-> "blank", event |-> e.event, data |-> <<>>, made |-> <<>>]
    BY <1>1, <1>2, <1>6 DEF Parsing, Stream!Begin
  <2>3. d = [field |-> "data_field", event |-> e.event, data |-> <<>>, made |-> <<>>]
    BY <1>3, <2>1, <2>2 DEF Stream!Parse
  <2>4. SubSeq(e.data, 1, 0) = <<>>
    BY DEF Sendable
  <2>5. Unbroken(e, 0)
    BY DEF Unbroken
  <2>6. InData(e, 0, d)
    BY <2>3, <2>4, <2>5 DEF InData
  <2>7. (k + 1) - h = 0
    BY <1>2, <1>6
  <2> QED
    BY <1>1, <1>2, <1>3, <1>6, <2>6, <2>7 DEF Parsing
<1>7. CASE h <= k /\ k < h + m
  <2>1. PICK j \in Nat : j = k - h
    BY <1>2, <1>7
  <2>2. j < m /\ (k + 1) - h = j + 1 /\ t[k + 1] = e.data[j + 1]
    <3>1. j + 1 \in 1 .. m /\ h + (j + 1) = k + 1
      BY <1>2, <1>7, <2>1
    <3> QED
      BY <1>2, <1>7, <2>1, <3>1
  <2>3. InData(e, j, c)
    BY <1>1, <1>2, <1>7, <2>1 DEF Parsing
  <2>4. InData(e, j + 1, d)
    BY <1>1, <1>3, <2>2, <2>3, DataStep
  <2>5. k + 1 \in Nat /\ k + 1 >= h /\ k + 1 <= h + m /\ h \in Nat /\ h > 0
    BY <1>2, <1>7
  <2>6. Parsing(e, k + 1, d)
    BY <1>1, <1>2, <2>2, <2>4, <2>5, ParsingCases
  <2> QED
    BY <1>1, <1>3, <2>6
<1>8. CASE k = h + m
  <2>1. t[k + 1] = "nl" /\ k - h = m /\ k >= h /\ k <= h + m /\ k + 1 > h + m /\ h \in Nat /\ h > 0
    BY <1>2, <1>8
  <2>2. InData(e, m, c)
    BY <1>1, <1>2, <2>1, ParsingCases
  <2>3. c.field # "blank"
    BY <1>1, <2>2 DEF InData, Sendable
  <2>4. d = [field |-> "blank", event |-> c.event, data |-> c.data, made |-> c.made]
    BY <1>3, <2>1, <2>3 DEF Stream!Parse, Parser
  <2>5. ASSUME Stream!Plain(e) PROVE HasFirstLine(e, d)
    <3>1. CASE Unbroken(e, m)
      <4>1. SubSeq(e.data, 1, m) = e.data /\ e.data # <<>>
        BY <1>1 DEF Sendable
      <4>2. c = [field |-> "data_field", event |-> e.event, data |-> e.data, made |-> <<>>]
        BY <2>2, <3>1, <4>1 DEF InData
      <4>3. Stream!FirstLine(e) = [event |-> e.event, data |-> e.data]
        BY <1>1, <3>1, WholeData
      <4> QED
        BY <2>4, <4>1, <4>2, <4>3 DEF HasFirstLine
    <3>2. CASE ~Unbroken(e, m)
      <4>1. HasFirstLine(e, c)
        BY <2>2, <2>5, <3>2 DEF InData
      <4> QED
        BY <2>4, <4>1 DEF HasFirstLine
    <3> QED
      BY <3>1, <3>2
  <2>6. k + 1 \in Nat /\ d.field = "blank"
    BY <2>4
  <2>7. Parsing(e, k + 1, d)
    BY <1>1, <1>2, <2>1, <2>5, <2>6, ParsingCases
  <2> QED
    BY <1>1, <1>3, <2>7
<1> QED
  BY <1>2, <1>4, <1>5, <1>6, <1>7, <1>8

(* The last symbol of the text of an event.                                *)
LEMMA LastSymbol ==
  ASSUME NEW e, Sendable(e), NEW c \in Parser, Parsing(e, Header(e) + Len(e.data) + 1, c),
         NEW parsed, parsed = Stream!Parse(c, "nl")
  PROVE  /\ [parsed EXCEPT !.made = <<>>] = Stream!Begin
         /\ Stream!Plain(e) => parsed.made = <<Stream!FirstLine(e)>>
<1>1. PICK h, m : h = Header(e) /\ m = Len(e.data) /\ h \in Nat /\ m \in Nat
  BY DEF Header, Sendable
<1>2. c.field = "blank" /\ (Stream!Plain(e) => HasFirstLine(e, c))
  <2>1. h + m + 1 > h + m
    BY <1>1
  <2> QED
    BY <1>1, <2>1 DEF Parsing
<1>3. parsed = [field |-> "blank", event |-> "unnamed", data |-> <<>>,
                made |-> IF c.data = <<>> THEN c.made ELSE Append(c.made, [event |-> c.event, data |-> c.data])]
  BY <1>2 DEF Stream!Parse, Stream!Begin
<1>4. [parsed EXCEPT !.made = <<>>] = Stream!Begin
  BY <1>3 DEF Stream!Begin
<1>5. ASSUME Stream!Plain(e) PROVE parsed.made = <<Stream!FirstLine(e)>>
  <2>1. HasFirstLine(e, c)
    BY <1>2, <1>5
  <2>2. CASE c.event = "unnamed" /\ c.data = <<>> /\ c.made = <<Stream!FirstLine(e)>>
    BY <1>3, <2>2
  <2>3. CASE /\ Stream!FirstLine(e).data # <<>> /\ c.event = e.event
             /\ c.data = Stream!FirstLine(e).data /\ c.made = <<>>
    <3>1. Stream!FirstLine(e) = [event |-> c.event, data |-> c.data]
      BY <2>3, LineIsEvent
    <3> QED
      BY <1>3, <2>3, <3>1
  <2> QED
    BY <2>1, <2>2, <2>3 DEF HasFirstLine
<1> QED
  BY <1>4, <1>5

(* What the parser made of an event of which a part has arrived.           *)
LEMMA MadeSoFar ==
  ASSUME NEW e, Sendable(e), NEW c \in Parser, NEW k \in Nat, k > 0, Parsing(e, k, c), Stream!Plain(e)
  PROVE  c.made \in {<<>>, <<Stream!FirstLine(e)>>}
<1>1. PICK h, m : h = Header(e) /\ m = Len(e.data) /\ h \in Nat /\ m \in Nat
  BY DEF Header, Sendable
<1>2. CASE k < h
  BY <1>1, <1>2 DEF Parsing
<1>3. CASE k >= h /\ k <= h + m
  <2>1. InData(e, k - h, c)
    BY <1>1, <1>3 DEF Parsing
  <2>2. CASE Unbroken(e, k - h)
    BY <2>1, <2>2 DEF InData
  <2>3. CASE ~Unbroken(e, k - h)
    BY <2>1, <2>3 DEF InData, HasFirstLine
  <2> QED
    BY <2>2, <2>3
<1>4. CASE k > h + m
  BY <1>1, <1>4 DEF Parsing, HasFirstLine
<1> QED
  BY <1>1, <1>2, <1>3, <1>4

(***************************************************************************)
(* EventStream: steps                                                      *)
(***************************************************************************)
(* The events are those of the greeting, and those put on the bus.         *)
LEMMA EventsAre ==
  ASSUME NEW put \in Seq(Stream!Event), NEW events, events = Stream!Greeting \o put
  PROVE  /\ Len(put) \in Nat /\ Len(events) = 2 + Len(put)
         /\ events[1] = Stream!Greeting[1] /\ events[2] = Stream!Greeting[2]
         /\ \A i \in 1 .. Len(put) : events[2 + i] = put[i]
         /\ \A i \in 1 .. Len(events) : Sendable(events[i])
<1>1. PICK S : S = {Stream!Greeting[1], Stream!Greeting[2]} \cup Stream!Event
  OBVIOUS
<1>2. Stream!Greeting \in Seq(S) /\ put \in Seq(S) /\ Len(Stream!Greeting) = 2
  <2>1. {Stream!Greeting[1], Stream!Greeting[2]} \subseteq S /\ Stream!Event \subseteq S
    BY <1>1
  <2> QED
    BY <2>1, GreetingSendable, SeqMonotonic
<1>3. /\ events \in Seq(S) /\ Len(events) = Len(Stream!Greeting) + Len(put) /\ Len(put) \in Nat
      /\ \A i \in 1 .. Len(Stream!Greeting) : events[i] = Stream!Greeting[i]
      /\ \A i \in 1 .. Len(put) : events[Len(Stream!Greeting) + i] = put[i]
  <2>1. Joining(events, Stream!Greeting, put)
    BY DEF Joining
  <2>2. Stream!Greeting \in Seq(S) /\ put \in Seq(S)
    BY <1>2
  <2> HIDE DEF Joining
  <2> QED
    BY <2>1, <2>2, Joins
<1>4. /\ Len(events) = 2 + Len(put) /\ events[1] = Stream!Greeting[1] /\ events[2] = Stream!Greeting[2]
      /\ \A i \in 1 .. Len(put) : events[2 + i] = put[i]
  BY <1>2, <1>3
<1>5. ASSUME NEW i \in 1 .. Len(events) PROVE Sendable(events[i])
  <2>1. events[i] \in S
    BY <1>3
  <2> QED
    BY <1>1, <2>1, EventsSendable, GreetingSendable
<1> QED
  BY <1>3, <1>4, <1>5

LEMMA StreamShape ==
  ASSUME StreamInv
  PROVE  /\ Len(emitted) \in Nat /\ Len(eventBus) \in Nat /\ Len(wire) \in Nat /\ Len(received) \in Nat
         /\ emitted \in Seq(Stream!Event) /\ eventBus \in Seq(Seq(Symbol)) /\ wire \in Seq(Seq(Symbol))
         /\ received \in Seq(Seq(Made))
         /\ Len(Events) = 2 + Len(emitted)
         /\ Events[1] = Stream!Greeting[1] /\ Events[2] = Stream!Greeting[2]
         /\ \A i \in 1 .. Len(emitted) : Events[2 + i] = emitted[i]
         /\ \A i \in 1 .. Len(Events) : Sendable(Events[i])
         /\ Len(greeting) \in {0, 1, 2}
         /\ Len(greeting) + Len(eventBus) + Len(wire) + Len(received) = 2 + Len(emitted)
<1>1. /\ emitted \in Seq(Stream!Event) /\ eventBus \in Seq(Seq(Symbol)) /\ wire \in Seq(Seq(Symbol))
      /\ received \in Seq(Seq(Made))
  BY DEF StreamInv, BusOK, WireOK
<1>2. /\ Len(emitted) \in Nat /\ Len(Events) = 2 + Len(emitted)
      /\ Events[1] = Stream!Greeting[1] /\ Events[2] = Stream!Greeting[2]
      /\ \A i \in 1 .. Len(emitted) : Events[2 + i] = emitted[i]
      /\ \A i \in 1 .. Len(Events) : Sendable(Events[i])
  BY <1>1, EventsAre DEF Events
<1>3. Len(eventBus) \in Nat /\ Len(wire) \in Nat /\ Len(received) \in Nat
  BY <1>1
<1>4. Len(greeting) \in {0, 1, 2}
  <2>1. PICK S, g : g = Stream!Greeting /\ g \in Seq(S) /\ Len(g) = 2
    BY GreetingSendable
  <2>2. Len(Tail(g)) = 1
    <3>1. g # <<>>
      BY <2>1, EmptySeq
    <3> QED
      BY <2>1, <3>1, Tails
  <2>3. greeting \in {g, Tail(g), <<>>} /\ Len(<<>>) = 0
    BY <2>1 DEF StreamInv
  <2> QED
    BY <2>1, <2>2, <2>3
<1>5. Len(greeting) + Len(eventBus) + Len(wire) + Len(received) = 2 + Len(emitted)
  BY GreetingSendable DEF StreamInv, Stream!NothingLost
<1> QED
  BY <1>1, <1>2, <1>3, <1>4, <1>5

LEMMA EventsInSeq ==
  ASSUME StreamInv
  PROVE  DOMAIN Events = 1 .. Len(Events)
<1>1. PICK S : S = {Stream!Greeting[1], Stream!Greeting[2]} \cup Stream!Event
  OBVIOUS
<1>2. Stream!Greeting \in Seq(S) /\ emitted \in Seq(S)
  <2>1. {Stream!Greeting[1], Stream!Greeting[2]} \subseteq S /\ Stream!Event \subseteq S
    BY <1>1
  <2> QED
    BY <2>1, GreetingSendable, SeqMonotonic DEF StreamInv
<1>3. Events \in Seq(S)
  BY <1>2 DEF Events
<1> QED
  BY <1>3

LEMMA TextTyped ==
  ASSUME NEW e, Sendable(e)
  PROVE  Stream!Encode(e) \in Seq(Symbol) /\ Len(Stream!Encode(e)) = Header(e) + Len(e.data) + 2
         /\ Header(e) \in {1, 4} /\ Len(e.data) \in Nat
BY TextOf DEF Layout, Header

LEMMA StreamInit == Stream!Init => StreamInv
<1> SUFFICES ASSUME Stream!Init PROVE StreamInv
  OBVIOUS
<1>1. /\ greeting = Stream!Greeting /\ emitted = <<>> /\ eventBus = <<>> /\ wire = <<>> /\ arrived = 0
      /\ client = Stream!Begin /\ received = <<>> /\ open = TRUE
  BY DEF Stream!Init
<1>2. Stream!Begin \in Parser
  BY BeginIsParser
<1>3. MaxEvents \in Nat /\ Capacity \in Nat
  BY StreamAssumption
<1>4. BusOK
  <2>1. <<>> \in Seq(Seq(Symbol)) /\ Len(<<>>) = 0
    OBVIOUS
  <2> QED
    BY <1>1, <1>3, <2>1 DEF BusOK
<1>5. WireOK
  BY <1>1 DEF WireOK
<1>6. ClientOK
  BY <1>1, <1>2 DEF ClientOK
<1>7. ReceivedOK
  BY <1>1 DEF ReceivedOK
<1>8. Stream!NothingLost
  BY <1>1, GreetingSendable DEF Stream!NothingLost
<1>9. emitted \in Seq(Stream!Event) /\ Len(emitted) <= MaxEvents
  BY <1>1, <1>3
<1> QED
  BY <1>1, <1>4, <1>5, <1>6, <1>7, <1>8, <1>9 DEF StreamInv

(* An event on the bus: no event before it is another now.                 *)
LEMMA StreamEmit ==
  ASSUME StreamInv, NEW e \in Stream!Event, Stream!Emit(e)
  PROVE  StreamInv'
<1>1. /\ Len(emitted) \in Nat /\ Len(eventBus) \in Nat /\ Len(wire) \in Nat /\ Len(received) \in Nat
      /\ emitted \in Seq(Stream!Event) /\ eventBus \in Seq(Seq(Symbol)) /\ Len(Events) = 2 + Len(emitted)
      /\ Len(greeting) \in {0, 1, 2}
      /\ Len(greeting) + Len(eventBus) + Len(wire) + Len(received) = 2 + Len(emitted)
  BY StreamShape
<1>2. /\ emitted' = Append(emitted, e) /\ eventBus' = Append(eventBus, Stream!Encode(e))
      /\ Len(emitted) < MaxEvents /\ Len(eventBus) < Capacity
      /\ greeting' = greeting /\ wire' = wire /\ arrived' = arrived /\ client' = client
      /\ received' = received /\ open' = open
  BY DEF Stream!Emit
<1>3. Stream!Encode(e) \in Seq(Symbol)
  BY EventsSendable, TextTyped
<1>4. /\ emitted' \in Seq(Stream!Event) /\ Len(emitted') = Len(emitted) + 1
      /\ \A i \in 1 .. Len(emitted) : emitted'[i] = emitted[i]
      /\ emitted'[Len(emitted) + 1] = e
  BY <1>1, <1>2
<1>5. /\ eventBus' \in Seq(Seq(Symbol)) /\ Len(eventBus') = Len(eventBus) + 1
      /\ \A i \in 1 .. Len(eventBus) : eventBus'[i] = eventBus[i]
      /\ eventBus'[Len(eventBus) + 1] = Stream!Encode(e)
  BY <1>1, <1>2, <1>3
<1>6. \A i \in 1 .. Len(Events) : Events'[i] = Events[i]
  <2>1. /\ Len(Events') = 2 + Len(emitted')
        /\ Events'[1] = Stream!Greeting[1] /\ Events'[2] = Stream!Greeting[2]
        /\ \A i \in 1 .. Len(emitted') : Events'[2 + i] = emitted'[i]
    <3>1. Events' = Stream!Greeting \o emitted'
      BY DEF Events
    <3>2. PICK put, events : put = emitted' /\ events = Stream!Greeting \o put /\ events = Events'
      BY <3>1
    <3>3. put \in Seq(Stream!Event)
      BY <1>4, <3>2
    <3>4. /\ Len(events) = 2 + Len(put)
          /\ events[1] = Stream!Greeting[1] /\ events[2] = Stream!Greeting[2]
          /\ \A i \in 1 .. Len(put) : events[2 + i] = put[i]
      <4>1. events = Stream!Greeting \o put
        BY <3>2
      <4> QED
        BY <3>3, <4>1, EventsAre
    <3> QED
      BY <3>2, <3>4
  <2>2. /\ Events[1] = Stream!Greeting[1] /\ Events[2] = Stream!Greeting[2]
        /\ \A i \in 1 .. Len(emitted) : Events[2 + i] = emitted[i]
    BY StreamShape
  <2>3. ASSUME NEW i \in 1 .. Len(Events), i > 2 PROVE Events'[i] = Events[i]
    <3>1. PICK j \in 1 .. Len(emitted) : i = 2 + j
      BY <1>1, <2>3
    <3>2. j \in 1 .. Len(emitted')
      BY <1>1, <1>4
    <3> QED
      BY <1>4, <2>1, <2>2, <3>1, <3>2
  <2> QED
    BY <1>1, <2>1, <2>2, <2>3
<1>7. BusOK'
  <2>1. ASSUME NEW i \in 1 .. Len(eventBus')
        PROVE  eventBus'[i] = Stream!Encode(emitted'[Len(emitted') - Len(eventBus') + i])
    <3>1. Len(emitted') - Len(eventBus') + i = Len(emitted) - Len(eventBus) + i
      BY <1>1, <1>4, <1>5
    <3>2. CASE i <= Len(eventBus)
      <4>1. i \in 1 .. Len(eventBus) /\ Len(emitted) - Len(eventBus) + i \in 1 .. Len(emitted)
        BY <1>1, <1>5, <3>2 DEF StreamInv, BusOK
      <4>2. eventBus[i] = Stream!Encode(emitted[Len(emitted) - Len(eventBus) + i])
        BY <4>1 DEF StreamInv, BusOK
      <4> QED
        BY <1>4, <1>5, <3>1, <4>1, <4>2
    <3>3. CASE i = Len(eventBus) + 1
      <4>1. Len(emitted') - Len(eventBus') + i = Len(emitted) + 1
        <5>1. Len(emitted) \in Nat /\ Len(eventBus) \in Nat
          BY <1>1
        <5>2. Len(emitted) - Len(eventBus) + (Len(eventBus) + 1) = Len(emitted) + 1
          BY <5>1
        <5> QED
          BY <3>1, <3>3, <5>2
      <4> QED
        BY <1>4, <1>5, <3>3, <4>1
    <3> QED
      BY <1>1, <1>5, <3>2, <3>3
  <2>2. Len(eventBus') <= Len(emitted') /\ Len(eventBus') <= Capacity
    <3>1. Len(eventBus) <= Len(emitted) /\ Capacity \in Nat
      BY StreamAssumption DEF StreamInv, BusOK
    <3> QED
      BY <1>1, <1>2, <1>4, <1>5, <3>1
  <2>3. greeting' # <<>> => Len(eventBus') = Len(emitted')
    BY <1>2, <1>4, <1>5 DEF StreamInv, BusOK
  <2> QED
    BY <1>5, <2>1, <2>2, <2>3 DEF BusOK
<1>8. WireOK'
  <2>1. ASSUME NEW i \in 1 .. Len(wire) PROVE Events'[Len(received) + i] = Events[Len(received) + i]
    BY <1>1, <1>6
  <2>2. /\ wire \in Seq(Seq(Symbol)) /\ received \in Seq(Seq(Made))
        /\ \A i \in 1 .. Len(wire) : wire[i] = Stream!Encode(Events[Len(received) + i])
    BY DEF StreamInv, WireOK
  <2> QED
    BY <1>2, <2>1, <2>2 DEF WireOK
<1>9. ClientOK'
  <2>1. ASSUME wire # <<>> PROVE Events'[Len(received) + 1] = Events[Len(received) + 1]
    <3>1. Len(wire) > 0
      BY <1>1, <2>1, StreamShape
    <3> QED
      BY <1>1, <1>6, <3>1
  <2>2. /\ client \in Parser /\ arrived \in Nat /\ (wire = <<>> => arrived = 0) /\ (arrived = 0 => client = Stream!Begin)
        /\ wire # <<>> => arrived < Len(wire[1]) /\ Parsing(Events[Len(received) + 1], arrived, client)
    BY DEF StreamInv, ClientOK
  <2> QED
    BY <1>2, <2>1, <2>2 DEF ClientOK
<1>10. ReceivedOK'
  <2>1. ASSUME NEW i \in 1 .. Len(received) PROVE Events'[i] = Events[i]
    BY <1>1, <1>6
  <2>2. \A i \in 1 .. Len(received) : Stream!Plain(Events[i]) => received[i] = <<Stream!FirstLine(Events[i])>>
    BY DEF StreamInv, ReceivedOK
  <2> QED
    BY <1>2, <2>1, <2>2 DEF ReceivedOK
<1>11. Stream!NothingLost'
  BY <1>1, <1>2, <1>4, <1>5, GreetingSendable DEF Stream!NothingLost
<1>12. Len(emitted') <= MaxEvents
  BY <1>1, <1>2, <1>4, StreamAssumption
<1>13. greeting' \in {Stream!Greeting, Tail(Stream!Greeting), <<>>} /\ open' \in BOOLEAN
  BY <1>2 DEF StreamInv
<1> QED
  BY <1>4, <1>7, <1>8, <1>9, <1>10, <1>11, <1>12, <1>13 DEF StreamInv

(* The text of the next event is put on the wire.                          *)
LEMMA StreamPut ==
  ASSUME StreamInv, NEW e, Sendable(e), wire' = Append(wire, Stream!Encode(e)),
         Len(received) + Len(wire) < Len(Events), e = Events[Len(received) + Len(wire) + 1],
         UNCHANGED <<emitted, arrived, client, received>>
  PROVE  WireOK' /\ ClientOK' /\ ReceivedOK' /\ Len(wire') = Len(wire) + 1
<1>1. /\ Len(wire) \in Nat /\ Len(received) \in Nat /\ wire \in Seq(Seq(Symbol))
      /\ received \in Seq(Seq(Made))
  BY StreamShape
<1>2. PICK t : t = Stream!Encode(e) /\ t \in Seq(Symbol) /\ Len(t) > 0
  <2>1. Stream!Encode(e) \in Seq(Symbol) /\ Len(Stream!Encode(e)) > 0
    BY TextTyped
  <2> QED
    BY <2>1
<1>3. /\ wire' \in Seq(Seq(Symbol)) /\ Len(wire') = Len(wire) + 1
      /\ \A i \in 1 .. Len(wire) : wire'[i] = wire[i]
      /\ wire'[Len(wire) + 1] = t
  BY <1>1, <1>2
<1>4. Events' = Events /\ arrived' = arrived /\ client' = client /\ received' = received
  BY DEF Events
<1>5. WireOK'
  <2>1. ASSUME NEW i \in 1 .. Len(wire') PROVE wire'[i] = Stream!Encode(Events[Len(received) + i])
    <3>1. CASE i <= Len(wire)
      <4>1. i \in 1 .. Len(wire)
        BY <1>1, <1>3, <3>1
      <4> QED
        BY <1>3, <4>1 DEF StreamInv, WireOK
    <3>2. CASE i = Len(wire) + 1
      <4>1. Len(received) + i = Len(received) + Len(wire) + 1
        BY <1>1, <3>2
      <4> QED
        BY <1>2, <1>3, <3>2, <4>1
    <3> QED
      BY <1>1, <1>3, <3>1, <3>2
  <2> QED
    BY <1>1, <1>3, <1>4, <2>1 DEF WireOK
<1>6. ClientOK'
  <2>1. /\ client \in Parser /\ arrived \in Nat /\ (arrived = 0 => client = Stream!Begin)
        /\ (wire = <<>> => arrived = 0)
        /\ wire # <<>> => arrived < Len(wire[1]) /\ Parsing(Events[Len(received) + 1], arrived, client)
    BY DEF StreamInv, ClientOK
  <2>2. wire' # <<>>
    BY <1>1, <1>3
  <2>3. CASE wire = <<>>
    <3>1. arrived = 0 /\ client = Stream!Begin /\ Len(wire) = 0
      BY <2>1, <2>3
    <3>2. Header(Events[Len(received) + 1]) > 0 /\ Len(Events[Len(received) + 1].data) >= 0
      <4>1. Sendable(Events[Len(received) + 1])
        BY <1>1, <3>1
      <4> QED
        BY <4>1, TextTyped
    <3>3. Parsing(Events[Len(received) + 1], 0, Stream!Begin)
      <4>1. PICK f, h, m : /\ f = Events[Len(received) + 1] /\ h = Header(f) /\ m = Len(f.data)
                           /\ h \in {1, 4} /\ m \in Nat
        <5>1. Sendable(Events[Len(received) + 1])
          BY <1>1, <3>1
        <5> QED
          BY <5>1, TextTyped
      <4>2. ~(0 > 0) /\ ~(0 >= h) /\ ~(0 > h + m)
        BY <4>1
      <4> QED
        BY <4>1, <4>2 DEF Parsing
    <3>4. wire'[1] = t
      BY <1>3, <3>1
    <3> QED
      BY <1>2, <1>4, <2>1, <2>2, <3>1, <3>3, <3>4 DEF ClientOK
  <2>4. CASE wire # <<>>
    <3>1. wire'[1] = wire[1]
      <4>1. Len(wire) >= 1
        BY <1>1, <2>4
      <4> QED
        BY <1>1, <1>3, <4>1
    <3> QED
      BY <1>4, <2>1, <2>2, <2>4, <3>1 DEF ClientOK
  <2> QED
    BY <2>3, <2>4
<1>7. ReceivedOK'
  BY <1>4 DEF StreamInv, ReceivedOK
<1> QED
  BY <1>3, <1>5, <1>6, <1>7

LEMMA StreamGreet ==
  ASSUME StreamInv, Stream!Greet
  PROVE  StreamInv'
<1>1. /\ greeting # <<>> /\ wire' = Append(wire, Stream!Encode(Head(greeting))) /\ greeting' = Tail(greeting)
      /\ emitted' = emitted /\ eventBus' = eventBus /\ arrived' = arrived /\ client' = client
      /\ received' = received /\ open' = open
  BY DEF Stream!Greet
<1>2. /\ Len(emitted) \in Nat /\ Len(eventBus) \in Nat /\ Len(wire) \in Nat /\ Len(received) \in Nat
      /\ Len(Events) = 2 + Len(emitted)
      /\ Events[1] = Stream!Greeting[1] /\ Events[2] = Stream!Greeting[2]
      /\ Len(greeting) + Len(eventBus) + Len(wire) + Len(received) = 2 + Len(emitted)
  BY StreamShape
<1>3. PICK S : Stream!Greeting \in Seq(S) /\ Len(Stream!Greeting) = 2
  BY GreetingSendable
<1>4. Len(eventBus) = Len(emitted)
  BY <1>1 DEF StreamInv, BusOK
<1>5. /\ Head(greeting) = Events[Len(received) + Len(wire) + 1] /\ Len(received) + Len(wire) < Len(Events)
      /\ Sendable(Head(greeting)) /\ greeting' \in {Tail(Stream!Greeting), <<>>}
      /\ Len(greeting') = Len(greeting) - 1
  <2>1. CASE greeting = Stream!Greeting
    <3>1. Len(greeting) = 2 /\ Head(greeting) = Stream!Greeting[1] /\ Len(Tail(greeting)) = 1
      BY <1>3, <2>1
    <3>2. Len(received) + Len(wire) = 0
      BY <1>2, <1>4, <3>1
    <3> QED
      BY <1>1, <1>2, <2>1, <3>1, <3>2, GreetingSendable
  <2>2. CASE greeting = Tail(Stream!Greeting)
    <3>1. Len(greeting) = 1 /\ Head(greeting) = Stream!Greeting[2] /\ Tail(greeting) = <<>> /\ Len(Tail(greeting)) = 0
      <4>1. greeting \in Seq(S) /\ Len(greeting) = 1 /\ greeting[1] = Stream!Greeting[2]
        <5>1. Stream!Greeting # <<>> /\ 1 \in 1 .. 2 - 1
          BY <1>3
        <5>2. /\ Tail(Stream!Greeting) \in Seq(S) /\ Len(Tail(Stream!Greeting)) = 2 - 1
              /\ \A i \in 1 .. 2 - 1 : Tail(Stream!Greeting)[i] = Stream!Greeting[i + 1]
          BY <1>3, <5>1, Tails
        <5> QED
          BY <2>2, <5>1, <5>2
      <4>2. greeting # <<>>
        BY <4>1
      <4> QED
        BY <4>1, <4>2, Tails
    <3>2. Len(received) + Len(wire) = 1
      BY <1>2, <1>4, <3>1
    <3> QED
      BY <1>1, <1>2, <3>1, <3>2, GreetingSendable
  <2> QED
    BY <1>1, <2>1, <2>2 DEF StreamInv
<1>6. WireOK' /\ ClientOK' /\ ReceivedOK' /\ Len(wire') = Len(wire) + 1
  BY <1>1, <1>5, StreamPut
<1>7. BusOK'
  BY <1>1, <1>4 DEF StreamInv, BusOK
<1>8. Stream!NothingLost'
  BY <1>1, <1>2, <1>5, <1>6, GreetingSendable DEF Stream!NothingLost
<1> QED
  BY <1>1, <1>5, <1>6, <1>7, <1>8 DEF StreamInv

LEMMA StreamWrite ==
  ASSUME StreamInv, Stream!Write
  PROVE  StreamInv'
<1>1. /\ greeting = <<>> /\ eventBus # <<>> /\ wire' = Append(wire, Head(eventBus)) /\ eventBus' = Tail(eventBus)
      /\ greeting' = greeting /\ emitted' = emitted /\ arrived' = arrived /\ client' = client
      /\ received' = received /\ open' = open
  BY DEF Stream!Write
<1>2. /\ Len(emitted) \in Nat /\ Len(eventBus) \in Nat /\ Len(wire) \in Nat /\ Len(received) \in Nat
      /\ eventBus \in Seq(Seq(Symbol)) /\ Len(Events) = 2 + Len(emitted) /\ Len(greeting) = 0
      /\ \A i \in 1 .. Len(emitted) : Events[2 + i] = emitted[i]
      /\ \A i \in 1 .. Len(Events) : Sendable(Events[i])
      /\ Len(greeting) + Len(eventBus) + Len(wire) + Len(received) = 2 + Len(emitted)
  BY <1>1, StreamShape
<1>3. /\ Len(eventBus) >= 1 /\ Len(eventBus) <= Len(emitted) /\ Head(eventBus) = eventBus[1]
      /\ eventBus' \in Seq(Seq(Symbol)) /\ Len(eventBus') = Len(eventBus) - 1
      /\ \A i \in 1 .. Len(eventBus) - 1 : eventBus'[i] = eventBus[i + 1]
  BY <1>1, <1>2 DEF StreamInv, BusOK
<1>4. PICK p : p = Len(emitted) - Len(eventBus) + 1 /\ p \in 1 .. Len(emitted)
  <2>1. Len(emitted) - Len(eventBus) + 1 \in 1 .. Len(emitted)
    BY <1>2, <1>3
  <2> QED
    BY <2>1
<1>5. Head(eventBus) = Stream!Encode(Events[2 + p]) /\ Sendable(Events[2 + p])
  <2>1. eventBus[1] = Stream!Encode(emitted[p])
    BY <1>3, <1>4 DEF StreamInv, BusOK
  <2>2. Events[2 + p] = emitted[p] /\ 2 + p \in 1 .. Len(Events)
    <3>1. (\A i \in 1 .. Len(emitted) : Events[2 + i] = emitted[i]) /\ Len(emitted) \in Nat /\ Len(Events) = 2 + Len(emitted)
      BY <1>2
    <3> QED
      BY <1>4, <3>1
  <2> QED
    BY <1>2, <1>3, <2>1, <2>2
<1>6. Len(received) + Len(wire) + 1 = 2 + p /\ Len(received) + Len(wire) < Len(Events)
  <2>1. /\ Len(emitted) \in Nat /\ Len(eventBus) \in Nat /\ Len(wire) \in Nat /\ Len(received) \in Nat
        /\ Len(greeting) = 0 /\ Len(Events) = 2 + Len(emitted)
        /\ Len(greeting) + Len(eventBus) + Len(wire) + Len(received) = 2 + Len(emitted)
    BY <1>2
  <2> QED
    BY <1>4, <2>1
<1>7. WireOK' /\ ClientOK' /\ ReceivedOK' /\ Len(wire') = Len(wire) + 1
  BY <1>1, <1>5, <1>6, StreamPut
<1>8. BusOK'
  <2>1. ASSUME NEW i \in 1 .. Len(eventBus')
        PROVE  eventBus'[i] = Stream!Encode(emitted[Len(emitted) - Len(eventBus') + i])
    <3>1. /\ i \in 1 .. Len(eventBus) - 1 /\ i + 1 \in 1 .. Len(eventBus)
          /\ Len(emitted) - Len(eventBus) + (i + 1) = Len(emitted) - Len(eventBus') + i
      BY <1>2, <1>3
    <3>2. eventBus[i + 1] = Stream!Encode(emitted[Len(emitted) - Len(eventBus) + (i + 1)])
      BY <3>1 DEF StreamInv, BusOK
    <3> QED
      BY <1>3, <3>1, <3>2
  <2>2. Len(eventBus') <= Len(emitted) /\ Len(eventBus') <= Capacity
    BY <1>2, <1>3, StreamAssumption DEF StreamInv, BusOK
  <2> QED
    BY <1>1, <1>3, <2>1, <2>2 DEF BusOK
<1>9. Stream!NothingLost'
  <2>1. /\ Len(emitted) \in Nat /\ Len(eventBus) \in Nat /\ Len(wire) \in Nat /\ Len(received) \in Nat
        /\ Len(greeting) = 0 /\ Len(greeting) + Len(eventBus) + Len(wire) + Len(received) = 2 + Len(emitted)
    BY <1>2
  <2>2. /\ Len(eventBus') = Len(eventBus) - 1 /\ Len(wire') = Len(wire) + 1 /\ greeting' = greeting
        /\ received' = received /\ emitted' = emitted
    BY <1>1, <1>3, <1>7
  <2> QED
    BY <2>1, <2>2, GreetingSendable DEF Stream!NothingLost
<1> QED
  BY <1>1, <1>7, <1>8, <1>9 DEF StreamInv

(* The text that is arriving.                                              *)
LEMMA Arriving ==
  ASSUME StreamInv, wire # <<>>
  PROVE  LET e == Events[Len(received) + 1] IN
         /\ Len(received) + 1 \in 1 .. Len(Events) /\ Sendable(e) /\ Head(wire) = Stream!Encode(e)
         /\ Head(wire) = wire[1] /\ arrived \in Nat /\ client \in Parser /\ Parsing(e, arrived, client)
         /\ Layout(e, Head(wire), Header(e), Len(e.data))
<1>1. /\ Len(wire) \in Nat /\ Len(received) \in Nat /\ wire \in Seq(Seq(Symbol)) /\ Len(Events) \in Nat
      /\ Len(eventBus) \in Nat /\ Len(greeting) \in Nat
      /\ Len(greeting) + Len(eventBus) + Len(wire) + Len(received) = Len(Events)
      /\ \A i \in 1 .. Len(Events) : Sendable(Events[i])
  <2>1. /\ Len(wire) \in Nat /\ Len(received) \in Nat /\ wire \in Seq(Seq(Symbol))
        /\ Len(eventBus) \in Nat /\ Len(greeting) \in Nat
        /\ \A i \in 1 .. Len(Events) : Sendable(Events[i])
    BY StreamShape
  <2>2. /\ Len(emitted) \in Nat /\ Len(Events) = 2 + Len(emitted)
        /\ Len(greeting) + Len(eventBus) + Len(wire) + Len(received) = 2 + Len(emitted)
    BY StreamShape
  <2> QED
    BY <2>1, <2>2
<1>2. Len(wire) >= 1 /\ Head(wire) = wire[1]
  BY <1>1, Tails
<1>3. Len(received) + 1 \in 1 .. Len(Events)
  BY <1>1, <1>2
<1>4. wire[1] = Stream!Encode(Events[Len(received) + 1])
  BY <1>1, <1>2 DEF StreamInv, WireOK
<1>5. arrived \in Nat /\ client \in Parser /\ Parsing(Events[Len(received) + 1], arrived, client)
  BY DEF StreamInv, ClientOK
<1>6. Sendable(Events[Len(received) + 1])
  BY <1>1, <1>3
<1> QED
  BY <1>2, <1>3, <1>4, <1>5, <1>6, TextOf

LEMMA StreamArrive ==
  ASSUME StreamInv, Stream!Arrive
  PROVE  StreamInv'
<1>1. /\ wire # <<>> /\ arrived + 1 < Len(Head(wire)) /\ client' = Stream!Parse(client, Head(wire)[arrived + 1])
      /\ arrived' = arrived + 1 /\ greeting' = greeting /\ emitted' = emitted /\ eventBus' = eventBus
      /\ wire' = wire /\ received' = received /\ open' = open
  BY DEF Stream!Arrive
<1>2. PICK e, t : e = Events[Len(received) + 1] /\ t = Head(wire)
  OBVIOUS
<1>3. /\ Sendable(e) /\ t = Stream!Encode(e) /\ t = wire[1] /\ arrived \in Nat /\ client \in Parser
      /\ Parsing(e, arrived, client) /\ Layout(e, t, Header(e), Len(e.data))
  BY <1>1, <1>2, Arriving
<1>4. t \in Seq(Symbol) /\ Len(t) = Header(e) + Len(e.data) + 2 /\ Header(e) \in Nat /\ Len(e.data) \in Nat
  BY <1>3 DEF Layout, Header
<1>5. arrived < Header(e) + Len(e.data) + 1 /\ t[arrived + 1] \in Symbol
  <2>1. arrived + 1 < Len(t)
    BY <1>1, <1>2
  <2>2. arrived + 1 \in 1 .. Len(t)
    BY <1>3, <1>4, <2>1
  <2> QED
    BY <1>3, <1>4, <2>1, <2>2
<1>6. client' = Stream!Parse(client, t[arrived + 1]) /\ client' = Stream!Parse(client, Stream!Encode(e)[arrived + 1])
  BY <1>1, <1>2, <1>3
<1>7. Parsing(e, arrived + 1, client')
  BY <1>3, <1>5, <1>6, ParsingStep
<1>8. client' \in Parser
  BY <1>3, <1>5, <1>6, ParserKept
<1>9. Events' = Events
  BY <1>1 DEF Events
<1>10. ClientOK'
  <2>1. arrived' \in Nat /\ arrived' # 0 /\ wire' # <<>> /\ arrived' < Len(wire'[1])
    BY <1>1, <1>2, <1>3
  <2>2. Parsing(Events'[Len(received') + 1], arrived', client')
    BY <1>1, <1>2, <1>7, <1>9
  <2> QED
    BY <1>8, <2>1, <2>2 DEF ClientOK
<1>11. BusOK' /\ WireOK' /\ ReceivedOK' /\ Stream!NothingLost'
  BY <1>1, <1>9 DEF StreamInv, BusOK, WireOK, ReceivedOK, Stream!NothingLost
<1> QED
  BY <1>1, <1>10, <1>11 DEF StreamInv

LEMMA StreamArriveLast ==
  ASSUME StreamInv, Stream!ArriveLast
  PROVE  StreamInv'
<1>1. PICK parsed : parsed = Stream!Parse(client, Head(wire)[arrived + 1])
  OBVIOUS
<1>2. /\ wire # <<>> /\ arrived + 1 = Len(Head(wire)) /\ client' = [parsed EXCEPT !.made = <<>>]
      /\ received' = Append(received, parsed.made) /\ wire' = Tail(wire) /\ arrived' = 0
      /\ greeting' = greeting /\ emitted' = emitted /\ eventBus' = eventBus /\ open' = open
  BY <1>1 DEF Stream!ArriveLast
<1>3. PICK e, t, h, m : e = Events[Len(received) + 1] /\ t = Head(wire) /\ h = Header(e) /\ m = Len(e.data)
  OBVIOUS
<1>4. /\ Sendable(e) /\ arrived \in Nat /\ client \in Parser
      /\ Parsing(e, arrived, client) /\ Layout(e, t, h, m)
  BY <1>2, <1>3, Arriving
<1>5. Len(t) = h + m + 2 /\ h \in Nat /\ m \in Nat /\ t[h + m + 2] = "nl"
  BY <1>4 DEF Layout
<1>6. arrived = h + m + 1 /\ arrived + 1 = h + m + 2
  <2>1. arrived + 1 = Len(t)
    BY <1>2, <1>3
  <2> QED
    BY <1>4, <1>5, <2>1
<1>7. parsed = Stream!Parse(client, "nl") /\ parsed \in Parser
  <2>1. parsed = Stream!Parse(client, "nl")
    BY <1>1, <1>3, <1>5, <1>6
  <2> QED
    BY <1>4, <2>1, ParserKept, Symbols
<1>8. /\ client' = Stream!Begin
      /\ Stream!Plain(e) => parsed.made = <<Stream!FirstLine(e)>>
  <2>1. Parsing(e, Header(e) + Len(e.data) + 1, client)
    BY <1>3, <1>4, <1>6
  <2> QED
    BY <1>2, <1>4, <1>7, <2>1, LastSymbol
<1>9. /\ Len(wire) \in Nat /\ Len(received) \in Nat /\ wire \in Seq(Seq(Symbol))
      /\ received \in Seq(Seq(Made)) /\ Len(emitted) \in Nat /\ Len(eventBus) \in Nat /\ Len(greeting) \in Nat
      /\ Len(greeting) + Len(eventBus) + Len(wire) + Len(received) = 2 + Len(emitted)
  BY StreamShape
<1>10. parsed.made \in Seq(Made)
  BY <1>7 DEF Parser, Made
<1>11. /\ received' \in Seq(Seq(Made)) /\ Len(received') = Len(received) + 1
       /\ \A i \in 1 .. Len(received) : received'[i] = received[i]
       /\ received'[Len(received) + 1] = parsed.made
  <2>1. PICK r, made : r = received /\ made = parsed.made /\ r \in Seq(Seq(Made)) /\ made \in Seq(Made)
    BY <1>9, <1>10
  <2>2. /\ Append(r, made) \in Seq(Seq(Made)) /\ Len(Append(r, made)) = Len(r) + 1
        /\ \A i \in 1 .. Len(r) : Append(r, made)[i] = r[i]
        /\ Append(r, made)[Len(r) + 1] = made
    BY <2>1
  <2> QED
    BY <1>2, <2>1, <2>2
<1>12. /\ wire' \in Seq(Seq(Symbol)) /\ Len(wire') = Len(wire) - 1 /\ Len(wire) >= 1
       /\ \A i \in 1 .. Len(wire) - 1 : wire'[i] = wire[i + 1]
  BY <1>2, <1>9, Tails
<1>13. Events' = Events
  BY <1>2 DEF Events
<1>14. WireOK'
  <2>1. ASSUME NEW i \in 1 .. Len(wire') PROVE wire'[i] = Stream!Encode(Events[Len(received') + i])
    <3>1. i \in 1 .. Len(wire) - 1 /\ i + 1 \in 1 .. Len(wire) /\ Len(received) + (i + 1) = Len(received') + i
      BY <1>9, <1>11, <1>12
    <3>2. wire[i + 1] = Stream!Encode(Events[Len(received) + (i + 1)])
      BY <3>1 DEF StreamInv, WireOK
    <3> QED
      BY <1>12, <3>1, <3>2
  <2> QED
    BY <1>11, <1>12, <1>13, <2>1 DEF WireOK, Made
<1>15. ClientOK'
  <2>1. wire' # <<>> => 0 < Len(wire'[1]) /\ Parsing(Events'[Len(received') + 1], 0, Stream!Begin)
    <3> SUFFICES ASSUME wire' # <<>>
                 PROVE  0 < Len(wire'[1]) /\ Parsing(Events'[Len(received') + 1], 0, Stream!Begin)
      OBVIOUS
    <3>1. 1 \in 1 .. Len(wire')
      BY <1>12
    <3>2. wire'[1] = Stream!Encode(Events[Len(received) + 2]) /\ Len(received') + 1 = Len(received) + 2
      <4>1. wire'[1] = Stream!Encode(Events'[Len(received') + 1])
        BY <1>14, <3>1 DEF WireOK
      <4>2. Len(received') + 1 = Len(received) + 2
        BY <1>9, <1>11
      <4> QED
        BY <1>13, <4>1, <4>2
    <3>3. PICK f : f = Events[Len(received) + 2] /\ Sendable(f)
      <4>1. Len(received) + 2 \in 1 .. Len(Events)
        BY <1>9, <1>12, <3>1, StreamShape
      <4> QED
        BY <4>1, StreamShape
    <3>4. 0 < Len(Stream!Encode(f)) /\ ~(0 >= Header(f)) /\ ~(0 > Header(f) + Len(f.data))
      BY <3>3, TextTyped
    <3> QED
      BY <1>13, <3>2, <3>3, <3>4 DEF Parsing
  <2> QED
    BY <1>2, <1>8, <2>1, BeginIsParser DEF ClientOK
<1>16. ReceivedOK'
  <2>1. ASSUME NEW i \in 1 .. Len(received'), Stream!Plain(Events[i])
        PROVE  received'[i] = <<Stream!FirstLine(Events[i])>>
    <3>1. CASE i \in 1 .. Len(received)
      BY <1>11, <2>1, <3>1 DEF StreamInv, ReceivedOK
    <3>2. CASE i = Len(received) + 1
      BY <1>3, <1>8, <1>11, <2>1, <3>2
    <3> QED
      BY <1>9, <1>11, <3>1, <3>2
  <2> QED
    BY <1>13, <2>1 DEF ReceivedOK
<1>17. BusOK'
  BY <1>2 DEF StreamInv, BusOK
<1>18. Stream!NothingLost'
  BY <1>2, <1>9, <1>11, <1>12, GreetingSendable DEF Stream!NothingLost
<1> QED
  BY <1>2, <1>14, <1>15, <1>16, <1>17, <1>18 DEF StreamInv

LEMMA StreamUnchanged ==
  ASSUME StreamInv, UNCHANGED <<greeting, emitted, eventBus, wire, arrived, client, received>>, open' \in BOOLEAN
  PROVE  StreamInv'
<1>1. Events' = Events
  BY DEF Events
<1> QED
  BY <1>1 DEF StreamInv, BusOK, WireOK, ClientOK, ReceivedOK, Stream!NothingLost

LEMMA StreamNext == StreamInv /\ [Stream!Next]_streamVars => StreamInv'
<1> SUFFICES ASSUME StreamInv, [Stream!Next]_streamVars PROVE StreamInv'
  OBVIOUS
<1>1. ASSUME NEW e \in Stream!Event, Stream!Emit(e) PROVE StreamInv'
  BY <1>1, StreamEmit
<1>2. CASE Stream!Greet
  BY <1>2, StreamGreet
<1>3. CASE Stream!Write
  BY <1>3, StreamWrite
<1>4. CASE Stream!Arrive
  BY <1>4, StreamArrive
<1>5. CASE Stream!ArriveLast
  BY <1>5, StreamArriveLast
<1>6. CASE Stream!Break
  BY <1>6, StreamUnchanged DEF Stream!Break
<1>7. CASE Stream!Reconnect
  <2>1. Stream!Init'
    BY <1>7 DEF Stream!Reconnect, Stream!Init
  <2>2. Stream!Init' => StreamInv'
    BY StreamInit, PTL
  <2> QED
    BY <2>1, <2>2
<1>8. CASE UNCHANGED streamVars
  BY <1>8, StreamUnchanged DEF streamVars, StreamInv
<1> QED
  BY <1>1, <1>2, <1>3, <1>4, <1>5, <1>6, <1>7, <1>8 DEF Stream!Next

(* What the inductive invariant says of the run's property.                *)
LEMMA StreamInvSuffices == StreamInv => StreamIntact
<1> SUFFICES ASSUME StreamInv PROVE StreamIntact
  OBVIOUS
<1>1. /\ Len(emitted) \in Nat /\ Len(eventBus) \in Nat /\ Len(wire) \in Nat /\ Len(received) \in Nat
      /\ emitted \in Seq(Stream!Event) /\ eventBus \in Seq(Seq(Symbol)) /\ wire \in Seq(Seq(Symbol))
      /\ received \in Seq(Seq(Made)) /\ Len(Events) = 2 + Len(emitted) /\ Len(greeting) \in {0, 1, 2}
      /\ Len(greeting) + Len(eventBus) + Len(wire) + Len(received) = 2 + Len(emitted)
      /\ \A i \in 1 .. Len(Events) : Sendable(Events[i])
  BY StreamShape
<1>2. PICK events : events = Events /\ events = Stream!Greeting \o emitted /\ DOMAIN events = 1 .. Len(events)
  <2>1. DOMAIN Events = 1 .. Len(Events)
    BY <1>1, EventsInSeq
  <2> QED
    BY <2>1 DEF Events
<1>3. wire # <<>> => arrived < Len(Head(wire))
  <2> SUFFICES ASSUME wire # <<>> PROVE arrived < Len(Head(wire))
    OBVIOUS
  <2> QED
    BY Arriving DEF StreamInv, ClientOK
<1>4. client \in Parser /\ arrived \in Nat /\ (wire = <<>> => arrived = 0) /\ (arrived = 0 => client = Stream!Begin)
  BY DEF StreamInv, ClientOK
<1>5. Stream!TypeOK
  <2>1. ASSUME NEW i \in DOMAIN eventBus PROVE \E e \in Stream!Event : eventBus[i] = Stream!Encode(e)
    <3>1. i \in 1 .. Len(eventBus)
      BY <1>1
    <3>2. Len(emitted) - Len(eventBus) + i \in 1 .. Len(emitted)
      BY <1>1, <3>1 DEF StreamInv, BusOK
    <3>3. emitted[Len(emitted) - Len(eventBus) + i] \in Stream!Event
      BY <1>1, <3>2
    <3> QED
      BY <3>1, <3>3 DEF StreamInv, BusOK
  <2>2. client.field \in {"blank", "event_field", "data_field", "ignored"}
    BY <1>4 DEF Parser
  <2>3. arrived # 0 => wire # <<>> /\ arrived < Len(Head(wire))
    BY <1>3, <1>4
  <2>4. Len(eventBus) <= Capacity
    BY DEF StreamInv, BusOK
  <2> QED
    BY <1>4, <2>1, <2>2, <2>3, <2>4 DEF StreamInv, Stream!TypeOK
<1>6. Stream!ReceivedAsEmitted
  <2>1. ASSUME NEW i \in DOMAIN received
        PROVE  i \in DOMAIN events /\ (Stream!Plain(events[i]) => received[i] = <<Stream!FirstLine(events[i])>>)
    <3>1. i \in 1 .. Len(received)
      BY <1>1
    <3>2. i \in 1 .. Len(events)
      BY <1>1, <1>2, <3>1
    <3> QED
      BY <1>2, <3>1, <3>2 DEF StreamInv, ReceivedOK
  <2>2. ASSUME arrived # 0
        PROVE  /\ Len(received) + 1 \in DOMAIN events
               /\ Stream!Plain(events[Len(received) + 1]) =>
                    client.made \in {<<>>, <<Stream!FirstLine(events[Len(received) + 1])>>}
    <3>1. wire # <<>>
      BY <1>4, <2>2
    <3>2. PICK e : e = Events[Len(received) + 1]
      OBVIOUS
    <3>3. Len(received) + 1 \in 1 .. Len(Events) /\ Sendable(e) /\ Parsing(e, arrived, client)
      BY <3>1, <3>2, Arriving
    <3>4. Stream!Plain(e) => client.made \in {<<>>, <<Stream!FirstLine(e)>>}
      BY <1>4, <2>2, <3>3, MadeSoFar
    <3> QED
      BY <1>2, <3>2, <3>3, <3>4
  <2> QED
    BY <1>2, <1>4, <2>1, <2>2 DEF Stream!ReceivedAsEmitted
<1>7. Stream!NothingLost
  BY DEF StreamInv
<1> QED
  BY <1>5, <1>6, <1>7 DEF StreamIntact

(***************************************************************************)
(* The theorems                                                            *)
(***************************************************************************)
LEMMA SideBySideSteps == SideBySide => Spec /\ Online!Spec /\ Types!Spec /\ Stream!Spec
<1>1. Start => Init /\ Online!Init /\ Types!Init /\ Stream!Init
  BY DEF Start
<1>2. ASSUME [\/ PresenceRests /\ TypingRests /\ StreamRests /\ Next
              \/ ProfilesRest /\ TypingRests /\ StreamRests /\ Online!Next
              \/ ProfilesRest /\ PresenceRests /\ StreamRests /\ Types!Next
              \/ ProfilesRest /\ PresenceRests /\ TypingRests /\ Stream!Next
             ]_<<vars, presenceVars, typingVars, streamVars>>
      PROVE  /\ [Next]_vars /\ [Online!Next]_(Online!vars) /\ [Types!Next]_(Types!vars)
             /\ [Stream!Next]_(Stream!vars)
  BY <1>2 DEF ProfilesRest, PresenceRests, TypingRests, StreamRests, presenceVars, typingVars, streamVars,
              Online!vars, Types!vars, Stream!vars
<1> QED
  BY <1>1, <1>2, PTL DEF SideBySide, Spec, Online!Spec, Types!Spec, Stream!Spec

(* The invariant that the proofs about UserCache rest on.                  *)
THEOREM ProfileInvariance == Spec => []ProfileInv
BY ProfileInit, ProfileNext, PTL DEF Spec

(* The one that those about Presence rest on.                              *)
THEOREM PresenceInvariance == Online!Spec => []PresenceInv
BY PresenceInit, PresenceNext, PTL DEF Online!Spec

(* The one that those about Typing rest on.                                *)
THEOREM TypingInvariance == Types!Spec => []TypingInv
BY TypingInit, TypingNext, PTL DEF Types!Spec

(* The one that those about EventStream rest on.                           *)
THEOREM StreamInvariance == Stream!Spec => []StreamInv
<1>1. StreamInv /\ [Stream!Next]_(Stream!vars) => StreamInv'
  BY StreamNext DEF streamVars, Stream!vars
<1> QED
  BY StreamInit, <1>1, PTL DEF Stream!Spec

(* However the requests that read, update and refresh a profile interleave,*)
(* the cache follows the table, and a message is not signed with a profile *)
(* older than an update answered before it came, but after a refresh that  *)
(* failed or was overtaken; and a client shows each field as the table has *)
(* it, but one with updates that it was not told of, or that overlapped.   *)
THEOREM ProfileFollowedHolds == SideBySide => []ProfileFollowed
BY ProfileInvSuffices, ProfileInvariance, SideBySideSteps, PTL

(* A session that lists the members knows who is online, but for the       *)
(* announcements under way and those it could not get: sent while it was   *)
(* not in the room, dropped at a full bus, or overtaken by another.        *)
THEOREM PresenceFollowedHolds == SideBySide => []PresenceFollowed
BY PresenceInvSuffices, PresenceInvariance, SideBySideSteps, PTL

(* Once a report of typing was sent to the room and none overlapped it,    *)
(* every session in the room whose bus took the events, shows this report  *)
(* or a later one, if it came before the report did.                       *)
THEOREM TypingSettlesHolds == SideBySide => []TypingSettles
BY TypingInvSuffices, TypingInvariance, SideBySideSteps, PTL

(* Whatever is put on the bus and however the texts are cut up on their    *)
(* way, the client receives its greeting and then the events of its bus,   *)
(* in order and each as emitted, or the first line of it: data of several  *)
(* lines spoils no other event, and a connection that breaks at any symbol *)
(* costs what had not arrived and makes no event of a part.                *)
THEOREM StreamIntactHolds == SideBySide => []StreamIntact
BY StreamInvSuffices, StreamInvariance, SideBySideSteps, PTL
=============================================================================
