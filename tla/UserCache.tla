----------------------------- MODULE UserCache -----------------------------
(***************************************************************************)
(* The profile (display name and picture) of one user: the row of the table*)
(* users, the copy in userCache that messages are signed with, and what a  *)
(* client shows, which USER_INFO or SELF_USER_INFO told it last.           *)
(*                                                                         *)
(* Three copies and no lock: an update commits, refreshes the cache in two *)
(* steps (UserRefresh reads the row and then adds what it read) and tells  *)
(* the client what it was asked to write, while other requests update,     *)
(* read or refill the cache.  The cache has the profile as a whole; an     *)
(* update, and so its event, is about one field.                           *)
(*                                                                         *)
(* A profile is identified with the number of the update that made it, a   *)
(* field with that of the update that wrote it.                            *)
(***************************************************************************)
EXTENDS Integers, FiniteSets

CONSTANTS
  Request,
  Field,         \* of a profile: display_name and picture
  NoField,       \* zero value
  MaxUpdates     \* bound on the updates committed

ASSUME FieldAssumption == NoField \notin Field
ASSUME BoundAssumption == MaxUpdates \in Nat

NoEntry == -1

VARIABLES
  row,      \* the profile in the table
  cache,    \* the profile in userCache, or NoEntry
  written,  \* each field in the table
  shown,    \* each field as a client shows it
  req,      \* the request each goroutine serves
  done,     \* the last update whose request was answered
  stale,    \* a refresh failed or was lapped, and none has repaired that since
  unheard   \* the fields with updates that the client was not told of, or in
            \* another order, and none alone that it was told of since

vars == <<row, cache, written, shown, req, done, stale, unheard>>

(* no: the update the request has committed; 0 if it only reads, or has    *)
(* nothing to write.  since: done when it began.  clean: the cache was not *)
(* stale since.  alone: no other update of the field was under way since.  *)
Idle == [at |-> "idle", kind |-> "get", no |-> 0, field |-> NoField, data |-> NoEntry,
         since |-> 0, clean |-> TRUE, alone |-> TRUE]

Writing(f) == {r \in Request : req[r].field = f}
Refreshing == {r \in Request : req[r].at = "add"}
Answer(r) == req' = [req EXCEPT ![r] = Idle]

Init ==
  /\ row = 0 /\ cache = NoEntry /\ done = 0
  /\ written = [f \in Field |-> 0] /\ shown = written
  /\ req = [r \in Request |-> Idle]
  /\ stale = FALSE /\ unheard = {}

(***************************************************************************)
(* updateUserInfo, uploadUserAvatar                                        *)
(***************************************************************************)
(* The update of field f is committed; request x tells it.                 *)
Commit(r, f, x) ==
  /\ req[r] = Idle /\ row < MaxUpdates
  /\ row' = row + 1
  /\ written' = [written EXCEPT ![f] = row + 1]
  /\ stale' = (stale \/ Refreshing # {})
  /\ unheard' = IF Writing(f) = {} THEN unheard ELSE unheard \cup {f}
  /\ req' = [q \in Request |->
       IF q = r THEN [x EXCEPT !.kind = "update", !.no = row + 1, !.field = f,
                               !.alone = Writing(f) = {}]
       ELSE [req[q] EXCEPT !.clean = @ /\ Refreshing = {}, !.alone = @ /\ q \notin Writing(f)]]
  /\ UNCHANGED <<cache, shown, done>>

(* Mutant: the refresh reads the row before the transaction is committed.  *)
UpdateRefreshesFirst(r, f) == Commit(r, f, [Idle EXCEPT !.at = "add", !.data = row])

(* The new name or picture is committed.                                   *)
Update(r, f) == Commit(r, f, [Idle EXCEPT !.at = "select"])

(* An empty name: nothing to write, yet the cache is refreshed.            *)
UpdateNothing(r) ==
  /\ req[r] = Idle
  /\ req' = [req EXCEPT ![r] = [Idle EXCEPT !.at = "select", !.kind = "update"]]
  /\ UNCHANGED <<row, cache, written, shown, done, stale, unheard>>

(* The request is answered with what it wrote.                             *)
Answered(r) ==
  /\ done' = IF req[r].no > done THEN req[r].no ELSE done
  /\ Answer(r)
  /\ UNCHANGED <<row, cache, written, stale>>

(* Repaired, if no other update of the field interferes.                   *)
ToldOf(x) ==
  unheard' = IF x.alone /\ x.no = written[x.field] THEN unheard \ {x.field} ELSE unheard

(* Mutant: nothing is told if the entry was evicted after the refresh.     *)
EmitCached(r) ==
  LET x == req[r] IN
  /\ x.at = "tell"
  /\ \/ x.no = 0 /\ UNCHANGED <<shown, unheard>>
     \/ /\ x.no # 0 /\ ToldOf(x)
        /\ shown' = IF cache = NoEntry THEN shown ELSE [shown EXCEPT ![x.field] = x.no]
  /\ Answered(r)

(* EmitToRoom and EmitToServersUserIsIn: the client is told of the field   *)
(* that was written, and of no other.  Or it is not told: its bus is full, *)
(* or the query for the servers of the user fails.                         *)
Emit(r) ==
  LET x == req[r] IN
  /\ x.at = "tell"
  /\ \/ x.no = 0 /\ UNCHANGED <<shown, unheard>>
     \/ x.no # 0 /\ shown' = [shown EXCEPT ![x.field] = x.no] /\ ToldOf(x)
     \/ x.no # 0 /\ unheard' = unheard \cup {x.field} /\ UNCHANGED shown
  /\ Answered(r)

(***************************************************************************)
(* UserRefresh                                                             *)
(***************************************************************************)
UserRefreshReads(r) ==
  /\ req[r].at = "select"
  /\ req' = [req EXCEPT ![r].at = "add", ![r].data = row]
  /\ UNCHANGED <<row, cache, written, shown, done, stale, unheard>>

(* Mutant: a refresh leaves an entry that it finds alone.                  *)
UserRefreshAddsIfMissing(r) ==
  /\ req[r].at = "add"
  /\ cache' = IF cache = NoEntry THEN req[r].data ELSE cache
  /\ stale' = (stale /\ ~(\A q \in Refreshing : req[q].data = row))
  /\ req' = [req EXCEPT ![r].at = IF req[r].kind = "update" THEN "tell" ELSE "again"]
  /\ UNCHANGED <<row, written, shown, done, unheard>>

(* What was read is added.  This repairs an entry that is stale, if it is  *)
(* the present row and no older one is about to be added.                  *)
UserRefreshAdds(r) ==
  /\ req[r].at = "add"
  /\ cache' = req[r].data
  /\ stale' = (stale /\ ~(\A q \in Refreshing : req[q].data = row))
  /\ req' = [req EXCEPT ![r].at = IF req[r].kind = "update" THEN "tell" ELSE "again"]
  /\ UNCHANGED <<row, written, shown, done, unheard>>

(* The query fails: an update ends with an error, committed as it is, with *)
(* the old entry in the cache and the client uninformed.                   *)
Fail(r) ==
  /\ req[r].at = "select"
  /\ stale' = (stale \/ req[r].no # 0)
  /\ unheard' = unheard \cup ({req[r].field} \cap Field)
  /\ req' = [q \in Request |->
       IF q = r THEN Idle ELSE [req[q] EXCEPT !.clean = @ /\ req[r].no = 0]]
  /\ UNCHANGED <<row, cache, written, shown, done>>

(***************************************************************************)
(* UserGetSet, for the messages and the typing indicator of the user       *)
(***************************************************************************)
UserGet(r) ==
  /\ req[r] = Idle
  /\ LET x == [Idle EXCEPT !.since = done, !.clean = ~stale] IN
     req' = [req EXCEPT ![r] = IF cache = NoEntry THEN [x EXCEPT !.at = "select"]
                               ELSE [x EXCEPT !.at = "use", !.data = cache]]
  /\ UNCHANGED <<row, cache, written, shown, done, stale, unheard>>

(* Mutant: whether there is an entry after the refresh is not looked at.   *)
UserGetAgainUnchecked(r) ==
  /\ req[r].at = "again"
  /\ req' = [req EXCEPT ![r].at = "use", ![r].data = cache]
  /\ UNCHANGED <<row, cache, written, shown, done, stale, unheard>>

(* Without an entry, which may be evicted already, the request fails.      *)
UserGetAgain(r) ==
  /\ req[r].at = "again"
  /\ IF cache = NoEntry THEN Answer(r)
     ELSE req' = [req EXCEPT ![r].at = "use", ![r].data = cache]
  /\ UNCHANGED <<row, cache, written, shown, done, stale, unheard>>

(* The message is signed and sent.                                         *)
Use(r) ==
  /\ req[r].at = "use"
  /\ Answer(r)
  /\ UNCHANGED <<row, cache, written, shown, done, stale, unheard>>

(***************************************************************************)
(* The least recently used entry is evicted; the process restarts, with an *)
(* empty cache.                                                            *)
(***************************************************************************)
Evict ==
  /\ cache # NoEntry
  /\ cache' = NoEntry
  /\ UNCHANGED <<row, written, shown, req, done, stale, unheard>>

Restart ==
  /\ cache' = NoEntry
  /\ req' = [r \in Request |-> Idle]
  /\ stale' = FALSE
  /\ unheard' = unheard \cup {f \in Field : Writing(f) # {}}
  /\ UNCHANGED <<row, written, shown, done>>

Next ==
  \/ \E r \in Request :
       \/ \E f \in Field : Update(r, f)
       \/ UpdateNothing(r) \/ Emit(r)
       \/ UserRefreshReads(r) \/ UserRefreshAdds(r) \/ Fail(r)
       \/ UserGet(r) \/ UserGetAgain(r) \/ Use(r)
  \/ Evict \/ Restart

Spec == Init /\ [][Next]_vars

(***************************************************************************)
(* Properties                                                              *)
(***************************************************************************)
TypeOK ==
  /\ {row, done} \subseteq 0..MaxUpdates
  /\ written \in [Field -> 0..row] /\ shown \in [Field -> 0..row]
  /\ cache \in 0..row \cup {NoEntry}
  /\ req \in [Request ->
       [at : {"idle", "select", "add", "tell", "again", "use"}, kind : {"get", "update"},
        no : 0..row, field : Field \cup {NoField}, data : 0..row \cup {NoEntry}, since : 0..row,
        clean : BOOLEAN, alone : BOOLEAN]]
  /\ \A r \in Request : req[r].at = "use" => req[r].data # NoEntry
  /\ stale \in BOOLEAN /\ unheard \subseteq Field

(* The cached profile is the one in the table, except while an update has  *)
(* still to refresh it, or after a refresh that failed or stored a row that*)
(* an update had overtaken.  An entry that is wrong that way stays, but the*)
(* next refresh that no update overtakes repairs it, whoever makes it.     *)
CacheCurrent ==
  cache \in {NoEntry, row} \/ stale
    \/ \E r \in Request : req[r].no # 0 /\ req[r].at \in {"select", "add"}

(* Read your writes: a message is not signed with a profile older than an  *)
(* update that was answered before the message was sent, unless the cache  *)
(* was stale in the meantime.  Eviction and restarts do not matter.        *)
SignedAsUpdated ==
  \A r \in Request : req[r].at = "use" /\ req[r].clean => req[r].data >= req[r].since

(* The client shows the name and the picture of the table, once no update  *)
(* of that field is under way: unless it was not told of one, or updates of*)
(* the field that overlapped were told in the other order than committed.  *)
(* The next update of the same field that no other overlaps repairs that;  *)
(* one of the other field does not, as its event has only what it wrote.   *)
ClientsConverge ==
  \A f \in Field : Writing(f) = {} /\ f \notin unheard => shown[f] = written[f]
=============================================================================
