----------------------------- MODULE TokenAuth -----------------------------
(***************************************************************************)
(* Who is logged in: the tokens table, the token cache in front of it, and *)
(* the requests that read and write both without a common lock.            *)
(*                                                                         *)
(* Every database statement and every cache access is a step of its own;   *)
(* between two of them other requests run, the cleaner deletes expired     *)
(* rows, the LRU cache evicts entries, time passes, and the process may    *)
(* crash: the table survives, the cache and the requests do not.           *)
(***************************************************************************)
EXTENDS Naturals

CONSTANTS
  User, Token, Request,
  NoUser, NoToken,   \* zero values
  Lifetime,          \* TokenLifetimeDays
  Day,               \* a token is refreshed once it is older than this
  MaxTime            \* bound on the clock

ASSUME TimeAssumption ==
  /\ {Lifetime, Day, MaxTime} \subseteq Nat
  /\ 0 < Day /\ Day < Lifetime
ASSUME NoIdAssumption == NoUser \notin User /\ NoToken \notin Token

VARIABLES
  now,         \* the clock
  account,     \* status of each user's row in the table users
  tokens,      \* the table tokens
  cache,       \* tokenCache
  req,         \* the request each goroutine serves
  granted,     \* to whom each token was issued and when it was last extended
  cookies,     \* tokens that login has sent to a client
  loggedOut,   \* tokens that were logged out
  buried       \* those of them logged out before the last restart

vars == <<now, account, tokens, cache, req, granted, cookies, loggedOut, buried>>

(***************************************************************************)
(* Data                                                                    *)
(***************************************************************************)
Row == [user : User, exp : Nat]
NoRow == [user |-> NoUser, exp |-> 0]   \* no row in the table, no entry in the cache

(* ok: the statement that precedes a cache update succeeded.  ownerGone and*)
(* wasOut: what held of the token when the request arrived.                *)
Idle == [at |-> "idle", token |-> NoToken, user |-> NoUser, exp |-> 0,
         ok |-> FALSE, ownerGone |-> FALSE, wasOut |-> FALSE]

HasAccount(u) == account[u] \in {"registered", "banned"}

Goto(r, place) == req' = [req EXCEPT ![r].at = place]
Answer(r) == req' = [req EXCEPT ![r] = Idle]

Init ==
  /\ now = 0
  /\ account = [u \in User |-> "none"]
  /\ tokens = [t \in Token |-> NoRow]
  /\ cache = [t \in Token |-> NoRow]
  /\ req = [r \in Request |-> Idle]
  /\ granted = [t \in Token |-> [user |-> NoUser, at |-> 0]]
  /\ cookies = {} /\ loggedOut = {} /\ buried = {}

(***************************************************************************)
(* Register and login                                                      *)
(***************************************************************************)
(* User IDs are never used twice.                                          *)
Register(u) ==
  /\ account[u] = "none"
  /\ account' = [account EXCEPT ![u] = "registered"]
  /\ UNCHANGED <<now, tokens, cache, req, granted, cookies, loggedOut, buried>>

(* Mutant: the token is not random enough to be new.                       *)
LoginAnyToken(r, u, t) ==
  /\ req[r] = Idle /\ HasAccount(u)
  /\ granted' = [granted EXCEPT ![t] = [user |-> u, at |-> now]]
  /\ req' = [req EXCEPT ![r] = [Idle EXCEPT !.at = "insert", !.token = t, !.user = u,
                                             !.exp = now + Lifetime]]
  /\ UNCHANGED <<now, account, tokens, cache, cookies, loggedOut, buried>>

(* The user's row is read and the password matches; a random token is made *)
(* and insertToken computes its expiration.                                *)
Login(r, u, t) ==
  /\ req[r] = Idle /\ HasAccount(u)
  /\ granted[t].user = NoUser
  /\ granted' = [granted EXCEPT ![t] = [user |-> u, at |-> now]]
  /\ req' = [req EXCEPT ![r] = [Idle EXCEPT !.at = "insert", !.token = t, !.user = u,
                                             !.exp = now + Lifetime]]
  /\ UNCHANGED <<now, account, tokens, cache, cookies, loggedOut, buried>>

(* The foreign key rejects the row of a user deleted meanwhile.            *)
InsertToken(r) ==
  /\ req[r].at = "insert"
  /\ \E ok \in BOOLEAN :
       /\ ok => HasAccount(req[r].user)
       /\ tokens' = IF ok THEN [tokens EXCEPT ![req[r].token] =
                                  [user |-> req[r].user, exp |-> req[r].exp]]
                    ELSE tokens
       /\ req' = [req EXCEPT ![r].at = "insertCache", ![r].ok = ok]
  /\ UNCHANGED <<now, account, cache, granted, cookies, loggedOut, buried>>

(* insertToken updates the cache whether or not the row was inserted; only *)
(* if it was does the client get the cookie.                               *)
InsertTokenCache(r) ==
  /\ req[r].at = "insertCache"
  /\ cache' = [cache EXCEPT ![req[r].token] = [user |-> req[r].user, exp |-> req[r].exp]]
  /\ cookies' = IF req[r].ok THEN cookies \cup {req[r].token} ELSE cookies
  /\ Answer(r)
  /\ UNCHANGED <<now, account, tokens, granted, loggedOut, buried>>

(***************************************************************************)
(* The middleware AuthUser                                                 *)
(***************************************************************************)
(* TokenGetSet: a cached token is taken as it is, any other one is read.   *)
TokenGet(r, t) ==
  /\ req[r] = Idle /\ t \in cookies
  /\ req' = [req EXCEPT ![r] =
       [at |-> IF cache[t] # NoRow THEN "checkUser" ELSE "refresh", token |-> t,
        user |-> cache[t].user, exp |-> cache[t].exp, ok |-> TRUE,
        ownerGone |-> account[granted[t].user] # "registered", wasOut |-> t \in loggedOut]]
  /\ UNCHANGED <<now, account, tokens, cache, granted, cookies, loggedOut, buried>>

(* Mutant: that there is no row is not noticed.                            *)
TokenRefreshReadsAnything(r) ==
  LET row == tokens[req[r].token] IN
  /\ req[r].at = "refresh"
  /\ req' = [req EXCEPT ![r].at = "fill", ![r].user = row.user, ![r].exp = row.exp]
  /\ UNCHANGED <<now, account, tokens, cache, granted, cookies, loggedOut, buried>>

(* The query of TokenRefresh; without a row the answer is 401.             *)
TokenRefreshReads(r) ==
  LET row == tokens[req[r].token] IN
  /\ req[r].at = "refresh"
  /\ IF row = NoRow THEN Answer(r)
     ELSE req' = [req EXCEPT ![r].at = "fill", ![r].user = row.user, ![r].exp = row.exp]
  /\ UNCHANGED <<now, account, tokens, cache, granted, cookies, loggedOut, buried>>

TokenRefreshAdds(r) ==
  /\ req[r].at = "fill"
  /\ cache' = [cache EXCEPT ![req[r].token] = [user |-> req[r].user, exp |-> req[r].exp]]
  /\ Goto(r, "get")
  /\ UNCHANGED <<now, account, tokens, granted, cookies, loggedOut, buried>>

(* The second lookup: the entry may have been replaced, or evicted, and    *)
(* then the request fails.                                                 *)
TokenGetAgain(r) ==
  LET entry == cache[req[r].token] IN
  /\ req[r].at = "get"
  /\ IF entry = NoRow THEN Answer(r)
     ELSE req' = [req EXCEPT ![r].at = "checkUser", ![r].user = entry.user, ![r].exp = entry.exp]
  /\ UNCHANGED <<now, account, tokens, cache, granted, cookies, loggedOut, buried>>

(* Mutant: only the flag banned is looked at, a missing row passes.        *)
CheckBannedOnly(r) ==
  /\ req[r].at = "checkUser"
  /\ IF account[req[r].user] # "banned" THEN Goto(r, "checkExpiration") ELSE Answer(r)
  /\ UNCHANGED <<now, account, tokens, cache, granted, cookies, loggedOut, buried>>

(* A banned user is turned away, and so is one without a row.              *)
CheckUser(r) ==
  /\ req[r].at = "checkUser"
  /\ IF account[req[r].user] = "registered" THEN Goto(r, "checkExpiration") ELSE Answer(r)
  /\ UNCHANGED <<now, account, tokens, cache, granted, cookies, loggedOut, buried>>

(* Mutant: an expired token is extended like an old one.                   *)
CheckExpirationExtendsAll(r) ==
  LET x == req[r] IN
  /\ x.at = "checkExpiration"
  /\ IF x.exp - now < Lifetime - Day
     THEN /\ req' = [req EXCEPT ![r].at = "update", ![r].exp = now + Lifetime]
          /\ granted' = [granted EXCEPT ![x.token].at = now]
     ELSE Goto(r, "admitted") /\ UNCHANGED granted
  /\ UNCHANGED <<now, account, tokens, cache, cookies, loggedOut, buried>>

(* An expired token is refused, one older than a day is extended.          *)
CheckExpiration(r) ==
  LET x == req[r] IN
  /\ x.at = "checkExpiration"
  /\ \/ /\ x.exp < now
        /\ Answer(r) /\ UNCHANGED granted
     \/ /\ now <= x.exp /\ x.exp < now + Lifetime - Day
        /\ req' = [req EXCEPT ![r].at = "update", ![r].exp = now + Lifetime]
        /\ granted' = [granted EXCEPT ![x.token].at = now]
     \/ /\ now + Lifetime - Day <= x.exp
        /\ Goto(r, "admitted") /\ UNCHANGED granted
  /\ UNCHANGED <<now, account, tokens, cache, cookies, loggedOut, buried>>

(* Mutant: the row is written whether or not it is still there.            *)
UpdateTokenUpserts(r) ==
  /\ req[r].at = "update"
  /\ \E ok \in BOOLEAN :
       /\ tokens' = IF ok THEN [tokens EXCEPT ![req[r].token] =
                                  [user |-> req[r].user, exp |-> req[r].exp]]
                    ELSE tokens
       /\ req' = [req EXCEPT ![r].at = "updateCache", ![r].ok = ok]
  /\ UNCHANGED <<now, account, cache, granted, cookies, loggedOut, buried>>

(* The UPDATE of updateTokenExpiration, which may fail, and which changes  *)
(* nothing if the row is gone.                                             *)
UpdateToken(r) ==
  /\ req[r].at = "update"
  /\ \E ok \in BOOLEAN :
       /\ tokens' = IF ok /\ tokens[req[r].token] # NoRow
                    THEN [tokens EXCEPT ![req[r].token].exp = req[r].exp]
                    ELSE tokens
       /\ req' = [req EXCEPT ![r].at = "updateCache", ![r].ok = ok]
  /\ UNCHANGED <<now, account, cache, granted, cookies, loggedOut, buried>>

UpdateTokenCache(r) ==
  /\ req[r].at = "updateCache"
  /\ cache' = [cache EXCEPT ![req[r].token] = [user |-> req[r].user, exp |-> req[r].exp]]
  /\ IF req[r].ok THEN Goto(r, "admitted") ELSE Answer(r)
  /\ UNCHANGED <<now, account, tokens, granted, cookies, loggedOut, buried>>

(***************************************************************************)
(* What an admitted request does                                           *)
(***************************************************************************)
(* logout deletes the row and leaves the cache alone.                      *)
Logout(r) ==
  /\ req[r].at = "admitted"
  /\ tokens' = [tokens EXCEPT ![req[r].token] = NoRow]
  /\ loggedOut' = loggedOut \cup {req[r].token}
  /\ Answer(r)
  /\ UNCHANGED <<now, account, cache, granted, cookies, buried>>

(* Deleting the user deletes the user's tokens (ON DELETE CASCADE).        *)
DeleteUser(r) ==
  /\ req[r].at = "admitted"
  /\ account' = [account EXCEPT ![req[r].user] = "deleted"]
  /\ tokens' = [t \in Token |-> IF tokens[t].user = req[r].user THEN NoRow ELSE tokens[t]]
  /\ Answer(r)
  /\ UNCHANGED <<now, cache, granted, cookies, loggedOut, buried>>

(* Any other handler, or one that fails.                                   *)
Handle(r) ==
  /\ req[r].at = "admitted"
  /\ Answer(r)
  /\ UNCHANGED <<now, account, tokens, cache, granted, cookies, loggedOut, buried>>

(***************************************************************************)
(* The rest of the world                                                   *)
(***************************************************************************)
(* databaseCleanerService.                                                 *)
Clean ==
  /\ \E t \in Token : tokens[t] # NoRow /\ tokens[t].exp < now
  /\ tokens' = [t \in Token |-> IF tokens[t].exp < now THEN NoRow ELSE tokens[t]]
  /\ UNCHANGED <<now, account, cache, req, granted, cookies, loggedOut, buried>>

(* The flag banned is set by hand, in the database.                        *)
Ban(u) ==
  /\ account[u] = "registered"
  /\ account' = [account EXCEPT ![u] = "banned"]
  /\ UNCHANGED <<now, tokens, cache, req, granted, cookies, loggedOut, buried>>

(* The LRU cache makes room.                                               *)
Evict(t) ==
  /\ cache[t] # NoRow
  /\ cache' = [cache EXCEPT ![t] = NoRow]
  /\ UNCHANGED <<now, account, tokens, req, granted, cookies, loggedOut, buried>>

Restart ==
  /\ cache' = [t \in Token |-> NoRow]
  /\ req' = [r \in Request |-> Idle]
  /\ buried' = loggedOut
  /\ UNCHANGED <<now, account, tokens, granted, cookies, loggedOut>>

Tick ==
  /\ now < MaxTime
  /\ now' = now + 1
  /\ UNCHANGED <<account, tokens, cache, req, granted, cookies, loggedOut, buried>>

AuthUser(r) ==
  \/ \E t \in Token : TokenGet(r, t)
  \/ TokenRefreshReads(r) \/ TokenRefreshAdds(r) \/ TokenGetAgain(r)
  \/ CheckUser(r) \/ CheckExpiration(r) \/ UpdateToken(r) \/ UpdateTokenCache(r)

Next ==
  \/ \E u \in User : Register(u) \/ Ban(u)
  \/ \E r \in Request :
       \/ \E u \in User, t \in Token : Login(r, u, t)
       \/ InsertToken(r) \/ InsertTokenCache(r)
       \/ AuthUser(r)
       \/ Logout(r) \/ DeleteUser(r) \/ Handle(r)
  \/ \E t \in Token : Evict(t)
  \/ Clean \/ Restart \/ Tick

Spec == Init /\ [][Next]_vars

(***************************************************************************)
(* Properties                                                              *)
(***************************************************************************)
TypeOK ==
  /\ now \in 0..MaxTime
  /\ account \in [User -> {"none", "registered", "banned", "deleted"}]
  /\ tokens \in [Token -> Row \cup {NoRow}]
  /\ cache \in [Token -> Row \cup {NoRow}]
  /\ req \in [Request ->
       [at : {"idle", "insert", "insertCache", "refresh", "fill", "get", "checkUser",
              "checkExpiration", "update", "updateCache", "admitted"},
        token : Token \cup {NoToken}, user : User \cup {NoUser}, exp : Nat,
        ok : BOOLEAN, ownerGone : BOOLEAN, wasOut : BOOLEAN]]
  /\ \A r \in Request :
       /\ req[r].at # "idle" => req[r].token \in Token
       /\ req[r].at \notin {"idle", "refresh", "get"} => req[r].user \in User
  /\ granted \in [Token -> [user : User \cup {NoUser}, at : 0..MaxTime]]
  /\ buried \subseteq loggedOut /\ loggedOut \subseteq cookies /\ cookies \subseteq Token

(* A request is admitted as the user the token was issued to, whichever of *)
(* the table, the cache and the racing updates its data came from.         *)
AdmittedAsOwner ==
  \A r \in Request : req[r].at = "admitted" => req[r].user = granted[req[r].token].user

(* A token is extended or admitted only while the lifetime that the last   *)
(* login or extension gave it has not run out: late cache fills, updates   *)
(* that overtake each other and failed ones never keep a token alive.      *)
NoLateExtension ==
  [][\A r \in Request :
       req[r].at = "checkExpiration" /\ req'[r].at \in {"update", "admitted"} =>
         now <= granted[req[r].token].at + Lifetime]_vars

(* A request that arrives when its user has been deleted or banned is      *)
(* refused, although the token cache still has its token.                  *)
DeletedUserRefused ==
  \A r \in Request : req[r].at = "admitted" => ~req[r].ownerGone

(* A token logged out before the last restart admits nobody: nothing that  *)
(* was in flight, in the cache or at the cleaner's puts its row back.      *)
LogoutSurvivesRestart ==
  \A r \in Request : req[r].at = "admitted" => req[r].token \notin buried

(* main.go:92, "from now on endpoints require user to be logged in": a     *)
(* request that arrives with a token already logged out is refused.        *)
LoggedOutRefused ==
  \A r \in Request : req[r].at = "admitted" => ~req[r].wasOut
=============================================================================
