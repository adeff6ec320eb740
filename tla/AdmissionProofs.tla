-------------------------- MODULE AdmissionProofs --------------------------
(***************************************************************************)
(* Proofs about what stands between a client and a handler.                *)
(*                                                                         *)
(* TokenAuth, for any users, tokens and requests and any lifetime.  The    *)
(* argument: a token is issued once, and whatever is known of it, in the   *)
(* table, in the cache or in a request under way, names the user it was    *)
(* issued to and an expiration no later than the last grant allows         *)
(* (KnownOf).  A request that arrived after its user was banned or deleted *)
(* fails at CheckUser, because no account is restored.  A token that was   *)
(* logged out has no row and gets none, since rows are only inserted for   *)
(* tokens nobody has yet; after a restart nothing else knows it.           *)
(*                                                                         *)
(* RateLimiter, for any users and requests and any TTL: an entry of the    *)
(* cache stands for the last admission of its user and is there until TTL  *)
(* has passed, so who looked after that admission was refused.             *)
(*                                                                         *)
(* Validation, for any numbers of characters: Validated says which texts a *)
(* schema lets pass and Merged what is reported of the others; what passes *)
(* has no more characters than bytes, and so fits its column (ColumnFits). *)
(***************************************************************************)
EXTENDS MCAdmission, SequenceTheorems, TLAPS

(***************************************************************************)
(* TokenAuth: the inductive invariant                                      *)
(***************************************************************************)
(* Row or entry x of token t says no more than was granted.                *)
KnownOf(t, x) == x # NoRow => x.user = granted[t].user /\ x.exp <= granted[t].at + Lifetime

RowsGranted == \A t \in Token : KnownOf(t, tokens[t]) /\ KnownOf(t, cache[t])

(* Tokens are granted to users who have, or had, an account.               *)
GrantsOK ==
  /\ \A t \in Token : granted[t].user \in User => account[granted[t].user] # "none"
  /\ \A t \in Token : granted[t].at <= now
  /\ \A t \in cookies : granted[t].user \in User

(* A request that has the data of its token has what was granted.          *)
RequestsGranted ==
  \A r \in Request : req[r].at # "idle" =>
    /\ granted[req[r].token].user \in User
    /\ req[r].exp <= granted[req[r].token].at + Lifetime
    /\ req[r].at \notin {"refresh", "get"} => req[r].user = granted[req[r].token].user

(* A new token is known to the request that makes it and to nobody else.   *)
Inserting == {r \in Request : req[r].at \in {"insert", "insertCache"}}

InsertsNew ==
  /\ \A r \in Inserting : req[r].token \notin cookies
  /\ \A q, r \in Inserting : req[q].token = req[r].token => q = r

PresentsCookie ==
  \A r \in Request : req[r].at # "idle" /\ r \notin Inserting => req[r].token \in cookies

(* Once it is logged out, a token has no row again.                        *)
LogoutsOK ==
  /\ \A t \in loggedOut : tokens[t] = NoRow
  /\ \A t \in buried : cache[t] = NoRow
  /\ \A r \in Request : req[r].token \in buried => req[r].at \in {"idle", "refresh"}

(* Who was refused an account stays without one.                           *)
OwnerGone ==
  \A r \in Request : req[r].at # "idle" /\ req[r].ownerGone =>
    /\ account[granted[req[r].token].user] # "registered"
    /\ req[r].at \notin {"checkExpiration", "update", "updateCache", "admitted"}

TokenInv ==
  /\ TypeOK
  /\ RowsGranted
  /\ GrantsOK
  /\ RequestsGranted
  /\ InsertsNew
  /\ PresentsCookie
  /\ LogoutsOK
  /\ OwnerGone

(***************************************************************************)
(* Requests that go on to their next step                                  *)
(***************************************************************************)
Record ==
  [at : {"idle", "insert", "insertCache", "refresh", "fill", "get", "checkUser",
         "checkExpiration", "update", "updateCache", "admitted"},
   token : Token \cup {NoToken}, user : User \cup {NoUser}, exp : Nat,
   ok : BOOLEAN, ownerGone : BOOLEAN, wasOut : BOOLEAN]

(* y is request r, which keeps its token, as its next step leaves it.      *)
NextOf(r, y) ==
  /\ y \in Record
  /\ y.at # "idle" /\ y.user \in User
  /\ y.token = req[r].token /\ y.ownerGone = req[r].ownerGone
  /\ y.at \in {"insert", "insertCache"} <=> r \in Inserting
  /\ y.user = granted[y.token].user /\ y.exp <= granted[y.token].at + Lifetime
  /\ y.token \notin buried
  /\ y.ownerGone => y.at \notin {"checkExpiration", "update", "updateCache", "admitted"}

(* Such a step keeps the invariant, whatever rows and entries it writes,   *)
(* as long as they say no more than was granted.                           *)
LEMMA RequestMoves ==
  ASSUME TokenInv, NEW r \in Request, req[r].at # "idle", NEW y, NextOf(r, y),
         req' = [req EXCEPT ![r] = y],
         UNCHANGED <<now, account, granted, cookies, loggedOut, buried>>,
         tokens' \in [Token -> Row \cup {NoRow}], cache' \in [Token -> Row \cup {NoRow}],
         RowsGranted',
         \A t \in loggedOut : tokens'[t] = NoRow, \A t \in buried : cache'[t] = NoRow
  PROVE  TokenInv'
<1>1. req' \in [Request -> Record] /\ req'[r] = y /\ \A q \in Request \ {r} : req'[q] = req[q]
  BY DEF TokenInv, TypeOK, Record, NextOf
<1>2. TypeOK'
  BY <1>1 DEF TokenInv, TypeOK, Record, NextOf
<1>3. GrantsOK'
  BY DEF TokenInv, GrantsOK
<1>4. RequestsGranted'
  BY <1>1 DEF TokenInv, RequestsGranted, NextOf, TypeOK
<1>5. Inserting' = Inserting
  BY <1>1 DEF Inserting, NextOf
<1>6. InsertsNew'
  BY <1>1, <1>5 DEF TokenInv, InsertsNew, NextOf, Inserting
<1>7. PresentsCookie'
  BY <1>1, <1>5 DEF TokenInv, PresentsCookie, NextOf
<1>8. LogoutsOK'
  BY <1>1 DEF TokenInv, LogoutsOK, NextOf
<1>9. OwnerGone'
  BY <1>1 DEF TokenInv, OwnerGone, NextOf
<1> QED
  BY <1>2, <1>3, <1>4, <1>6, <1>7, <1>8, <1>9 DEF TokenInv

(* A request that is answered.                                             *)
LEMMA AnswerKeeps ==
  ASSUME TokenInv, NEW r \in Request, Answer(r),
         UNCHANGED <<now, account, tokens, granted, cookies, loggedOut, buried>>,
         cache' \in [Token -> Row \cup {NoRow}], RowsGranted', \A t \in buried : cache'[t] = NoRow
  PROVE  TokenInv'
<1>1. req' \in [Request -> Record] /\ req'[r] = Idle /\ \A q \in Request \ {r} : req'[q] = req[q]
  BY DEF TokenInv, TypeOK, Record, Answer, Idle
<1>2. Idle.at = "idle" /\ Idle.token = NoToken
  BY DEF Idle
<1>3. TypeOK'
  BY <1>1, <1>2 DEF TokenInv, TypeOK, Record
<1>4. GrantsOK'
  BY DEF TokenInv, GrantsOK
<1>5. RequestsGranted' /\ OwnerGone'
  BY <1>1, <1>2 DEF TokenInv, RequestsGranted, OwnerGone
<1>6. Inserting' = Inserting \ {r}
  BY <1>1, <1>2 DEF Inserting
<1>7. InsertsNew' /\ PresentsCookie'
  BY <1>1, <1>2, <1>6 DEF TokenInv, InsertsNew, PresentsCookie, Inserting
<1>8. LogoutsOK'
  BY <1>1, <1>2 DEF TokenInv, LogoutsOK
<1> QED
  BY <1>3, <1>4, <1>5, <1>7, <1>8 DEF TokenInv

(* What is known of a request under way.                                   *)
LEMMA UnderWay ==
  ASSUME TokenInv, NEW r \in Request, req[r].at # "idle"
  PROVE  /\ req[r] \in Record /\ req[r].token \in Token
         /\ granted[req[r].token].user \in User /\ granted[req[r].token].at \in Nat
         /\ req[r].exp \in Nat /\ req[r].exp <= granted[req[r].token].at + Lifetime
         /\ req[r].at \notin {"refresh", "get"} =>
              req[r].user \in User /\ req[r].user = granted[req[r].token].user
         /\ req[r].at # "refresh" => req[r].token \notin buried
BY DEF TokenInv, TypeOK, RequestsGranted, LogoutsOK, Record

(***************************************************************************)
(* Every action keeps the invariant                                        *)
(***************************************************************************)
LEMMA TokenRefreshReadsKeeps ==
  ASSUME TokenInv, NEW r \in Request, TokenRefreshReads(r)
  PROVE  TokenInv'
<1> DEFINE t == req[r].token
           y == [req[r] EXCEPT !.at = "fill", !.user = tokens[t].user, !.exp = tokens[t].exp]
<1>1. /\ req[r].at = "refresh"
      /\ UNCHANGED <<now, account, tokens, cache, granted, cookies, loggedOut, buried>>
  BY DEF TokenRefreshReads
<1>2. RowsGranted'
  BY <1>1 DEF TokenInv, RowsGranted, KnownOf
<1>3. CASE tokens[t] = NoRow
  BY <1>1, <1>2, <1>3, AnswerKeeps DEF TokenRefreshReads, TokenInv, TypeOK, LogoutsOK
<1>4. CASE tokens[t] # NoRow
  <2>1. req' = [req EXCEPT ![r] = y]
    BY <1>4 DEF TokenRefreshReads, TokenInv, TypeOK
  <2>2. t \in Token /\ tokens[t] \in Row /\ KnownOf(t, tokens[t]) /\ t \notin buried
    BY <1>1, <1>4, UnderWay DEF TokenInv, TypeOK, RowsGranted, LogoutsOK
  <2>3. r \notin Inserting
    BY <1>1 DEF Inserting
  <2>4. NextOf(r, y)
    BY <1>1, <1>4, <2>2, <2>3, UnderWay DEF NextOf, Record, Row, KnownOf
  <2> QED
    BY <1>1, <1>2, <2>1, <2>4, RequestMoves DEF TokenInv, TypeOK, LogoutsOK
<1> QED
  BY <1>3, <1>4

LEMMA TokenGetAgainKeeps ==
  ASSUME TokenInv, NEW r \in Request, TokenGetAgain(r)
  PROVE  TokenInv'
<1> DEFINE t == req[r].token
           y == [req[r] EXCEPT !.at = "checkUser", !.user = cache[t].user, !.exp = cache[t].exp]
<1>1. /\ req[r].at = "get"
      /\ UNCHANGED <<now, account, tokens, cache, granted, cookies, loggedOut, buried>>
  BY DEF TokenGetAgain
<1>2. RowsGranted'
  BY <1>1 DEF TokenInv, RowsGranted, KnownOf
<1>3. CASE cache[t] = NoRow
  BY <1>1, <1>2, <1>3, AnswerKeeps DEF TokenGetAgain, TokenInv, TypeOK, LogoutsOK
<1>4. CASE cache[t] # NoRow
  <2>1. req' = [req EXCEPT ![r] = y]
    BY <1>4 DEF TokenGetAgain, TokenInv, TypeOK
  <2>2. t \in Token /\ cache[t] \in Row /\ KnownOf(t, cache[t])
    BY <1>1, <1>4, UnderWay DEF TokenInv, TypeOK, RowsGranted
  <2>3. r \notin Inserting
    BY <1>1 DEF Inserting
  <2>4. NextOf(r, y)
    BY <1>1, <1>4, <2>2, <2>3, UnderWay DEF NextOf, Record, Row, KnownOf
  <2> QED
    BY <1>1, <1>2, <2>1, <2>4, RequestMoves DEF TokenInv, TypeOK, LogoutsOK
<1> QED
  BY <1>3, <1>4

LEMMA TokenRefreshAddsKeeps ==
  ASSUME TokenInv, NEW r \in Request, TokenRefreshAdds(r)
  PROVE  TokenInv'
<1> DEFINE x == req[r]
           y == [x EXCEPT !.at = "get"]
<1>1. /\ x.at = "fill" /\ req' = [req EXCEPT ![r] = y]
      /\ cache' = [cache EXCEPT ![x.token] = [user |-> x.user, exp |-> x.exp]]
      /\ UNCHANGED <<now, account, tokens, granted, cookies, loggedOut, buried>>
  BY DEF TokenRefreshAdds, Goto
<1>2. cache' \in [Token -> Row \cup {NoRow}] /\ RowsGranted' /\ \A t \in buried : cache'[t] = NoRow
  BY <1>1, UnderWay DEF TokenInv, TypeOK, RowsGranted, KnownOf, Row, LogoutsOK
<1>3. r \notin Inserting
  BY <1>1 DEF Inserting
<1>4. NextOf(r, y)
  BY <1>1, <1>3, UnderWay DEF NextOf, Record
<1>5. tokens' \in [Token -> Row \cup {NoRow}] /\ \A t \in loggedOut : tokens'[t] = NoRow
  BY <1>1 DEF TokenInv, TypeOK, LogoutsOK
<1> QED
  BY <1>1, <1>2, <1>4, <1>5, RequestMoves

LEMMA CheckUserKeeps ==
  ASSUME TokenInv, NEW r \in Request, CheckUser(r)
  PROVE  TokenInv'
<1> DEFINE y == [req[r] EXCEPT !.at = "checkExpiration"]
<1>1. /\ req[r].at = "checkUser"
      /\ UNCHANGED <<now, account, tokens, cache, granted, cookies, loggedOut, buried>>
  BY DEF CheckUser
<1>2. RowsGranted'
  BY <1>1 DEF TokenInv, RowsGranted, KnownOf
<1>3. CASE account[req[r].user] # "registered"
  BY <1>1, <1>2, <1>3, AnswerKeeps DEF CheckUser, TokenInv, TypeOK, LogoutsOK
<1>4. CASE account[req[r].user] = "registered"
  <2>1. req' = [req EXCEPT ![r] = y]
    BY <1>4 DEF CheckUser, Goto
  <2>2. ~req[r].ownerGone
    BY <1>1, <1>4, UnderWay DEF TokenInv, OwnerGone
  <2>3. r \notin Inserting
    BY <1>1 DEF Inserting
  <2>4. NextOf(r, y)
    BY <1>1, <2>2, <2>3, UnderWay DEF NextOf, Record
  <2> QED
    BY <1>1, <1>2, <2>1, <2>4, RequestMoves DEF TokenInv, TypeOK, LogoutsOK
<1> QED
  BY <1>3, <1>4

LEMMA CheckExpirationKeeps ==
  ASSUME TokenInv, NEW r \in Request, CheckExpiration(r)
  PROVE  TokenInv'
<1> DEFINE x == req[r]
           y == [x EXCEPT !.at = "update", !.exp = now + Lifetime]
           z == [x EXCEPT !.at = "admitted"]
<1>1. /\ x.at = "checkExpiration"
      /\ UNCHANGED <<now, account, tokens, cache, cookies, loggedOut, buried>>
  BY DEF CheckExpiration
<1>2. r \notin Inserting /\ ~x.ownerGone
  BY <1>1 DEF Inserting, TokenInv, OwnerGone
<1>3. CASE Answer(r) /\ UNCHANGED granted
  <2>1. RowsGranted'
    BY <1>1, <1>3 DEF TokenInv, RowsGranted, KnownOf
  <2> QED
    BY <1>1, <1>3, <2>1, AnswerKeeps DEF TokenInv, TypeOK, LogoutsOK
<1>4. CASE req' = [req EXCEPT ![r] = z] /\ UNCHANGED granted
  <2>1. RowsGranted'
    BY <1>1, <1>4 DEF TokenInv, RowsGranted, KnownOf
  <2>2. NextOf(r, z)
    BY <1>1, <1>2, UnderWay DEF NextOf, Record
  <2> QED
    BY <1>1, <1>4, <2>1, <2>2, RequestMoves DEF TokenInv, TypeOK, LogoutsOK
<1>5. CASE /\ req' = [req EXCEPT ![r] = y]
           /\ granted' = [granted EXCEPT ![x.token].at = now]
  <2>1. x \in Record /\ x.token \in Token /\ x.token \notin buried
        /\ x.user \in User /\ x.user = granted[x.token].user
    BY <1>1, UnderWay
  <2>2. /\ now \in Nat /\ now + Lifetime \in Nat
        /\ \A t \in Token : granted[t].at \in Nat /\ granted[t].at <= now
    BY TimeAssumption DEF TokenInv, TypeOK, GrantsOK
  <2>3. /\ granted' \in [Token -> [user : User \cup {NoUser}, at : 0..MaxTime]]
        /\ \A t \in Token : granted'[t].user = granted[t].user
        /\ \A t \in Token : granted[t].at <= granted'[t].at /\ granted'[t].at <= now
        /\ granted'[x.token].at = now
    BY <1>5, <2>1, <2>2 DEF TokenInv, TypeOK
  <2>4. y \in Record /\ y.at = "update" /\ y.token = x.token /\ y.user = x.user
        /\ y.exp = now + Lifetime /\ y.ownerGone = x.ownerGone
    BY <2>1, <2>2 DEF Record
  <2>5. req' \in [Request -> Record] /\ req'[r] = y /\ \A q \in Request \ {r} : req'[q] = req[q]
    BY <1>5, <2>4 DEF TokenInv, TypeOK, Record
  <2> HIDE DEF x, y
  <2>6. TypeOK'
    BY <1>1, <2>1, <2>3, <2>4, <2>5 DEF TokenInv, TypeOK, Record
  <2>7. RowsGranted'
    <3> SUFFICES ASSUME NEW t \in Token PROVE KnownOf(t, tokens[t])' /\ KnownOf(t, cache[t])'
      BY DEF RowsGranted
    <3>1. KnownOf(t, tokens[t]) /\ KnownOf(t, cache[t])
      BY DEF TokenInv, RowsGranted
    <3>2. granted'[t].user = granted[t].user /\ granted[t].at <= granted'[t].at
          /\ granted[t].at \in Nat /\ granted'[t].at \in Nat
      BY <2>2, <2>3
    <3>3. (tokens[t] # NoRow => tokens[t].exp \in Nat) /\ (cache[t] # NoRow => cache[t].exp \in Nat)
      BY DEF TokenInv, TypeOK, Row
    <3> QED
      BY <1>1, <3>1, <3>2, <3>3, TimeAssumption DEF KnownOf
  <2>8. GrantsOK'
    BY <1>1, <2>2, <2>3 DEF TokenInv, GrantsOK, TypeOK
  <2>9. RequestsGranted'
    <3> SUFFICES ASSUME NEW q \in Request, req'[q].at # "idle"
                 PROVE  /\ granted'[req'[q].token].user \in User
                        /\ req'[q].exp <= granted'[req'[q].token].at + Lifetime
                        /\ req'[q].at \notin {"refresh", "get"} =>
                             req'[q].user = granted'[req'[q].token].user
      BY DEF RequestsGranted
    <3>1. CASE q = r
      BY <3>1, <1>1, <2>1, <2>2, <2>3, <2>4, <2>5, UnderWay
    <3>2. CASE q # r
      <4>1. req'[q] = req[q] /\ req[q].token \in Token /\ req[q].exp \in Nat
        BY <3>2, <2>5, UnderWay
      <4>2. /\ req[q].exp <= granted[req[q].token].at + Lifetime
            /\ granted[req[q].token].user \in User
            /\ req[q].at \notin {"refresh", "get"} => req[q].user = granted[req[q].token].user
        BY <4>1, UnderWay
      <4>3. granted'[req[q].token].at \in Nat
        BY <4>1, <2>3
      <4> QED
        BY <4>1, <4>2, <4>3, <2>2, <2>3, TimeAssumption
    <3> QED
      BY <3>1, <3>2
  <2>10. Inserting' = Inserting
    BY <1>2, <2>4, <2>5 DEF Inserting
  <2>11. InsertsNew' /\ PresentsCookie'
    BY <1>1, <1>2, <2>4, <2>5, <2>10 DEF TokenInv, InsertsNew, PresentsCookie, Inserting, x
  <2>12. LogoutsOK'
    BY <1>1, <2>1, <2>4, <2>5 DEF TokenInv, LogoutsOK
  <2>13. OwnerGone'
    <3>1. \A q \in Request : req[q].at # "idle" => req[q].token \in Token
      BY UnderWay
    <3> QED
      BY <1>1, <1>2, <2>3, <2>4, <2>5, <3>1 DEF TokenInv, OwnerGone
  <2> QED
    BY <2>6, <2>7, <2>8, <2>9, <2>11, <2>12, <2>13 DEF TokenInv
<1> QED
  BY <1>3, <1>4, <1>5 DEF CheckExpiration, Goto, TokenInv, TypeOK

LEMMA InsertTokenKeeps ==
  ASSUME TokenInv, NEW r \in Request, InsertToken(r)
  PROVE  TokenInv'
<1> DEFINE x == req[r]
<1>1. PICK ok \in BOOLEAN :
        /\ tokens' = IF ok THEN [tokens EXCEPT ![x.token] = [user |-> x.user, exp |-> x.exp]] ELSE tokens
        /\ req' = [req EXCEPT ![r].at = "insertCache", ![r].ok = ok]
  BY DEF InsertToken
<1> DEFINE y == [x EXCEPT !.at = "insertCache", !.ok = ok]
<1>2. /\ x.at = "insert"
      /\ UNCHANGED <<now, account, cache, granted, cookies, loggedOut, buried>>
  BY DEF InsertToken
<1>3. r \in Inserting /\ x.token \notin loggedOut
  BY <1>2 DEF Inserting, TokenInv, TypeOK, InsertsNew
<1>4. /\ tokens' \in [Token -> Row \cup {NoRow}] /\ cache' \in [Token -> Row \cup {NoRow}]
      /\ \A t \in loggedOut : tokens'[t] = NoRow
  BY <1>1, <1>2, <1>3, UnderWay DEF TokenInv, TypeOK, Row, LogoutsOK
<1>5. RowsGranted'
  BY <1>1, <1>2, UnderWay DEF TokenInv, TypeOK, RowsGranted, KnownOf
<1>6. NextOf(r, y)
  BY <1>2, <1>3, UnderWay DEF NextOf, Record
<1>7. req' = [req EXCEPT ![r] = y]
  BY <1>1 DEF TokenInv, TypeOK
<1>8. \A t \in buried : cache'[t] = NoRow
  BY <1>2 DEF TokenInv, LogoutsOK
<1> QED
  BY <1>2, <1>4, <1>5, <1>6, <1>7, <1>8, RequestMoves

LEMMA UpdateTokenKeeps ==
  ASSUME TokenInv, NEW r \in Request, UpdateToken(r)
  PROVE  TokenInv'
<1> DEFINE x == req[r]
<1>1. PICK ok \in BOOLEAN :
        /\ tokens' = IF ok /\ tokens[x.token] # NoRow
                     THEN [tokens EXCEPT ![x.token].exp = x.exp] ELSE tokens
        /\ req' = [req EXCEPT ![r].at = "updateCache", ![r].ok = ok]
  BY DEF UpdateToken
<1> DEFINE y == [x EXCEPT !.at = "updateCache", !.ok = ok]
<1>2. /\ x.at = "update"
      /\ UNCHANGED <<now, account, cache, granted, cookies, loggedOut, buried>>
  BY DEF UpdateToken
<1>3. r \notin Inserting /\ ~x.ownerGone
  BY <1>2 DEF Inserting, TokenInv, OwnerGone
<1>4. /\ tokens' \in [Token -> Row \cup {NoRow}] /\ cache' \in [Token -> Row \cup {NoRow}]
      /\ \A t \in loggedOut : tokens'[t] = NoRow
  BY <1>1, <1>2, UnderWay DEF TokenInv, TypeOK, Row, LogoutsOK
<1>5. RowsGranted'
  BY <1>1, <1>2, UnderWay DEF TokenInv, TypeOK, Row, RowsGranted, KnownOf
<1>6. NextOf(r, y)
  BY <1>2, <1>3, UnderWay DEF NextOf, Record
<1>7. req' = [req EXCEPT ![r] = y]
  BY <1>1 DEF TokenInv, TypeOK
<1>8. \A t \in buried : cache'[t] = NoRow
  BY <1>2 DEF TokenInv, LogoutsOK
<1> QED
  BY <1>2, <1>4, <1>5, <1>6, <1>7, <1>8, RequestMoves

LEMMA UpdateTokenCacheKeeps ==
  ASSUME TokenInv, NEW r \in Request, UpdateTokenCache(r)
  PROVE  TokenInv'
<1> DEFINE x == req[r]
           y == [x EXCEPT !.at = "admitted"]
<1>1. /\ x.at = "updateCache"
      /\ cache' = [cache EXCEPT ![x.token] = [user |-> x.user, exp |-> x.exp]]
      /\ UNCHANGED <<now, account, tokens, granted, cookies, loggedOut, buried>>
  BY DEF UpdateTokenCache
<1>2. r \notin Inserting /\ ~x.ownerGone
  BY <1>1 DEF Inserting, TokenInv, OwnerGone
<1>3. cache' \in [Token -> Row \cup {NoRow}] /\ RowsGranted' /\ \A t \in buried : cache'[t] = NoRow
  BY <1>1, UnderWay DEF TokenInv, TypeOK, RowsGranted, KnownOf, Row, LogoutsOK
<1>4. CASE Answer(r)
  BY <1>1, <1>3, <1>4, AnswerKeeps
<1>5. CASE Goto(r, "admitted")
  <2>1. NextOf(r, y)
    BY <1>1, <1>2, UnderWay DEF NextOf, Record
  <2>2. tokens' \in [Token -> Row \cup {NoRow}] /\ \A t \in loggedOut : tokens'[t] = NoRow
    BY <1>1 DEF TokenInv, TypeOK, LogoutsOK
  <2>3. req' = [req EXCEPT ![r] = y]
    BY <1>5 DEF Goto
  <2> QED
    BY <1>1, <1>3, <2>1, <2>2, <2>3, RequestMoves
<1> QED
  BY <1>4, <1>5 DEF UpdateTokenCache

LEMMA InsertTokenCacheKeeps ==
  ASSUME TokenInv, NEW r \in Request, InsertTokenCache(r)
  PROVE  TokenInv'
<1> USE NoIdAssumption DEF TokenInv, TypeOK, InsertTokenCache, Answer, Idle, Row, NoRow
<1>1. TypeOK'
  BY DEF Record
<1>2. RowsGranted'
  BY DEF RowsGranted, KnownOf, RequestsGranted
<1>3. GrantsOK'
  BY DEF GrantsOK, RequestsGranted
<1>4. RequestsGranted'
  BY DEF RequestsGranted
<1>5. InsertsNew'
  BY DEF InsertsNew, Inserting
<1>6. PresentsCookie'
  BY DEF PresentsCookie, Inserting
<1>7. LogoutsOK'
  BY DEF LogoutsOK, InsertsNew, Inserting
<1>8. OwnerGone'
  BY DEF OwnerGone
<1> QED
  BY <1>1, <1>2, <1>3, <1>4, <1>5, <1>6, <1>7, <1>8

(* A token presented is a cookie, so the user it was issued to is known.   *)
LEMMA TokenGetKeeps ==
  ASSUME TokenInv, NEW r \in Request, NEW t \in Token, TokenGet(r, t)
  PROVE  TokenInv'
<1> USE NoIdAssumption DEF TokenInv, TypeOK, TokenGet, Idle, Row, NoRow
<1>1. TypeOK'
  OBVIOUS
<1>2. RowsGranted' /\ GrantsOK'
  BY DEF RowsGranted, KnownOf, GrantsOK
<1>3. RequestsGranted'
  BY TimeAssumption DEF RowsGranted, KnownOf, GrantsOK, RequestsGranted
<1>4. InsertsNew'
  BY DEF InsertsNew, Inserting
<1>5. PresentsCookie'
  BY DEF PresentsCookie, Inserting
<1>6. LogoutsOK'
  BY DEF LogoutsOK
<1>7. OwnerGone'
  BY DEF OwnerGone
<1> QED
  BY <1>1, <1>2, <1>3, <1>4, <1>5, <1>6, <1>7

(* The new token is in no row, no entry and no other request.              *)
LEMMA LoginKeeps ==
  ASSUME TokenInv, NEW r \in Request, NEW u \in User, NEW t \in Token, Login(r, u, t)
  PROVE  TokenInv'
<1> DEFINE y == [Idle EXCEPT !.at = "insert", !.token = t, !.user = u, !.exp = now + Lifetime]
<1>1. /\ req' = [req EXCEPT ![r] = y]
      /\ granted' = [granted EXCEPT ![t] = [user |-> u, at |-> now]]
      /\ HasAccount(u) /\ UNCHANGED <<now, account, tokens, cache, cookies, loggedOut, buried>>
  BY DEF Login
<1>0. req[r].at = "idle" /\ granted[t].user \notin User
  BY NoIdAssumption DEF Login, Idle
<1>2. now \in 0..MaxTime /\ y \in Record
  <2>1. now \in 0..MaxTime /\ now + Lifetime \in Nat
    BY TimeAssumption DEF TokenInv, TypeOK
  <2>2. Idle \in Record
    BY DEF Idle, Record
  <2> QED
    BY <2>1, <2>2 DEF Record
<1>3. req' \in [Request -> Record] /\ req'[r] = y /\ \A q \in Request \ {r} : req'[q] = req[q]
  BY <1>1, <1>2 DEF TokenInv, TypeOK, Record
<1>4. /\ granted' \in [Token -> [user : User \cup {NoUser}, at : 0..MaxTime]]
      /\ granted'[t] = [user |-> u, at |-> now]
      /\ \A s \in Token \ {t} : granted'[s] = granted[s]
  BY <1>1, <1>2 DEF TokenInv, TypeOK
<1>5. /\ tokens[t] = NoRow /\ cache[t] = NoRow /\ t \notin cookies
      /\ \A q \in Request : req[q].at # "idle" => req[q].token # t
  BY <1>0, <1>1, UnderWay DEF TokenInv, RowsGranted, KnownOf, GrantsOK, TypeOK, Row
<1> HIDE DEF y
<1>6. y.at = "insert" /\ y.token = t /\ y.user = u /\ y.exp = now + Lifetime /\ ~y.ownerGone
  BY DEF y, Idle
<1>7. TypeOK'
  BY <1>1, <1>3, <1>4, <1>6 DEF TokenInv, TypeOK, Record
<1>8. RowsGranted'
  BY <1>1, <1>4, <1>5 DEF TokenInv, RowsGranted, KnownOf
<1>9. GrantsOK'
  BY <1>1, <1>2, <1>4, <1>5 DEF TokenInv, GrantsOK, HasAccount, TypeOK
<1>10. RequestsGranted'
  BY <1>1, <1>2, <1>3, <1>4, <1>5, <1>6, UnderWay, TimeAssumption DEF RequestsGranted
<1>11. Inserting' = Inserting \cup {r}
  BY <1>3, <1>6 DEF Inserting
<1>12. InsertsNew'
  BY <1>1, <1>3, <1>5, <1>6, <1>11 DEF TokenInv, InsertsNew, Inserting
<1>13. PresentsCookie'
  BY <1>1, <1>3, <1>6, <1>11 DEF TokenInv, PresentsCookie
<1>14. LogoutsOK'
  BY <1>1, <1>3, <1>5, <1>6 DEF TokenInv, LogoutsOK, TypeOK
<1>15. OwnerGone'
  <2>1. \A q \in Request : req[q].at # "idle" => req[q].token \in Token
    BY UnderWay
  <2> QED
    BY <1>1, <1>3, <1>4, <1>5, <1>6, <2>1 DEF TokenInv, OwnerGone
<1> QED
  BY <1>7, <1>8, <1>9, <1>10, <1>12, <1>13, <1>14, <1>15 DEF TokenInv

LEMMA LogoutKeeps ==
  ASSUME TokenInv, NEW r \in Request, Logout(r)
  PROVE  TokenInv'
<1> USE NoIdAssumption DEF TokenInv, TypeOK, Logout, Answer, Idle, Row, NoRow
<1>1. TypeOK'
  BY DEF PresentsCookie, Inserting
<1>2. RowsGranted' /\ GrantsOK'
  BY DEF RowsGranted, KnownOf, GrantsOK
<1>3. RequestsGranted' /\ OwnerGone'
  BY DEF RequestsGranted, OwnerGone
<1>4. InsertsNew' /\ PresentsCookie'
  BY DEF InsertsNew, PresentsCookie, Inserting
<1>5. LogoutsOK'
  BY DEF LogoutsOK
<1> QED
  BY <1>1, <1>2, <1>3, <1>4, <1>5

LEMMA DeleteUserKeeps ==
  ASSUME TokenInv, NEW r \in Request, DeleteUser(r)
  PROVE  TokenInv'
<1> USE NoIdAssumption DEF TokenInv, TypeOK, DeleteUser, Answer, Idle, Row, NoRow
<1>1. TypeOK'
  OBVIOUS
<1>2. RowsGranted' /\ GrantsOK'
  BY DEF RowsGranted, KnownOf, GrantsOK
<1>3. RequestsGranted'
  BY DEF RequestsGranted
<1>4. InsertsNew' /\ PresentsCookie'
  BY DEF InsertsNew, PresentsCookie, Inserting
<1>5. LogoutsOK'
  BY DEF LogoutsOK
<1>6. OwnerGone'
  BY DEF OwnerGone, RequestsGranted
<1> QED
  BY <1>1, <1>2, <1>3, <1>4, <1>5, <1>6

LEMMA HandleKeeps ==
  ASSUME TokenInv, NEW r \in Request, Handle(r)
  PROVE  TokenInv'
<1>1. RowsGranted'
  BY DEF Handle, TokenInv, RowsGranted, KnownOf
<1> QED
  BY <1>1, AnswerKeeps DEF Handle, TokenInv, TypeOK, LogoutsOK

(* Accounts are not restored.                                              *)
LEMMA AccountsKeep ==
  ASSUME TokenInv, NEW u \in User, Register(u) \/ Ban(u)
  PROVE  TokenInv'
<1> USE DEF TokenInv, TypeOK, Register, Ban
<1>1. TypeOK'
  OBVIOUS
<1>2. RowsGranted' /\ GrantsOK' /\ RequestsGranted'
  BY DEF RowsGranted, KnownOf, GrantsOK, RequestsGranted
<1>3. InsertsNew' /\ PresentsCookie' /\ LogoutsOK'
  BY DEF InsertsNew, PresentsCookie, Inserting, LogoutsOK
<1>4. OwnerGone'
  BY DEF OwnerGone, GrantsOK, RequestsGranted
<1> QED
  BY <1>1, <1>2, <1>3, <1>4

(* Evict and Clean only drop rows and entries.                             *)
LEMMA DropsKeep ==
  ASSUME TokenInv, (\E t \in Token : Evict(t)) \/ Clean
  PROVE  TokenInv'
<1> USE DEF TokenInv, TypeOK, Evict, Clean
<1>1. TypeOK'
  OBVIOUS
<1>2. RowsGranted' /\ GrantsOK' /\ RequestsGranted'
  BY DEF RowsGranted, KnownOf, GrantsOK, RequestsGranted
<1>3. InsertsNew' /\ PresentsCookie' /\ LogoutsOK' /\ OwnerGone'
  BY DEF InsertsNew, PresentsCookie, Inserting, LogoutsOK, OwnerGone
<1> QED
  BY <1>1, <1>2, <1>3

LEMMA RestartKeeps == ASSUME TokenInv, Restart PROVE TokenInv'
<1> USE NoIdAssumption DEF TokenInv, TypeOK, Restart, Idle
<1>1. TypeOK'
  OBVIOUS
<1>2. RowsGranted' /\ GrantsOK' /\ RequestsGranted'
  BY DEF RowsGranted, KnownOf, GrantsOK, RequestsGranted
<1>3. InsertsNew' /\ PresentsCookie' /\ LogoutsOK' /\ OwnerGone'
  BY DEF InsertsNew, PresentsCookie, Inserting, LogoutsOK, OwnerGone
<1> QED
  BY <1>1, <1>2, <1>3

LEMMA TickKeeps == ASSUME TokenInv, Tick PROVE TokenInv'
<1> USE TimeAssumption DEF TokenInv, TypeOK, Tick
<1>1. TypeOK'
  OBVIOUS
<1>2. RowsGranted' /\ GrantsOK' /\ RequestsGranted'
  BY DEF RowsGranted, KnownOf, GrantsOK, RequestsGranted
<1>3. InsertsNew' /\ PresentsCookie' /\ LogoutsOK' /\ OwnerGone'
  BY DEF InsertsNew, PresentsCookie, Inserting, LogoutsOK, OwnerGone
<1> QED
  BY <1>1, <1>2, <1>3

LEMMA TokenInit == ASSUME Init PROVE TokenInv
<1> USE TimeAssumption, NoIdAssumption DEF Init, Idle
<1>1. TypeOK
  BY DEF TypeOK
<1>2. RowsGranted /\ GrantsOK /\ RequestsGranted
  BY DEF RowsGranted, KnownOf, GrantsOK, RequestsGranted
<1>3. InsertsNew /\ PresentsCookie /\ LogoutsOK /\ OwnerGone
  BY DEF InsertsNew, PresentsCookie, Inserting, LogoutsOK, OwnerGone
<1> QED
  BY <1>1, <1>2, <1>3 DEF TokenInv

LEMMA TokenNext == ASSUME TokenInv, [Next]_vars PROVE TokenInv'
<1>1. CASE UNCHANGED vars
  BY <1>1 DEF vars, TokenInv, TypeOK, RowsGranted, KnownOf, GrantsOK, RequestsGranted,
              InsertsNew, PresentsCookie, Inserting, LogoutsOK, OwnerGone
<1>2. ASSUME NEW r \in Request, AuthUser(r) PROVE TokenInv'
  BY <1>2, TokenGetKeeps, TokenRefreshReadsKeeps, TokenRefreshAddsKeeps, TokenGetAgainKeeps,
     CheckUserKeeps, CheckExpirationKeeps, UpdateTokenKeeps, UpdateTokenCacheKeeps DEF AuthUser
<1>3. ASSUME NEW r \in Request,
             \/ \E u \in User, t \in Token : Login(r, u, t)
             \/ InsertToken(r) \/ InsertTokenCache(r)
             \/ Logout(r) \/ DeleteUser(r) \/ Handle(r)
      PROVE  TokenInv'
  BY <1>3, LoginKeeps, InsertTokenKeeps, InsertTokenCacheKeeps, LogoutKeeps, DeleteUserKeeps, HandleKeeps
<1>4. CASE (\E t \in Token : Evict(t)) \/ Clean \/ Restart \/ Tick
  BY <1>4, DropsKeep, RestartKeeps, TickKeeps
<1> QED
  BY <1>1, <1>2, <1>3, <1>4, AccountsKeep DEF Next

(* The invariant that the theorems about TokenAuth rest on.                *)
THEOREM TokenInvariance == Spec => []TokenInv
BY TokenInit, TokenNext, PTL DEF Spec

(* A request is admitted as the user the token was issued to: the data of  *)
(* TokenGetSet and updateTokenExpiration, from the table or the cache, are *)
(* always those of that user.                                              *)
THEOREM AdmittedAsOwnerHolds == Spec => []AdmittedAsOwner
<1>1. TokenInv => AdmittedAsOwner
  BY DEF TokenInv, RequestsGranted, AdmittedAsOwner
<1> QED
  BY <1>1, TokenInvariance, PTL

(* The middleware AuthUser refuses whoever was deleted or banned before    *)
(* the request arrived, although the cache still has the token.            *)
THEOREM DeletedUserRefusedHolds == Spec => []DeletedUserRefused
<1>1. TokenInv => DeletedUserRefused
  BY DEF TokenInv, OwnerGone, DeletedUserRefused
<1> QED
  BY <1>1, TokenInvariance, PTL

(* A token that logout deleted before the last restart admits nobody.      *)
THEOREM LogoutSurvivesRestartHolds == Spec => []LogoutSurvivesRestart
<1>1. TokenInv => LogoutSurvivesRestart
  BY DEF TokenInv, LogoutsOK, LogoutSurvivesRestart
<1> QED
  BY <1>1, TokenInvariance, PTL

(* TokenRefresh and updateTokenExpiration never keep a token alive after   *)
(* the lifetime its last login or extension gave it.                       *)
THEOREM NoLateExtensionHolds == Spec => NoLateExtension
<1> DEFINE A == \A r \in Request :
                  req[r].at = "checkExpiration" /\ req'[r].at \in {"update", "admitted"} =>
                    now <= granted[req[r].token].at + Lifetime
<1>1. TokenInv /\ [Next]_vars => A
  <2> SUFFICES ASSUME TokenInv, [Next]_vars, NEW r \in Request,
                      req[r].at = "checkExpiration", req'[r].at \in {"update", "admitted"}
               PROVE  now <= granted[req[r].token].at + Lifetime
    OBVIOUS
  <2>1. req'[r] # req[r] /\ req'[r] # Idle
    BY DEF Idle
  <2>2. PICK q \in Request :
          \/ \E u \in User, t \in Token : Login(q, u, t)
          \/ InsertToken(q) \/ InsertTokenCache(q) \/ AuthUser(q)
          \/ Logout(q) \/ DeleteUser(q) \/ Handle(q)
    BY <2>1 DEF Next, vars, Register, Ban, Evict, Clean, Restart, Tick
  <2>3. q = r
    BY <2>1, <2>2 DEF AuthUser, TokenInv, TypeOK, Login, InsertToken, InsertTokenCache, TokenGet,
       TokenRefreshReads, TokenRefreshAdds, TokenGetAgain, CheckUser, CheckExpiration, UpdateToken,
       UpdateTokenCache, Logout, DeleteUser, Handle, Answer, Goto
  <2>4. CheckExpiration(r)
    <3>1. req[r] # Idle
      BY DEF Idle
    <3>2. AuthUser(r)
      BY <2>2, <2>3, <3>1 DEF Login, InsertToken, InsertTokenCache, Logout, DeleteUser, Handle
    <3> QED
      BY <3>1, <3>2 DEF AuthUser, TokenGet, TokenRefreshReads, TokenRefreshAdds, TokenGetAgain,
         CheckUser, UpdateToken, UpdateTokenCache
  <2>5. now <= req[r].exp
    BY <2>1, <2>4, UnderWay, TimeAssumption DEF CheckExpiration, Answer, TokenInv, TypeOK
  <2> QED
    BY <2>5, UnderWay, TimeAssumption DEF TokenInv, TypeOK
<1> QED
  BY <1>1, TokenInvariance, PTL DEF Spec, NoLateExtension

(***************************************************************************)
(* RateLimiter: the inductive invariant                                    *)
(***************************************************************************)
(* The entry of a user stands for the user's last admission, and as long   *)
(* as that is no more than TTL ago it is there.                            *)
EntriesOfAdmissions ==
  \A u \in User :
    /\ expires[u] # Limiter!NoEntry =>
         admitted[u] # Limiter!NoEntry /\ expires[u] = admitted[u] + TTL
    /\ admitted[u] # Limiter!NoEntry /\ ticks <= admitted[u] + TTL =>
         expires[u] = admitted[u] + TTL

(* A request about to add its user's entry without company came late.      *)
LookedAlone ==
  \A r \in LimitedRequest : LET u == limited[r].user IN
    /\ limited[r].at # "idle" => u \in User
    /\ limited[r].at = "add" /\ limited[r].alone =>
         admitted[u] = Limiter!NoEntry \/ ticks > admitted[u] + TTL

LimiterInv == Limiter!TypeOK /\ EntriesOfAdmissions /\ LookedAlone /\ Limiter!AdmissionsSpaced

LEMMA LimiterInit == ASSUME Limiter!Init PROVE LimiterInv
BY TicksAssumption DEF Limiter!Init, Limiter!NoEntry, Limiter!Idle, Limiter!TypeOK, Limiter!Exists,
   LimiterInv, EntriesOfAdmissions, LookedAlone, Limiter!AdmissionsSpaced

LEMMA LimiterNext == ASSUME LimiterInv, [Limiter!Next]_(Limiter!vars) PROVE LimiterInv'
<1> USE TicksAssumption, NoIdAssumption
    DEF LimiterInv, Limiter!NoEntry, Limiter!TypeOK, Limiter!Exists, Limiter!Idle
<1>1. ASSUME NEW r \in LimitedRequest, NEW u \in User, Limiter!Get(r, u) PROVE LimiterInv'
  <2> USE <1>1 DEF Limiter!Get
  <2>1. Limiter!TypeOK'
    OBVIOUS
  <2>2. EntriesOfAdmissions'
    BY DEF EntriesOfAdmissions
  <2>3. LookedAlone'
    BY DEF LookedAlone, EntriesOfAdmissions
  <2>4. Limiter!AdmissionsSpaced'
    BY DEF Limiter!AdmissionsSpaced
  <2> QED
    BY <2>1, <2>2, <2>3, <2>4
<1>2. ASSUME NEW r \in LimitedRequest, Limiter!Refuse(r) \/ Limiter!Serve(r) PROVE LimiterInv'
  <2> USE <1>2 DEF Limiter!Refuse, Limiter!Serve, Limiter!Answer
  <2>0. UNCHANGED <<ticks, expires, admitted>> /\ limited' = [limited EXCEPT ![r] = Limiter!Idle]
    OBVIOUS
  <2>1. Limiter!TypeOK'
    BY <2>0
  <2>2. EntriesOfAdmissions'
    BY DEF EntriesOfAdmissions
  <2>3. LookedAlone'
    BY DEF LookedAlone
  <2>4. Limiter!AdmissionsSpaced'
    BY DEF Limiter!AdmissionsSpaced
  <2> QED
    BY <2>1, <2>2, <2>3, <2>4
<1>3. ASSUME NEW r \in LimitedRequest, Limiter!Add(r) PROVE LimiterInv'
  <2> USE <1>3 DEF Limiter!Add
  <2>1. Limiter!TypeOK'
    <3> DEFINE u == limited[r].user
    <3>1. u \in User
      BY DEF LookedAlone
    <3>2. expires' \in [User -> 0 .. MaxTicks + TTL] /\ admitted' \in [User -> 0 .. ticks']
      BY <3>1
    <3>3. \A q \in LimitedRequest :
            limited'[q] \in [at : {"idle", "refused", "add", "admitted"}, user : User \cup {NoUser},
                            alone : BOOLEAN, since : 0 .. ticks']
      <4> SUFFICES ASSUME NEW q \in LimitedRequest
                   PROVE  limited'[q] \in [at : {"idle", "refused", "add", "admitted"},
                            user : User \cup {NoUser}, alone : BOOLEAN, since : 0 .. ticks']
        OBVIOUS
      <4>1. CASE q = r
        <5> DEFINE since == IF admitted[u] = Limiter!NoEntry THEN 0 ELSE ticks - admitted[u]
        <5>1. since \in 0 .. ticks' /\ limited[r] \in [at : {"idle", "refused", "add", "admitted"},
                user : User \cup {NoUser}, alone : BOOLEAN, since : 0 .. ticks']
          BY <3>1
        <5>2. limited'[q] = [limited[r] EXCEPT !.at = "admitted", !.since = since]
          BY <4>1
        <5> HIDE DEF since
        <5> QED
          BY <5>1, <5>2
      <4>2. CASE q # r
        <5>1. (limited[q].alone /\ limited[q].user # u) \in BOOLEAN
          OBVIOUS
        <5>2. limited'[q] = [limited[q] EXCEPT !.alone = limited[q].alone /\ limited[q].user # u]
          BY <4>2
        <5> QED
          BY <5>1, <5>2
      <4> QED
        BY <4>1, <4>2
    <3>4. \A v \in User : Limiter!Exists(v)' => expires'[v] = admitted'[v] + TTL
      BY <3>1
    <3> QED
      BY <3>2, <3>3, <3>4
  <2>2. EntriesOfAdmissions'
    BY DEF EntriesOfAdmissions, LookedAlone
  <2>3. LookedAlone'
    BY DEF LookedAlone
  <2>4. Limiter!AdmissionsSpaced'
    BY DEF Limiter!AdmissionsSpaced, LookedAlone
  <2> QED
    BY <2>1, <2>2, <2>3, <2>4
<1>4. ASSUME NEW u \in User, Limiter!Expire(u) PROVE LimiterInv'
  BY <1>4 DEF Limiter!Expire, EntriesOfAdmissions, LookedAlone, Limiter!AdmissionsSpaced
<1>5. ASSUME Limiter!Tick PROVE LimiterInv'
  BY <1>5 DEF Limiter!Tick, EntriesOfAdmissions, LookedAlone, Limiter!AdmissionsSpaced
<1>6. CASE UNCHANGED Limiter!vars
  BY <1>6 DEF Limiter!vars, EntriesOfAdmissions, LookedAlone, Limiter!AdmissionsSpaced
<1> QED
  BY <1>1, <1>2, <1>3, <1>4, <1>5, <1>6 DEF Limiter!Next

(***************************************************************************)
(* Validation: texts of any length                                         *)
(***************************************************************************)
AnyText == [narrow : Nat, wide : Nat, special : BOOLEAN, blanks : {0, 1}]
Field == DOMAIN Forms!Schema

LEMMA Fields ==
  /\ Field = {"username", "password", "display_name", "server_name", "channel_name", "text_message"}
  /\ \A f \in Field : Forms!Schema[f].min \in Nat /\ Forms!Schema[f].max \in Nat /\ Forms!Schema[f].min >= 1
       /\ Forms!Schema[f].max >= 6
  /\ DOMAIN Forms!Width = Field \ {"password"}
  /\ \A f \in Field \ {"password"} : Forms!Width[f] = Forms!Schema[f].max
  /\ Forms!Schema["username"].max <= Forms!Width["display_name"]
BY DEF Field, Forms!Schema, Forms!Width

LEMMA TextsAreTexts == \A f \in Field : Forms!Text(f) \subseteq AnyText
<1> SUFFICES ASSUME NEW f \in Field, NEW t \in Forms!Text(f) PROVE t \in AnyText
  OBVIOUS
<1> DEFINE min == Forms!Schema[f].min
           max == Forms!Schema[f].max
<1>1. min \in Nat /\ max \in Nat /\ min >= 1 /\ max >= 6
  BY Fields
<1>2. t \in [narrow : {0, 1, min - 1, min, max - 6, max - 3, max - 1, max, max + 1}, wide : Wide,
              special : BOOLEAN, blanks : {0, 1}]
  BY DEF Forms!Text
<1> HIDE DEF min, max
<1>3. {0, 1, min - 1, min, max - 6, max - 3, max - 1, max, max + 1} \subseteq Nat
  BY <1>1
<1> QED
  BY <1>2, <1>3, WideAssumption DEF AnyText

LEMMA TrimmedTexts ==
  ASSUME NEW t \in AnyText
  PROVE  Forms!TrimSpace(t) \in AnyText /\ Forms!TrimSpace(t).blanks = 0
BY DEF AnyText, Forms!TrimSpace

(* What Validate says of a text of any length.                             *)
LEMMA Validated ==
  ASSUME NEW f \in Field, NEW t \in AnyText, NEW opt \in BOOLEAN,
         NEW passes,
         passes <=> \/ opt /\ Forms!Bytes(t) = 0
                    \/ /\ Forms!Bytes(t) \in Forms!Schema[f].min .. Forms!Schema[f].max
                       /\ (f = "username" => Forms!Matches(t))
  PROVE  /\ Forms!Validate(f, t, opt) = <<>> <=> passes
         /\ ~passes => Len(Forms!Validate(f, t, opt)) \in 1..2
<1>1. /\ Forms!Bytes(t) \in Nat
      /\ Forms!Schema[f].min \in Nat /\ Forms!Schema[f].max \in Nat /\ Forms!Schema[f].min >= 1
  BY Fields DEF Forms!Bytes, AnyText
<1> DEFINE n == Forms!Bytes(t)
           by_length == CASE n = 0 -> <<"empty">>
                          [] n > 0 /\ n < Forms!Schema[f].min -> <<"short">>
                          [] n > Forms!Schema[f].max -> <<"long">>
                          [] OTHER -> <<>>
           by_regexp == IF n > 0 /\ f = "username" /\ ~Forms!Matches(t) THEN <<"no_special_chars">> ELSE <<>>
<1>2. Forms!Validate(f, t, opt) = IF n = 0 /\ opt THEN <<>> ELSE by_length \o by_regexp
  BY DEF Forms!Validate
<1>3. CASE n \in Forms!Schema[f].min .. Forms!Schema[f].max
  <2>1. n > 0 /\ ~(n < Forms!Schema[f].min) /\ ~(n > Forms!Schema[f].max) /\ n # 0
    BY <1>1, <1>3
  <2>2. by_length = <<>>
    <3> HIDE DEF n
    <3> QED
      BY <2>1
  <2> HIDE DEF n, by_length
  <2>3. CASE f = "username" /\ ~Forms!Matches(t)
    <3>1. Forms!Validate(f, t, opt) = <<>> \o <<"no_special_chars">>
      BY <1>2, <2>1, <2>2, <2>3
    <3>2. <<>> \o <<"no_special_chars">> = <<"no_special_chars">>
      OBVIOUS
    <3> QED
      BY <1>3, <2>1, <2>3, <3>1, <3>2 DEF n
  <2>4. CASE f = "username" => Forms!Matches(t)
    <3>1. Forms!Validate(f, t, opt) = <<>> \o <<>>
      BY <1>2, <2>1, <2>2, <2>4
    <3>2. <<>> \o <<>> = <<>>
      OBVIOUS
    <3> QED
      BY <1>3, <2>1, <2>4, <3>1, <3>2 DEF n
  <2> QED
    BY <2>3, <2>4
<1>4. CASE n \notin Forms!Schema[f].min .. Forms!Schema[f].max
  <2>1. n = 0 \/ (n > 0 /\ n < Forms!Schema[f].min) \/ n > Forms!Schema[f].max
    BY <1>1, <1>4
  <2>2. \E issue \in {"empty", "short", "long"} : by_length = <<issue>>
    <3> HIDE DEF n
    <3> QED
      BY <1>1, <2>1
  <2>3. PICK issue \in {"empty", "short", "long"} : by_length = <<issue>>
    BY <2>2
  <2> HIDE DEF by_length
  <2>4. by_regexp = <<>> \/ by_regexp = <<"no_special_chars">>
    OBVIOUS
  <2> HIDE DEF by_regexp
  <2>5. Len(by_length \o by_regexp) \in 1..2 /\ by_length \o by_regexp # <<>>
    <3>1. CASE by_regexp = <<>>
      <4>1. <<issue>> \o <<>> = <<issue>> /\ Len(<<issue>>) = 1 /\ <<issue>> # <<>>
        OBVIOUS
      <4> QED
        BY <2>3, <3>1, <4>1
    <3>2. CASE by_regexp = <<"no_special_chars">>
      <4>1. PICK both : both = <<issue>> \o <<"no_special_chars">>
        OBVIOUS
      <4>2. Len(both) = 2 /\ both # <<>>
        BY <4>1
      <4> QED
        BY <2>3, <3>2, <4>1, <4>2
    <3> QED
      BY <2>4, <3>1, <3>2
  <2>6. passes <=> opt /\ n = 0
    BY <1>4
  <2> HIDE DEF n
  <2> QED
    BY <1>2, <2>5, <2>6
<1> QED
  BY <1>3, <1>4

(* Sequences of no, one and two elements.                                  *)
LEMMA Pairs ==
  ASSUME NEW x, NEW y
  PROVE  /\ Append(<<>>, x) = <<x>> /\ Append(<<x>>, y) = <<x, y>>
         /\ Len(<<x>>) = 1 /\ <<x>>[1] = x /\ DOMAIN <<x>> = {1} /\ <<x>> # <<>>
         /\ Len(<<x, y>>) = 2 /\ <<x, y>>[1] = x /\ <<x, y>>[2] = y
         /\ DOMAIN <<x, y>> = {1, 2} /\ <<x, y>> # <<>>
<1>1. Append(<<>>, x) = <<x>>
  OBVIOUS
<1>2. Append(<<x>>, y) = <<x, y>>
  <2> DEFINE T == {x, y}
  <2>1. <<x>> \in Seq(T) /\ y \in T /\ <<x, y>> \in Seq(T)
    OBVIOUS
  <2>2. PICK s \in Seq(T) : s = <<x>> /\ Len(s) = 1 /\ s[1] = x
    BY <2>1
  <2>3. PICK e \in Seq(T) : e = <<x, y>> /\ Len(e) = 2 /\ e[1] = x /\ e[2] = y
    BY <2>1
  <2> HIDE DEF T
  <2>4. Append(s, y) \in Seq(T) /\ Len(Append(s, y)) = 2 /\ Append(s, y)[1] = x /\ Append(s, y)[2] = y
    BY <2>1, <2>2
  <2>5. PICK a \in Seq(T) : a = Append(s, y) /\ Len(a) = 2 /\ a[1] = x /\ a[2] = y
    BY <2>4
  <2>6. \A i \in 1 .. 2 : a[i] = e[i]
    BY <2>3, <2>5
  <2>7. a = e
    BY <2>3, <2>5, <2>6, SeqEqual
  <2> QED
    BY <2>2, <2>3, <2>5, <2>7
<1>3. Len(<<x>>) = 1 /\ <<x>>[1] = x /\ DOMAIN <<x>> = {1} /\ <<x>> # <<>>
  OBVIOUS
<1>4. /\ Len(<<x, y>>) = 2 /\ <<x, y>>[1] = x /\ <<x, y>>[2] = y
      /\ DOMAIN <<x, y>> = {1, 2} /\ <<x, y>> # <<>>
  OBVIOUS
<1> QED
  BY <1>1, <1>2, <1>3, <1>4

LEMMA Nothing == DOMAIN <<>> = {} /\ Len(<<>>) = 0
OBVIOUS

(* MergeValidationIssues leaves what has issues, in the order of the form. *)
LEMMA Merged ==
  ASSUME NEW all, Len(all) \in {1, 2}
  PROVE  /\ Len(all) = 1 =>
              Forms!MergeValidationIssues(all) = IF all[1].issues = <<>> THEN <<>> ELSE <<all[1]>>
         /\ Len(all) = 2 =>
              Forms!MergeValidationIssues(all) =
                IF all[1].issues = <<>> THEN IF all[2].issues = <<>> THEN <<>> ELSE <<all[2]>>
                ELSE IF all[2].issues = <<>> THEN <<all[1]>> ELSE <<all[1], all[2]>>
<1> DEFINE step(m, i) == IF i = 0 THEN <<>>
                         ELSE IF all[i].issues = <<>> THEN m[i - 1] ELSE Append(m[i - 1], all[i])
           after(m) == [i \in 0 .. Len(all) |-> step(m, i)]
           first == IF all[1].issues = <<>> THEN <<>> ELSE Append(<<>>, all[1])
           second == IF all[2].issues = <<>> THEN first ELSE Append(first, all[2])
           merged == CHOOSE m : m = after(m)
           some == [i \in 0 .. Len(all) |-> IF i = 0 THEN <<>> ELSE IF i = 1 THEN first ELSE second]
<1>1. Forms!MergeValidationIssues(all) = merged[Len(all)]
  BY DEF Forms!MergeValidationIssues
<1>2. some = after(some)
  <2>1. some[0] = <<>> /\ some[1] = first /\ (Len(all) = 2 => some[2] = second)
    <3> HIDE DEF first, second
    <3> QED
      OBVIOUS
  <2>2. 1 - 1 = 0 /\ 2 - 1 = 1
    OBVIOUS
  <2>3. ASSUME NEW i \in 0..Len(all) PROVE some[i] = step(some, i)
    <3> HIDE DEF some
    <3>1. i \in {0, 1} \/ (i = 2 /\ Len(all) = 2)
      <4>1. CASE Len(all) = 1
        <5>1. i \in 0..1
          BY <4>1
        <5> QED
          BY <5>1
      <4>2. CASE Len(all) = 2
        <5>1. i \in 0..2
          BY <4>2
        <5> QED
          BY <5>1, <4>2
      <4> QED
        BY <4>1, <4>2
    <3> QED
      BY <2>1, <2>2, <3>1, Zenon
  <2>4. some = [i \in 0..Len(all) |-> some[i]]
    OBVIOUS
  <2> HIDE DEF some, step
  <2> QED
    BY <2>3, <2>4
<1> HIDE DEF some
<1>3. merged = after(merged)
  BY <1>2
<1> HIDE DEF merged
<1>4. \A i \in 0..Len(all) : merged[i] = step(merged, i)
  <2> HIDE DEF step
  <2> QED
    BY <1>3
<1>5. merged[0] = <<>>
  BY <1>4
<1>6. merged[1] = first
  <2>1. 1 - 1 = 0 /\ 1 \in 0..Len(all) /\ ~(1 = 0)
    OBVIOUS
  <2> QED
    BY <1>4, <1>5, <2>1, Zenon
<1>7. Len(all) = 2 => merged[2] = second
  <2>1. 2 - 1 = 1 /\ (Len(all) = 2 => 2 \in 0..Len(all)) /\ ~(2 = 0)
    OBVIOUS
  <2> QED
    BY <1>4, <1>6, <2>1, Zenon
<1>8. /\ Append(<<>>, all[1]) = <<all[1]>> /\ Append(<<>>, all[2]) = <<all[2]>>
      /\ Append(<<all[1]>>, all[2]) = <<all[1], all[2]>>
  BY Pairs
<1>9. CASE Len(all) = 1
  <2>1. Forms!MergeValidationIssues(all) = first
    BY <1>1, <1>6, <1>9
  <2> QED
    BY <1>8, <1>9, <2>1
<1>10. CASE Len(all) = 2
  <2>1. Forms!MergeValidationIssues(all) = second
    BY <1>1, <1>7, <1>10
  <2> HIDE DEF first, second
  <2>2. CASE all[1].issues = <<>>
    <3>1. first = <<>>
      BY <2>2 DEF first
    <3>2. second = IF all[2].issues = <<>> THEN <<>> ELSE <<all[2]>>
      BY <1>8, <3>1 DEF second
    <3> QED
      BY <1>10, <2>1, <2>2, <3>2
  <2>3. CASE all[1].issues # <<>>
    <3>1. first = <<all[1]>>
      BY <1>8, <2>3 DEF first
    <3>2. second = IF all[2].issues = <<>> THEN <<all[1]>> ELSE <<all[1], all[2]>>
      BY <1>8, <3>1 DEF second
    <3> QED
      BY <1>10, <2>1, <2>3, <3>2
  <2> QED
    BY <2>2, <2>3
<1> QED
  BY <1>9, <1>10
(***************************************************************************)
(* Validation: the inductive invariant                                     *)
(***************************************************************************)
Passes(f, t, opt) ==
  \/ opt /\ Forms!Bytes(t) = 0
  \/ /\ Forms!Bytes(t) \in Forms!Schema[f].min .. Forms!Schema[f].max
     /\ f = "username" => Forms!Matches(t)

Fits(columns) ==
  /\ DOMAIN columns \subseteq DOMAIN Forms!Width
  /\ \A c \in DOMAIN columns :
       /\ Forms!Chars(columns[c]) <= Forms!Width[c] /\ columns[c].blanks = 0
       /\ c # "text_message" => Forms!Chars(columns[c]) > 0
       /\ c = "username" => Forms!Matches(columns[c])

FormInv == Forms!TypeOK /\ Forms!StoredFits /\ Forms!RefusedInFull

LEMMA NothingStored == DOMAIN Forms!NoTexts = {} /\ Fits(Forms!NoTexts)
BY DEF Forms!NoTexts, Fits

(* One field of any text.                                                  *)
LEMMA SubmitOne ==
  ASSUME NEW f \in Field, NEW t \in AnyText, NEW opt \in BOOLEAN, NEW columns,
         Forms!Submit(<<f>>, Forms!Column(f, t), opt, columns),
         Passes(f, t, opt) => Fits(columns)
  PROVE  FormInv'
<1> DEFINE said == Forms!Validate(f, t, opt)
           entry == [field |-> f, issues |-> said]
           all == [i \in DOMAIN <<f>> |->
                     [field |-> <<f>>[i], issues |-> Forms!Validate(<<f>>[i], Forms!Column(f, t)[<<f>>[i]], opt)]]
           found == Forms!MergeValidationIssues(all)
<1>1. Len(all) = 1 /\ all[1] = entry
  <2>1. DOMAIN <<f>> = 1..1 /\ <<f>>[1] = f /\ Forms!Column(f, t)[f] = t
    BY DEF Forms!Column
  <2>2. DOMAIN all = 1..1 /\ all[1] = entry
    BY <2>1
  <2> QED
    BY <2>2
<1>2. found = IF said = <<>> THEN <<>> ELSE <<entry>>
  <2>1. entry.issues = said
    OBVIOUS
  <2> HIDE DEF all, entry, said
  <2>2. Len(all) = 1 /\ all[1] = entry /\ all[1].issues = said
    BY <1>1, <2>1
  <2>3. found = IF all[1].issues = <<>> THEN <<>> ELSE <<all[1]>>
    BY <2>2, Merged
  <2> QED
    BY <2>2, <2>3
<1>3. /\ said = <<>> <=> Passes(f, t, opt)
      /\ ~Passes(f, t, opt) => Len(said) \in 1..2
  BY Validated DEF Passes
<1>4. /\ form' = Forms!Column(f, t) /\ optional' = opt /\ issues' = found
      /\ row' \in {Forms!NoTexts} \cup IF found = <<>> THEN {columns} ELSE {}
  BY DEF Forms!Submit
<1>5. DOMAIN form' = {f} /\ form'[f] = t
  BY <1>4 DEF Forms!Column
<1> HIDE DEF found, said, all
<1>6. CASE Passes(f, t, opt)
  <2>1. issues' = <<>> /\ DOMAIN issues' = {}
    BY <1>2, <1>3, <1>4, <1>6
  <2>2. Fits(row')
    BY <1>4, <1>6, NothingStored
  <2>3. Forms!TypeOK' /\ Forms!StoredFits'
    BY <1>4, <1>5, <2>1, <2>2 DEF Forms!TypeOK, Forms!StoredFits, Fits, Field
  <2>4. {g \in DOMAIN form' : ~Forms!Acceptable(g, form[g])'} = {}
    BY <1>4, <1>5, <1>6 DEF Forms!Acceptable, Passes
  <2>5. Forms!RefusedInFull'
    BY <2>1, <2>4 DEF Forms!RefusedInFull
  <2> QED
    BY <2>3, <2>5 DEF FormInv
<1>7. CASE ~Passes(f, t, opt)
  <2>1. issues' = <<entry>> /\ DOMAIN issues' = {1} /\ issues'[1] = entry /\ Len(issues') = 1
    <3>1. issues' = <<entry>>
      BY <1>2, <1>3, <1>4, <1>7
    <3> HIDE DEF entry
    <3> QED
      BY <3>1
  <2>2. row' = Forms!NoTexts
    BY <1>4, <2>1
  <2>3. Forms!TypeOK' /\ Forms!StoredFits'
    BY <1>3, <1>4, <1>5, <1>7, <2>1, <2>2, NothingStored DEF Forms!TypeOK, Forms!StoredFits, Field
  <2>4. {g \in DOMAIN form' : ~Forms!Acceptable(g, form[g])'} = {f}
    BY <1>4, <1>5, <1>7 DEF Forms!Acceptable, Passes
  <2>5. {issues'[i].field : i \in DOMAIN issues'} = {f}
    BY <2>1
  <2>6. Forms!RefusedInFull'
    BY <2>1, <2>4, <2>5 DEF Forms!RefusedInFull
  <2> QED
    BY <2>3, <2>6 DEF FormInv
<1> QED
  BY <1>6, <1>7

(* A name and a password.                                                  *)
LEMMA SubmitTwo ==
  ASSUME NEW t \in AnyText, NEW p \in AnyText, NEW columns,
         Forms!Submit(<<"username", "password">>, Forms!Credentials(t, p), FALSE, columns),
         Passes("username", Forms!TrimSpace(t), FALSE) => Fits(columns)
  PROVE  FormInv'
<1> DEFINE u == Forms!TrimSpace(t)
           fields == <<"username", "password">>
           texts == Forms!Credentials(t, p)
           saidU == Forms!Validate("username", u, FALSE)
           saidP == Forms!Validate("password", p, FALSE)
           entryU == [field |-> "username", issues |-> saidU]
           entryP == [field |-> "password", issues |-> saidP]
           all == [i \in DOMAIN fields |->
                     [field |-> fields[i], issues |-> Forms!Validate(fields[i], texts[fields[i]], FALSE)]]
           found == Forms!MergeValidationIssues(all)
<1>1. u \in AnyText /\ {"username", "password"} \subseteq Field
  BY TrimmedTexts, Fields
<1>2. /\ saidU = <<>> <=> Passes("username", u, FALSE)
      /\ ~Passes("username", u, FALSE) => Len(saidU) \in 1..2
      /\ saidP = <<>> <=> Passes("password", p, FALSE)
      /\ ~Passes("password", p, FALSE) => Len(saidP) \in 1..2
  BY <1>1, Validated DEF Passes
<1>3. DOMAIN texts = {"username", "password"} /\ texts["username"] = u /\ texts["password"] = p
  BY DEF Forms!Credentials
<1>4. /\ form' = texts /\ optional' = FALSE /\ issues' = found
      /\ row' \in {Forms!NoTexts} \cup IF found = <<>> THEN {columns} ELSE {}
  BY DEF Forms!Submit
<1>5. Len(all) = 2 /\ all[1] = entryU /\ all[2] = entryP
  <2>1. DOMAIN fields = 1..2 /\ fields[1] = "username" /\ fields[2] = "password"
    OBVIOUS
  <2>2. DOMAIN all = 1..2
    BY <2>1
  <2>3. 1 \in DOMAIN fields /\ 2 \in DOMAIN fields
    BY <2>1
  <2>4. all[1] = [field |-> fields[1], issues |-> Forms!Validate(fields[1], texts[fields[1]], FALSE)]
    BY <2>3
  <2>5. all[2] = [field |-> fields[2], issues |-> Forms!Validate(fields[2], texts[fields[2]], FALSE)]
    BY <2>3
  <2>6. fields[1] = "username" /\ fields[2] = "password" /\ texts["username"] = u /\ texts["password"] = p
    BY <1>3, <2>1
  <2> HIDE DEF fields, texts
  <2>7. all[1] = entryU /\ all[2] = entryP
    BY <2>4, <2>5, <2>6
  <2>8. Len(all) = 2
    <3> HIDE DEF all
    <3> QED
      BY <2>2
  <2> QED
    BY <2>7, <2>8
<1>6. entryU.issues = saidU /\ entryU.field = "username" /\ entryP.issues = saidP /\ entryP.field = "password"
  OBVIOUS
<1>7. \A x \in {form'} : Forms!Acceptable("username", x["username"])' <=> Passes("username", u, FALSE)
  BY <1>3, <1>4 DEF Forms!Acceptable, Passes
<1>8. \A x \in {form'} : Forms!Acceptable("password", x["password"])' <=> Passes("password", p, FALSE)
  BY <1>3, <1>4 DEF Forms!Acceptable, Passes
<1> HIDE DEF entryU, entryP, saidU, saidP, all, u, texts
<1>9. found = IF saidU = <<>> THEN IF saidP = <<>> THEN <<>> ELSE <<entryP>>
              ELSE IF saidP = <<>> THEN <<entryU>> ELSE <<entryU, entryP>>
  <2>1. all[1].issues = saidU /\ all[2].issues = saidP
    BY <1>5, <1>6
  <2>2. found = IF all[1].issues = <<>> THEN IF all[2].issues = <<>> THEN <<>> ELSE <<all[2]>>
                ELSE IF all[2].issues = <<>> THEN <<all[1]>> ELSE <<all[1], all[2]>>
    BY <1>5, Merged
  <2> HIDE DEF found
  <2> QED
    BY <1>5, <2>1, <2>2
<1> HIDE DEF found
<1>10. CASE Passes("username", u, FALSE) /\ Passes("password", p, FALSE)
  <2>1. issues' = <<>> /\ DOMAIN issues' = {} /\ Len(issues') = 0
    <3>1. issues' = <<>>
      BY <1>2, <1>4, <1>9, <1>10
    <3> QED
      BY <3>1, Nothing
  <2>2. Fits(row')
    BY <1>4, <1>10, NothingStored DEF u
  <2>3. Forms!TypeOK' /\ Forms!StoredFits'
    BY <1>1, <1>3, <1>4, <2>1, <2>2 DEF Forms!TypeOK, Forms!StoredFits, Fits, Field
  <2>4. {g \in DOMAIN form' : ~Forms!Acceptable(g, form[g])'} = {}
    BY <1>3, <1>4, <1>7, <1>8, <1>10
  <2>5. Forms!RefusedInFull'
    BY <2>1, <2>4 DEF Forms!RefusedInFull
  <2> QED
    BY <2>3, <2>5 DEF FormInv
<1>11. CASE ~(Passes("username", u, FALSE) /\ Passes("password", p, FALSE))
  <2> DEFINE refused == {g \in DOMAIN form' : ~Forms!Acceptable(g, form[g])'}
             reported == {issues'[i].field : i \in DOMAIN issues'}
  <2>1. DOMAIN form' = {"username", "password"}
    BY <1>3, <1>4
  <2>2. issues' # <<>> /\ issues' = found
    BY <1>2, <1>4, <1>9, <1>11
  <2>3. row' = Forms!NoTexts
    BY <1>4, <2>2
  <2>4. /\ \A i \in DOMAIN issues' :
              issues'[i].field \in {"username", "password"} /\ Len(issues'[i].issues) \in 1..2
        /\ reported = refused
        /\ Len(issues') = 2 => issues'[1].field = "username" /\ issues'[2].field = "password"
    <3>1. CASE Passes("username", u, FALSE)
      <4>1. issues' = <<entryP>>
        BY <1>2, <1>9, <1>11, <2>2, <3>1
      <4>2. DOMAIN issues' = {1} /\ issues'[1] = entryP /\ Len(issues') = 1 /\ Len(issues') # 2
        BY <4>1, Pairs
      <4>3. refused = {"password"} /\ reported = {"password"}
        BY <1>6, <1>7, <1>8, <1>11, <2>1, <3>1, <4>2
      <4> QED
        <5>1. \A i \in DOMAIN issues' : issues'[i] = entryP
          BY <4>2
        <5>2. entryP.field = "password" /\ Len(entryP.issues) \in 1..2
          BY <1>2, <1>6, <1>11, <3>1
        <5> QED
          BY <4>2, <4>3, <5>1, <5>2
    <3>2. CASE Passes("password", p, FALSE)
      <4>1. issues' = <<entryU>>
        BY <1>2, <1>9, <1>11, <2>2, <3>2
      <4>2. DOMAIN issues' = {1} /\ issues'[1] = entryU /\ Len(issues') = 1 /\ Len(issues') # 2
        BY <4>1, Pairs
      <4>3. refused = {"username"} /\ reported = {"username"}
        BY <1>6, <1>7, <1>8, <1>11, <2>1, <3>2, <4>2
      <4> QED
        <5>1. \A i \in DOMAIN issues' : issues'[i] = entryU
          BY <4>2
        <5>2. entryU.field = "username" /\ Len(entryU.issues) \in 1..2
          BY <1>2, <1>6, <1>11, <3>2
        <5> QED
          BY <4>2, <4>3, <5>1, <5>2
    <3>3. CASE ~Passes("username", u, FALSE) /\ ~Passes("password", p, FALSE)
      <4>1. issues' = <<entryU, entryP>>
        BY <1>2, <1>9, <2>2, <3>3
      <4>2. DOMAIN issues' = {1, 2} /\ issues'[1] = entryU /\ issues'[2] = entryP
        BY <4>1
      <4>3. refused = {"username", "password"} /\ reported = {"username", "password"}
        BY <1>6, <1>7, <1>8, <2>1, <3>3, <4>2
      <4> QED
        BY <1>2, <1>6, <3>3, <4>2, <4>3
    <3> QED
      BY <3>1, <3>2, <3>3
  <2>5. Forms!TypeOK' /\ Forms!StoredFits'
    BY <1>1, <1>4, <2>1, <2>3, <2>4, NothingStored DEF Forms!TypeOK, Forms!StoredFits, Field
  <2>6. Forms!RefusedInFull'
    BY <2>4 DEF Forms!RefusedInFull
  <2> QED
    BY <2>5, <2>6 DEF FormInv
<1> QED
  BY <1>10, <1>11

(* What passes its schema and has no blanks at its ends fits its column.   *)
LEMMA ColumnFits ==
  ASSUME NEW f \in Field \ {"password"}, NEW t \in AnyText, NEW opt \in BOOLEAN,
         Passes(f, Forms!TrimSpace(t), opt),
         f # "text_message" => Forms!Chars(Forms!TrimSpace(t)) # 0
  PROVE  Fits(Forms!Column(f, Forms!TrimSpace(t)))
<1> DEFINE u == Forms!TrimSpace(t)
<1>1. u \in AnyText /\ u.blanks = 0
  BY TrimmedTexts
<1>2. /\ Forms!Chars(u) \in Nat /\ Forms!Bytes(u) \in Nat /\ Forms!Chars(u) <= Forms!Bytes(u)
      /\ Forms!Bytes(u) = 0 <=> Forms!Chars(u) = 0
  <2> HIDE DEF u
  <2> QED
    BY <1>1 DEF AnyText, Forms!Chars, Forms!Bytes
<1>3. /\ f \in Field /\ Forms!Width[f] = Forms!Schema[f].max /\ Forms!Schema[f].max \in Nat
      /\ f \in DOMAIN Forms!Width
  BY Fields
<1> HIDE DEF u
<1>4. Forms!Chars(u) <= Forms!Width[f]
  <2>1. CASE Forms!Bytes(u) = 0
    BY <1>2, <1>3, <2>1
  <2>2. CASE Forms!Bytes(u) \in Forms!Schema[f].min .. Forms!Schema[f].max
    <3>1. Forms!Schema[f].min \in Nat
      BY Fields
    <3> QED
      BY <1>2, <1>3, <2>2, <3>1
  <2> QED
    BY <2>1, <2>2 DEF Passes, u
<1>5. f = "username" => Forms!Matches(u)
  BY <1>2 DEF Passes, u
<1>6. f # "text_message" => Forms!Chars(u) > 0
  BY <1>2 DEF u
<1>7. DOMAIN Forms!Column(f, u) = {f} /\ Forms!Column(f, u)[f] = u
  BY DEF Forms!Column
<1>8. Fits(Forms!Column(f, u))
  BY <1>1, <1>3, <1>4, <1>5, <1>6, <1>7 DEF Fits
<1> QED
  BY <1>8 DEF u

LEMMA NoForm ==
  ASSUME form = Forms!NoTexts, optional = FALSE, issues = <<>>, row = Forms!NoTexts
  PROVE  FormInv
<1>1. DOMAIN form = {} /\ DOMAIN row = {} /\ DOMAIN issues = {} /\ Len(issues) # 2
  BY Nothing, NothingStored
<1>2. Forms!TypeOK
  BY <1>1 DEF Forms!TypeOK
<1>3. Forms!StoredFits
  BY <1>1 DEF Forms!StoredFits
<1>4. {issues[i].field : i \in DOMAIN issues} = {} /\ {f \in DOMAIN form : ~Forms!Acceptable(f, form[f])} = {}
  BY <1>1
<1> QED
  BY <1>1, <1>2, <1>3, <1>4 DEF FormInv, Forms!RefusedInFull

LEMMA FormsNext == ASSUME FormInv, [Forms!Next]_(Forms!vars) PROVE FormInv'
<1>1. CASE Forms!Answer
  <2>1. form' = Forms!NoTexts /\ optional' = FALSE /\ issues' = <<>> /\ row' = Forms!NoTexts
    BY <1>1 DEF Forms!Answer
  <2>2. DOMAIN form' = {} /\ DOMAIN row' = {} /\ DOMAIN issues' = {} /\ Len(issues') # 2
    BY <2>1, Nothing, NothingStored
  <2>3. Forms!TypeOK'
    BY <2>1, <2>2 DEF Forms!TypeOK
  <2>4. Forms!StoredFits'
    BY <2>2 DEF Forms!StoredFits
  <2>5. /\ {issues'[i].field : i \in DOMAIN issues'} = {}
        /\ {f \in DOMAIN form' : ~Forms!Acceptable(f, form[f])'} = {}
    BY <2>2
  <2> QED
    BY <2>2, <2>3, <2>4, <2>5 DEF FormInv, Forms!RefusedInFull
<1>2. ASSUME NEW t \in Forms!Text("username"), NEW p \in Forms!Text("password"),
             Forms!Register(t, p) \/ Forms!Login(t, p)
      PROVE  FormInv'
  <2>1. t \in AnyText /\ p \in AnyText /\ "username" \in Field
    BY TextsAreTexts, Fields
  <2>2. CASE Forms!Login(t, p)
    BY <2>1, <2>2, NothingStored, SubmitTwo DEF Forms!Login
  <2>3. CASE Forms!Register(t, p)
    <3>1. PICK u : u = Forms!TrimSpace(t) /\ u \in AnyText /\ u.blanks = 0
      BY <2>1, TrimmedTexts
    <3>2. PICK columns : columns = [c \in {"username", "display_name"} |-> u]
      OBVIOUS
    <3>3. ASSUME Passes("username", u, FALSE) PROVE Fits(columns)
      <4>1. /\ Forms!Bytes(u) \in Forms!Schema["username"].min .. Forms!Schema["username"].max
            /\ Forms!Matches(u)
        BY <3>3 DEF Passes
      <4>2. /\ Forms!Chars(u) \in Nat /\ Forms!Bytes(u) \in Nat /\ Forms!Chars(u) <= Forms!Bytes(u)
            /\ Forms!Bytes(u) = 0 <=> Forms!Chars(u) = 0
        BY <3>1 DEF AnyText, Forms!Chars, Forms!Bytes
      <4>3. Forms!Chars(u) > 0 /\ Forms!Chars(u) <= 32
        BY <4>1, <4>2 DEF Forms!Schema
      <4>4. Forms!Width["username"] = 32 /\ Forms!Width["display_name"] = 64
            /\ {"username", "display_name"} \subseteq DOMAIN Forms!Width
        BY DEF Forms!Width
      <4>5. DOMAIN columns = {"username", "display_name"} /\ \A c \in DOMAIN columns : columns[c] = u
        BY <3>2
      <4>6. Forms!Chars(u) <= 64
        BY <4>2, <4>3
      <4> QED
        BY <3>1, <4>1, <4>3, <4>4, <4>5, <4>6 DEF Fits
    <3> QED
      BY <2>1, <2>3, <3>1, <3>2, <3>3, SubmitTwo DEF Forms!Register
  <2> QED
    BY <1>2, <2>2, <2>3
<1>3. ASSUME NEW f \in {"server_name", "channel_name", "text_message"}, NEW t \in Forms!Text(f),
             Forms!Create(f, t)
      PROVE  FormInv'
  <2>1. t \in AnyText /\ f \in Field \ {"password"} /\ f \in Field /\ Forms!Schema[f].min >= 1
        /\ Forms!Schema[f].min \in Nat
    BY TextsAreTexts, Fields
  <2>2. PICK u : u = Forms!TrimSpace(t) /\ u \in AnyText
    BY <2>1, TrimmedTexts
  <2>3. ASSUME Passes(f, u, FALSE) PROVE Forms!Chars(u) # 0
    <3>1. Forms!Bytes(u) # 0
      BY <2>1, <2>3 DEF Passes
    <3> QED
      BY <2>2, <3>1 DEF AnyText, Forms!Chars, Forms!Bytes
  <2>4. Passes(f, u, FALSE) => Fits(Forms!Column(f, u))
    BY <2>1, <2>2, <2>3, ColumnFits
  <2> QED
    BY <1>3, <2>1, <2>2, <2>4, SubmitOne DEF Forms!Create
<1>4. ASSUME NEW f \in {"display_name", "server_name", "channel_name"}, NEW t \in Forms!Text(f),
             Forms!Update(f, t)
      PROVE  FormInv'
  <2>1. t \in AnyText /\ f \in Field \ {"password"} /\ f \in Field
    BY TextsAreTexts, Fields
  <2>2. PICK u : u = Forms!TrimSpace(t) /\ u \in AnyText
    BY <2>1, TrimmedTexts
  <2>3. PICK columns : columns = IF Forms!Chars(u) = 0 THEN Forms!NoTexts ELSE Forms!Column(f, u)
    OBVIOUS
  <2>4. Passes(f, u, TRUE) => Fits(columns)
    BY <2>1, <2>2, <2>3, NothingStored, ColumnFits
  <2> QED
    BY <1>4, <2>1, <2>2, <2>3, <2>4, SubmitOne DEF Forms!Update
<1>5. ASSUME NEW t \in Forms!Text("text_message"), Forms!CreateMessage(t) PROVE FormInv'
  <2>1. t \in AnyText /\ "text_message" \in Field \ {"password"} /\ "text_message" \in Field
    BY TextsAreTexts, Fields
  <2>2. PICK u : u = Forms!TrimSpace(t) /\ u \in AnyText
    BY <2>1, TrimmedTexts
  <2>3. Passes("text_message", u, TRUE) => Fits(Forms!Column("text_message", u))
    BY <2>1, <2>2, ColumnFits
  <2> QED
    BY <1>5, <2>1, <2>2, <2>3, SubmitOne DEF Forms!CreateMessage
<1>6. CASE UNCHANGED Forms!vars
  BY <1>6 DEF Forms!vars, FormInv, Forms!TypeOK, Forms!StoredFits, Forms!RefusedInFull, Forms!Acceptable
<1> QED
  BY <1>1, <1>2, <1>3, <1>4, <1>5, <1>6 DEF Forms!Next

LEMMA FormsInit == ASSUME Forms!Init PROVE FormInv
BY NoForm DEF Forms!Init

(***************************************************************************)
(* The three of them side by side                                          *)
(***************************************************************************)
(* A step of the components side by side is one of each, or a stutter.     *)
LEMMA SideBySideSteps == SideBySide => Spec /\ Limiter!Spec /\ Forms!Spec
<1>1. Start => Init /\ Limiter!Init /\ Forms!Init
  BY DEF Start
<1>2. ASSUME [\/ LimiterRests /\ FormsRest /\ Next
              \/ TokensRest /\ FormsRest /\ Limiter!Next
              \/ TokensRest /\ LimiterRests /\ Forms!Next]_<<vars, limiterVars, formVars>>
      PROVE  [Next]_vars /\ [Limiter!Next]_(Limiter!vars) /\ [Forms!Next]_(Forms!vars)
  BY <1>2 DEF LimiterRests, TokensRest, FormsRest, limiterVars, formVars, Limiter!vars, Forms!vars
<1> QED
  BY <1>1, <1>2, PTL DEF SideBySide, Spec, Limiter!Spec, Forms!Spec

(* limitRate spaces the admissions of a user that do not look at the cache *)
(* together by more than TTL, and refuses a user only within TTL of an     *)
(* admission of the user's own.                                            *)
THEOREM RateLimitedHolds == SideBySide => RateLimited
<1> DEFINE A == \A r \in LimitedRequest :
                  limited[r].at = "idle" /\ limited'[r].at = "refused" =>
                    LET u == limited'[r].user
                    IN  admitted[u] # Limiter!NoEntry /\ ticks - admitted[u] <= TTL
<1>1. LimiterInv /\ [Limiter!Next]_(Limiter!vars) => A
  <2> SUFFICES ASSUME LimiterInv, [Limiter!Next]_(Limiter!vars), NEW r \in LimitedRequest,
                      limited[r].at = "idle", limited'[r].at = "refused"
               PROVE  LET u == limited'[r].user
                      IN  admitted[u] # Limiter!NoEntry /\ ticks - admitted[u] <= TTL
    OBVIOUS
  <2>1. PICK u \in User : Limiter!Get(r, u)
    <3> USE DEF LimiterInv, Limiter!TypeOK
    <3>1. ASSUME NEW q \in LimitedRequest, Limiter!Add(q) PROVE FALSE
      BY <3>1 DEF Limiter!Add
    <3>2. ASSUME NEW q \in LimitedRequest, Limiter!Refuse(q) \/ Limiter!Serve(q) PROVE FALSE
      BY <3>2 DEF Limiter!Refuse, Limiter!Serve, Limiter!Answer, Limiter!Idle
    <3>3. ASSUME NEW q \in LimitedRequest, NEW u \in User, Limiter!Get(q, u), q # r PROVE FALSE
      BY <3>3 DEF Limiter!Get, Limiter!Idle
    <3>4. limited' # limited
      OBVIOUS
    <3> QED
      BY <3>1, <3>2, <3>3, <3>4 DEF Limiter!Next, Limiter!vars, Limiter!Expire, Limiter!Tick
  <2>2. limited'[r].user = u /\ Limiter!Exists(u)
    BY <2>1 DEF LimiterInv, Limiter!TypeOK, Limiter!Get, Limiter!Idle
  <2> QED
    BY <2>2, TicksAssumption
    DEF LimiterInv, Limiter!TypeOK, EntriesOfAdmissions, Limiter!Exists, Limiter!NoEntry
<1>2. LimiterInv => Limiter!AdmissionsSpaced
  BY DEF LimiterInv
<1> QED
  BY <1>1, <1>2, LimiterInit, LimiterNext, SideBySideSteps, PTL
  DEF Limiter!Spec, RateLimited, Limiter!RefusalsAreOwn

(* What the handlers write fits its column, in characters and without      *)
(* blanks at its ends, and a form is refused for all that is wrong with it *)
(* and for nothing else, whatever texts it holds.                          *)
THEOREM FormsCheckedHolds == SideBySide => []FormsChecked
<1>1. FormInv => FormsChecked
  BY DEF FormInv, FormsChecked
<1> QED
  BY <1>1, FormsInit, FormsNext, SideBySideSteps, PTL DEF Forms!Spec

(* Tokens, the limiter's cache and the forms keep to their types.          *)
THEOREM AdmissionTypeOKHolds == SideBySide => []AdmissionTypeOK
<1>1. TokenInv /\ LimiterInv /\ FormInv => AdmissionTypeOK
  BY DEF TokenInv, LimiterInv, FormInv, AdmissionTypeOK
<1> QED
  BY <1>1, TokenInvariance, LimiterInit, LimiterNext, FormsInit, FormsNext, SideBySideSteps, PTL
  DEF Limiter!Spec, Forms!Spec
=============================================================================
