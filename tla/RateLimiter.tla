---------------------------- MODULE RateLimiter ----------------------------
(***************************************************************************)
(* The middleware RateLimiter: one request of a user per half second.      *)
(*                                                                         *)
(* userIdRateLimiterLru is a cache whose entries expire.  A request that   *)
(* finds its user's entry is refused; one that does not adds it, which also*)
(* renews an entry that another request has added since, and is admitted.  *)
(* The look and the addition are two steps under two locks of the cache.   *)
(***************************************************************************)
EXTENDS Naturals

CONSTANTS
  User, Request,
  NoUser,        \* zero value
  TTL,           \* how long an entry lives, in ticks
  MaxTime        \* bound on the clock

VARIABLES
  now,       \* the clock
  expires,   \* the tick of each user's entry, NoEntry without one
  admitted,  \* when a request of each user was admitted last, NoEntry before the first
  req        \* the request each goroutine serves

vars == <<now, expires, admitted, req>>

(* Ticks start after NoEntry.                                              *)
NoEntry == 0

(* alone: no other request of the user was admitted since it looked.       *)
(* since: ticks from the admission before, 0 if there was none.            *)
Idle == [at |-> "idle", user |-> NoUser, alone |-> TRUE, since |-> 0]

Answer(r) == req' = [req EXCEPT ![r] = Idle]

Init ==
  /\ now = 1
  /\ expires = [u \in User |-> NoEntry]
  /\ admitted = [u \in User |-> NoEntry]
  /\ req = [r \in Request |-> Idle]

(* An entry lives to the end of its last tick.                             *)
Exists(u) == expires[u] # NoEntry /\ now <= expires[u]

Get(r, u) ==
  /\ req[r] = Idle
  /\ req' = [req EXCEPT ![r] = [Idle EXCEPT !.at = IF Exists(u) THEN "refused" ELSE "add",
                                            !.user = u]]
  /\ UNCHANGED <<now, expires, admitted>>

(* Mutant: a refused request renews the entry.                             *)
RefuseAndRenew(r) ==
  /\ req[r].at = "refused"
  /\ expires' = [expires EXCEPT ![req[r].user] = now + TTL]
  /\ Answer(r)
  /\ UNCHANGED <<now, admitted>>

(* Too many requests.                                                      *)
Refuse(r) ==
  /\ req[r].at = "refused"
  /\ Answer(r)
  /\ UNCHANGED <<now, expires, admitted>>

(* Mutant: an entry that is there, although expired, is not renewed.       *)
AddOnce(r) ==
  LET u == req[r].user IN
  /\ req[r].at = "add"
  /\ expires' = IF expires[u] = NoEntry THEN [expires EXCEPT ![u] = now + TTL] ELSE expires
  /\ admitted' = [admitted EXCEPT ![u] = now]
  /\ req' = [q \in Request |->
       IF q = r THEN [req[r] EXCEPT !.at = "admitted",
                        !.since = IF admitted[u] = NoEntry THEN 0 ELSE now - admitted[u]]
       ELSE [req[q] EXCEPT !.alone = @ /\ req[q].user # u]]
  /\ UNCHANGED now

Add(r) ==
  LET u == req[r].user IN
  /\ req[r].at = "add"
  /\ expires' = [expires EXCEPT ![u] = now + TTL]
  /\ admitted' = [admitted EXCEPT ![u] = now]
  /\ req' = [q \in Request |->
       IF q = r THEN [req[r] EXCEPT !.at = "admitted",
                        !.since = IF admitted[u] = NoEntry THEN 0 ELSE now - admitted[u]]
       ELSE [req[q] EXCEPT !.alone = @ /\ req[q].user # u]]
  /\ UNCHANGED now

(* The rest of the chain serves the request.                               *)
Serve(r) ==
  /\ req[r].at = "admitted"
  /\ Answer(r)
  /\ UNCHANGED <<now, expires, admitted>>

(* The cache drops entries that have expired.                              *)
Expire(u) ==
  /\ expires[u] # NoEntry /\ ~Exists(u)
  /\ expires' = [expires EXCEPT ![u] = NoEntry]
  /\ UNCHANGED <<now, admitted, req>>

Tick ==
  /\ now < MaxTime
  /\ now' = now + 1
  /\ UNCHANGED <<expires, admitted, req>>

Next ==
  \/ \E r \in Request :
       \/ \E u \in User : Get(r, u)
       \/ Refuse(r) \/ Add(r) \/ Serve(r)
  \/ \E u \in User : Expire(u)
  \/ Tick

Spec == Init /\ [][Next]_vars

(***************************************************************************)
(* Properties                                                              *)
(***************************************************************************)
TypeOK ==
  /\ now \in 1..MaxTime
  /\ expires \in [User -> 0 .. MaxTime + TTL]
  /\ admitted \in [User -> 0..now]
  /\ req \in [Request ->
       [at : {"idle", "refused", "add", "admitted"}, user : User \cup {NoUser},
        alone : BOOLEAN, since : 0..now]]
  /\ \A u \in User : Exists(u) => expires[u] = admitted[u] + TTL

(* Two admissions of one user are more than TTL apart, unless the second   *)
(* request had looked before the first one was admitted: of requests that  *)
(* arrive together, all may pass.                                          *)
AdmissionsSpaced ==
  \A r \in Request :
    req[r].at = "admitted" /\ req[r].alone => req[r].since = 0 \/ req[r].since > TTL

(* A user is refused only for an admission of the user's own, and only for *)
(* TTL from then on: neither other users nor refused requests, however     *)
(* many, keep a user out.                                                  *)
RefusalsAreOwn ==
  [][\A r \in Request :
       req[r].at = "idle" /\ req'[r].at = "refused" =>
         LET u == req'[r].user
         IN  admitted[u] # NoEntry /\ now - admitted[u] <= TTL]_vars
=============================================================================
