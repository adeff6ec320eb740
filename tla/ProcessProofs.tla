---------------------------- MODULE ProcessProofs ----------------------------
(***************************************************************************)
(* Proofs about the process as a whole: what its goroutines wait for       *)
(* (LockOrder) and how it starts and ends (Lifecycle).                     *)
(*                                                                         *)
(* LockOrder, for any goroutines, any choice of the handlers and any size  *)
(* of the pool: nobody who holds sm.mutex waits, nobody takes a second     *)
(* connection, somebody can always go on, and whoever does shortens what is*)
(* left of a request.  What a goroutine holds is a state of a small        *)
(* automaton (Moves), and what it still has to do is a path of the         *)
(* automaton from there to holding nothing (Balanced).  The functions'     *)
(* programs are such paths, putting them one after the other keeps them so,*)
(* and each step of a goroutine takes it along its path.                   *)
(*                                                                         *)
(* Lifecycle, for any requests: whoever is served is served with a         *)
(* database, and a shutdown that was asked for is not forgotten.  How far  *)
(* main is tells what is open (Started), and whoever brings the end about  *)
(* has cancelled the context (Cancelled).                                  *)
(***************************************************************************)
EXTENDS MCProcess, FiniteSetTheorems, TLAPS

(***************************************************************************)
(* Programs as paths                                                       *)
(***************************************************************************)
StepName == {"open", "close", "rlock", "runlock", "lock", "unlock"}
Holding == {"nothing", "conn", "read", "connread", "write"}

(* What a goroutine may do next, by what it holds, and what it holds then. *)
Moves ==
  {<<"nothing", "open", "conn">>, <<"conn", "close", "nothing">>,
   <<"nothing", "rlock", "read">>, <<"read", "runlock", "nothing">>,
   <<"conn", "rlock", "connread">>, <<"connread", "close", "read">>,
   <<"connread", "runlock", "conn">>,
   <<"nothing", "lock", "write">>, <<"write", "unlock", "nothing">>}

(* Program p, begun with s in hand, ends with nothing in hand: path[i] is  *)
(* what is held before its step i.                                         *)
IsPath(path, p, s) ==
  /\ path[1] = s /\ path[Len(p) + 1] = "nothing"
  /\ \A i \in 1 .. Len(p) : <<path[i], p[i], path[i + 1]>> \in Moves

Balanced(p, s) ==
  p \in Seq(StepName) /\ \E path \in [1 .. Len(p) + 1 -> Holding] : IsPath(path, p, s)

(* A program that is done leaves nothing in hand.                          *)
LEMMA BalancedEmpty == \A s \in Holding : Balanced(<<>>, s) <=> s = "nothing"
<1> TAKE s \in Holding
<1>1. ASSUME s = "nothing" PROVE Balanced(<<>>, s)
  <2>1. [i \in 1 .. 1 |-> "nothing"] \in [1 .. 1 -> Holding]
    BY DEF Holding
  <2>2. IsPath([i \in 1 .. 1 |-> "nothing"], <<>>, s)
    BY <1>1 DEF IsPath
  <2> QED
    BY <2>1, <2>2 DEF Balanced
<1> QED
  BY <1>1 DEF Balanced, IsPath

(* A step of a program takes it along its path.                            *)
LEMMA BalancedTail ==
  ASSUME NEW p, NEW s, Balanced(p, s), p # <<>>
  PROVE  \E t \in Holding : <<s, Head(p), t>> \in Moves /\ Balanced(Tail(p), t)
<1>1. PICK path \in [1 .. Len(p) + 1 -> Holding] : IsPath(path, p, s)
  BY DEF Balanced
<1>2. p \in Seq(StepName) /\ Len(p) \in Nat /\ Len(p) > 0 /\ Head(p) = p[1]
  BY DEF Balanced
<1>3. /\ Tail(p) \in Seq(StepName) /\ Len(Tail(p)) = Len(p) - 1
      /\ \A i \in 1 .. Len(p) - 1 : Tail(p)[i] = p[i + 1]
  BY <1>2
<1> DEFINE rest == [i \in 1 .. Len(Tail(p)) + 1 |-> path[i + 1]]
<1>4. rest \in [1 .. Len(Tail(p)) + 1 -> Holding]
  BY <1>1, <1>2, <1>3
<1>5. IsPath(rest, Tail(p), path[2])
  BY <1>1, <1>2, <1>3 DEF IsPath
<1>6. path[2] \in Holding /\ <<s, Head(p), path[2]>> \in Moves
  BY <1>1, <1>2 DEF IsPath
<1> QED
  BY <1>3, <1>4, <1>5, <1>6 DEF Balanced

(* Programs that begin and end with nothing in hand follow each other.     *)
LEMMA BalancedConcat ==
  ASSUME NEW p, NEW q, Balanced(p, "nothing"), Balanced(q, "nothing")
  PROVE  Balanced(p \o q, "nothing")
<1>1. PICK f \in [1 .. Len(p) + 1 -> Holding] : IsPath(f, p, "nothing")
  BY DEF Balanced
<1>2. PICK g \in [1 .. Len(q) + 1 -> Holding] : IsPath(g, q, "nothing")
  BY DEF Balanced
<1>3. p \in Seq(StepName) /\ q \in Seq(StepName) /\ Len(p) \in Nat /\ Len(q) \in Nat
  BY DEF Balanced
<1>4. /\ p \o q \in Seq(StepName) /\ Len(p \o q) = Len(p) + Len(q)
      /\ \A i \in 1 .. Len(p) : (p \o q)[i] = p[i]
      /\ \A i \in Len(p) + 1 .. Len(p) + Len(q) : (p \o q)[i] = q[i - Len(p)]
  BY <1>3
<1> DEFINE both == [i \in 1 .. Len(p \o q) + 1 |-> IF i <= Len(p) THEN f[i] ELSE g[i - Len(p)]]
<1>5. both \in [1 .. Len(p \o q) + 1 -> Holding]
  BY <1>1, <1>2, <1>3, <1>4
<1>6. ASSUME NEW i \in 1 .. Len(p \o q) PROVE <<both[i], (p \o q)[i], both[i + 1]>> \in Moves
  <2>1. CASE i <= Len(p)
    <3>1. both[i] = f[i] /\ (p \o q)[i] = p[i] /\ <<f[i], p[i], f[i + 1]>> \in Moves
      BY <1>1, <1>3, <1>4, <2>1 DEF IsPath
    <3>2. both[i + 1] = f[i + 1]
      BY <1>1, <1>2, <1>3, <1>4, <2>1 DEF IsPath
    <3> QED
      BY <3>1, <3>2
  <2>2. CASE i > Len(p)
    <3> DEFINE j == i - Len(p)
    <3>1. j \in 1 .. Len(q) /\ (p \o q)[i] = q[j] /\ both[i] = g[j]
      BY <1>3, <1>4, <2>2
    <3>2. both[i + 1] = g[j + 1]
      BY <1>3, <1>4, <2>2
    <3> HIDE DEF j, both
    <3> QED
      BY <1>2, <3>1, <3>2 DEF IsPath
  <2>3. i <= Len(p) \/ i > Len(p)
    BY <1>3, <1>4
  <2> QED
    BY <2>1, <2>2, <2>3, Zenon
<1>7. both[1] = "nothing" /\ both[Len(p \o q) + 1] = "nothing"
  BY <1>1, <1>2, <1>3, <1>4 DEF IsPath
<1>8. IsPath(both, p \o q, "nothing")
  BY <1>6, <1>7 DEF IsPath
<1> QED
  BY <1>4, <1>5, <1>8 DEF Balanced

(* The programs of database/sql and sync.RWMutex, and the two queries that *)
(* use both at once.                                                       *)
LEMMA FunctionsBalanced ==
  /\ Balanced(Query, "nothing") /\ Balanced(Read, "nothing") /\ Balanced(Write, "nothing")
  /\ Balanced(ReadRows, "nothing") /\ Balanced(ReadRowsFails, "nothing")
<1>1. /\ {Query, Read, Write, ReadRows, ReadRowsFails} \subseteq Seq(StepName)
      /\ Len(Query) = 2 /\ Len(Read) = 2 /\ Len(Write) = 2
      /\ Len(ReadRows) = 4 /\ Len(ReadRowsFails) = 4
  BY DEF Query, Read, Write, ReadRows, ReadRowsFails, StepName
<1>2. /\ IsPath(<<"nothing", "conn", "nothing">>, Query, "nothing")
      /\ IsPath(<<"nothing", "read", "nothing">>, Read, "nothing")
      /\ IsPath(<<"nothing", "write", "nothing">>, Write, "nothing")
  BY <1>1 DEF IsPath, Query, Read, Write, Moves
<1>3. \A s \in {"conn", "read", "write"} :
        <<"nothing", s, "nothing">> \in [1 .. 3 -> Holding]
  BY DEF Holding
<1>4. /\ IsPath(<<"nothing", "conn", "connread", "read", "nothing">>, ReadRows, "nothing")
      /\ IsPath(<<"nothing", "conn", "connread", "conn", "nothing">>, ReadRowsFails, "nothing")
  BY <1>1 DEF IsPath, ReadRows, ReadRowsFails, Moves
<1>5. {<<"nothing", "conn", "connread", "read", "nothing">>,
       <<"nothing", "conn", "connread", "conn", "nothing">>} \subseteq [1 .. 5 -> Holding]
  BY DEF Holding
<1> QED
  BY <1>1, <1>2, <1>3, <1>4, <1>5 DEF Balanced

(* Every handler gives back what it takes.                                 *)
LEMMA ProgramsBalanced == \A h \in Handler : Balanced(Program[h], "nothing")
<1> USE BalancedConcat, FunctionsBalanced
<1>1. Balanced(AuthUser, "nothing") /\ Balanced(EmitToRoom, "nothing")
  BY DEF AuthUser, EmitToRoom
<1>2. Balanced(EmitToServersUserIsIn, "nothing") /\ Balanced(EmitToServerMembers, "nothing")
  BY DEF EmitToServersUserIsIn, EmitToServerMembers
<1>3. Balanced(NewSession, "nothing") /\ Balanced(RemoveSession, "nothing")
  BY <1>2 DEF NewSession, RemoveSession
<1>4. Balanced(Session, "nothing") /\ Balanced(SessionEnds, "nothing")
  BY <1>1, <1>3 DEF Session, SessionEnds
<1>5. Balanced(AuthUser \o Query, "nothing")
  BY <1>1
<1>6. Balanced(UpdateUserInfo, "nothing")
  <2>1. Balanced(AuthUser \o Query \o EmitToRoom, "nothing")
    BY <1>1, <1>5
  <2> QED
    BY <1>2, <2>1 DEF UpdateUserInfo
<1>7. Balanced(UpdateServerInfo, "nothing") /\ Balanced(CreateMessage, "nothing")
  BY <1>1, <1>2, <1>5 DEF UpdateServerInfo, CreateMessage
<1>8. Balanced(DeleteServer, "nothing")
  <2>1. Balanced(AuthUser \o EmitToServerMembers, "nothing")
    BY <1>1, <1>2
  <2> QED
    BY <2>1 DEF DeleteServer
<1>9. Balanced(GetChannels, "nothing")
  BY <1>5 DEF GetChannels, SetServer
<1>10. Balanced(GetMessages, "nothing")
  <2>1. Balanced(AuthUser \o Query \o Query, "nothing")
    BY <1>5
  <2> QED
    BY <2>1 DEF GetMessages, SetChannel
<1>11. /\ Balanced(AuthUser \o ReadRows, "nothing") /\ Balanced(AuthUser \o ReadRowsFails, "nothing")
       /\ Balanced(AuthUser \o Query \o ReadRowsFails, "nothing")
  BY <1>1, <1>5
<1>12. DOMAIN Program =
         {"session", "sessionEnds", "updateUserInfo", "getFriends", "getMembers",
          "getMembersFails", "updateServerInfo", "updateServerInfoFails", "deleteServer",
          "getChannels", "getMessages", "createMessage"}
  BY DEF Program
<1>13. /\ Program["session"] = Session /\ Program["sessionEnds"] = SessionEnds
       /\ Program["updateUserInfo"] = UpdateUserInfo
       /\ Program["getFriends"] = AuthUser \o ReadRows
       /\ Program["getMembers"] = AuthUser \o ReadRows
       /\ Program["getMembersFails"] = AuthUser \o ReadRowsFails
       /\ Program["updateServerInfo"] = UpdateServerInfo
       /\ Program["updateServerInfoFails"] = AuthUser \o Query \o ReadRowsFails
       /\ Program["deleteServer"] = DeleteServer
       /\ Program["getChannels"] = GetChannels
       /\ Program["getMessages"] = GetMessages
       /\ Program["createMessage"] = CreateMessage
  BY DEF Program
<1> HIDE BalancedConcat, FunctionsBalanced
<1> QED
  BY <1>4, <1>6, <1>7, <1>8, <1>9, <1>10, <1>11, <1>12, <1>13, HandlerAssumption

(***************************************************************************)
(* The inductive invariant                                                 *)
(***************************************************************************)
(* What a goroutine holds.                                                 *)
Held(g) ==
  IF g \in writer THEN "write"
  ELSE IF g \in readers THEN (IF g \in conns THEN "connread" ELSE "read")
  ELSE IF g \in conns THEN "conn" ELSE "nothing"

Types ==
  /\ todo \in [Goroutine -> Seq(StepName)]
  /\ conns \cup readers \cup blocked \cup announced \cup writer \subseteq Goroutine

Pool == IsFiniteSet(conns) /\ Cardinality(conns) <= PoolSize

(* One goroutine at most is in Lock or past it; a writer is alone and has  *)
(* no connection.                                                          *)
Exclusion ==
  /\ \A g, h \in announced \cup writer : g = h
  /\ announced = {} \/ writer = {}
  /\ writer # {} => readers = {} /\ writer \cap conns = {}

(* Those who wait are at the step they wait in; readers only wait while    *)
(* there is a writer to unlock.                                            *)
Waiting ==
  /\ \A g \in blocked : At(g, "rlock")
  /\ \A g \in announced : At(g, "lock")
  /\ blocked # {} => announced \cup writer # {}

OnPath == \A g \in Goroutine : Balanced(todo[g], Held(g))

LockInv == Types /\ Pool /\ Exclusion /\ Waiting /\ OnPath

LEMMA HeldType == \A g : Held(g) \in Holding
BY DEF Held, Holding

(* A goroutine at a step holds what lets it take the step, and is on its   *)
(* path after it.                                                          *)
LEMMA StepAhead ==
  ASSUME LockInv, NEW g \in Goroutine, NEW step, At(g, step)
  PROVE  /\ <<Held(g), step>> \in
              {<<"nothing", "open">>, <<"conn", "close">>, <<"nothing", "rlock">>,
               <<"read", "runlock">>, <<"conn", "rlock">>, <<"connread", "close">>,
               <<"connread", "runlock">>, <<"nothing", "lock">>, <<"write", "unlock">>}
         /\ \E t \in Holding : <<Held(g), step, t>> \in Moves /\ Balanced(Tail(todo[g]), t)
<1>1. PICK t \in Holding : <<Held(g), Head(todo[g]), t>> \in Moves /\ Balanced(Tail(todo[g]), t)
  BY BalancedTail DEF LockInv, OnPath, At
<1> QED
  BY <1>1 DEF At, Moves

(* The steps of one goroutine g leave the others where they are.           *)
LEMMA PathKept ==
  ASSUME LockInv, NEW g \in Goroutine, NEW p, todo' = [todo EXCEPT ![g] = p],
         Balanced(p, Held(g)'), \A h \in Goroutine \ {g} : Held(h)' = Held(h)
  PROVE  OnPath' /\ todo' \in [Goroutine -> Seq(StepName)]
         /\ \A h \in Goroutine \ {g} : \A step : At(h, step) => At(h, step)'
<1>1. todo \in [Goroutine -> Seq(StepName)] /\ p \in Seq(StepName)
  BY DEF LockInv, Types, Balanced
<1>2. todo'[g] = p /\ \A h \in Goroutine \ {g} : todo'[h] = todo[h]
  BY <1>1
<1>3. OnPath'
  BY <1>2 DEF LockInv, OnPath
<1> QED
  BY <1>1, <1>2, <1>3 DEF At

(***************************************************************************)
(* Every action keeps the invariant                                        *)
(***************************************************************************)
LEMMA LockInit == ASSUME Init PROVE LockInv
<1>1. Pool
  BY FS_EmptySet, PoolAssumption DEF Init, Pool
<1>2. OnPath
  BY BalancedEmpty DEF Init, OnPath, Held, Holding
<1> QED
  BY <1>1, <1>2 DEF Init, LockInv, Types, Exclusion, Waiting

LEMMA ServeKeeps ==
  ASSUME LockInv, NEW g \in Goroutine, NEW h \in Handler, Serve(g, h)
  PROVE  LockInv'
<1>1. Held(g) = "nothing"
  BY HeldType, BalancedEmpty DEF Serve, LockInv, OnPath
<1>2. Balanced(Program[h], Held(g)') /\ \A k \in Goroutine : Held(k)' = Held(k)
  BY <1>1, ProgramsBalanced DEF Serve, Held
<1>3. g \notin blocked \cup announced
  BY DEF Serve, LockInv, Waiting, At
<1> QED
  BY <1>2, <1>3, PathKept DEF Serve, LockInv, Types, Pool, Exclusion, Waiting

LEMMA ReturnKeeps ==
  ASSUME LockInv, NEW g \in Goroutine, Return(g)
  PROVE  LockInv'
<1>1. Balanced(<<>>, Held(g)') /\ \A k \in Goroutine : Held(k)' = Held(k)
  BY BalancedEmpty DEF Return, HoldsNothing, Held, Holding
<1> QED
  BY <1>1, PathKept DEF Return, LockInv, Types, Pool, Exclusion, Waiting

LEMMA OpenKeeps ==
  ASSUME LockInv, NEW g \in Goroutine, Open(g)
  PROVE  LockInv'
<1>1. Held(g) = "nothing" /\ Balanced(Tail(todo[g]), "conn")
  BY StepAhead DEF Open, Moves
<1>2. g \notin writer \cup readers \cup conns
  BY <1>1 DEF Held
<1>3. Held(g)' = "conn" /\ \A k \in Goroutine \ {g} : Held(k)' = Held(k)
  BY <1>2 DEF Open, Held
<1>4. Pool'
  <2>1. IsFiniteSet(conns) /\ Cardinality(conns) \in Nat /\ Cardinality(conns) < PoolSize
    BY FS_CardinalityType DEF Open, LockInv, Pool
  <2>2. IsFiniteSet(conns') /\ Cardinality(conns') = Cardinality(conns) + 1
    BY <1>2, <2>1, FS_AddElement DEF Open
  <2> QED
    BY <2>1, <2>2, PoolAssumption DEF Pool
<1>5. g \notin blocked \cup announced
  BY DEF Open, At, LockInv, Waiting
<1> QED
  BY <1>1, <1>2, <1>3, <1>4, <1>5, PathKept
  DEF Open, Advance, LockInv, Types, Exclusion, Waiting

LEMMA CloseKeeps ==
  ASSUME LockInv, NEW g \in Goroutine, Close(g)
  PROVE  LockInv'
<1>1. PICK t \in Holding : <<Held(g), "close", t>> \in Moves /\ Balanced(Tail(todo[g]), t)
  BY StepAhead DEF Close
<1>2. Held(g) \in {"conn", "connread"} /\ g \notin writer
  BY <1>1 DEF Moves, Held
<1>3. Held(g)' = t /\ \A k \in Goroutine \ {g} : Held(k)' = Held(k)
  BY <1>1, <1>2 DEF Close, Held, Moves
<1>4. Pool'
  <2>1. IsFiniteSet(conns) /\ Cardinality(conns) \in Nat /\ Cardinality(conns) <= PoolSize
    BY FS_CardinalityType DEF LockInv, Pool
  <2>2. IsFiniteSet(conns') /\ Cardinality(conns') \in Nat
        /\ Cardinality(conns') <= Cardinality(conns)
    BY <2>1, FS_Subset, FS_CardinalityType DEF Close
  <2> QED
    BY <2>1, <2>2, PoolAssumption DEF Pool
<1>5. g \notin blocked \cup announced
  BY DEF Close, At, LockInv, Waiting
<1> QED
  BY <1>1, <1>2, <1>3, <1>4, <1>5, PathKept
  DEF Close, Advance, LockInv, Types, Exclusion, Waiting

LEMMA RLockKeeps ==
  ASSUME LockInv, NEW g \in Goroutine, RLock(g)
  PROVE  LockInv'
<1>1. PICK t \in Holding : <<Held(g), "rlock", t>> \in Moves /\ Balanced(Tail(todo[g]), t)
  BY StepAhead DEF RLock
<1>2. Held(g)' = t /\ \A k \in Goroutine \ {g} : Held(k)' = Held(k)
  BY <1>1 DEF RLock, Held, Moves
<1> QED
  BY <1>1, <1>2, PathKept DEF RLock, Advance, LockInv, Types, Pool, Exclusion, Waiting

LEMMA RLockWaitsKeeps ==
  ASSUME LockInv, NEW g \in Goroutine, RLockWaits(g)
  PROVE  LockInv'
BY DEF RLockWaits, LockInv, Types, Pool, Exclusion, Waiting, OnPath, Held, At

LEMMA RUnlockKeeps ==
  ASSUME LockInv, NEW g \in Goroutine, RUnlock(g)
  PROVE  LockInv'
<1>1. PICK t \in Holding : <<Held(g), "runlock", t>> \in Moves /\ Balanced(Tail(todo[g]), t)
  BY StepAhead DEF RUnlock
<1>2. Held(g) \in {"read", "connread"} /\ g \notin writer
  BY <1>1 DEF Moves, Held
<1>3. Held(g)' = t /\ \A k \in Goroutine \ {g} : Held(k)' = Held(k)
  BY <1>1, <1>2 DEF RUnlock, Held, Moves
<1>4. g \notin blocked \cup announced
  BY DEF RUnlock, At, LockInv, Waiting
<1> QED
  BY <1>1, <1>3, <1>4, PathKept DEF RUnlock, Advance, LockInv, Types, Pool, Exclusion, Waiting

LEMMA LockAnnouncesKeeps ==
  ASSUME LockInv, NEW g \in Goroutine, LockAnnounces(g)
  PROVE  LockInv'
BY DEF LockAnnounces, LockInv, Types, Pool, Exclusion, Waiting, OnPath, Held, At

LEMMA LockKeeps ==
  ASSUME LockInv, NEW g \in Goroutine, Lock(g)
  PROVE  LockInv'
<1>1. At(g, "lock") /\ announced = {g} /\ writer = {}
  BY DEF Lock, LockInv, Waiting, Exclusion
<1>2. Held(g) = "nothing" /\ Balanced(Tail(todo[g]), "write")
  BY <1>1, StepAhead DEF Moves
<1>3. g \notin conns
  BY <1>1, <1>2 DEF Lock, Held
<1>4. Held(g)' = "write" /\ \A k \in Goroutine \ {g} : Held(k)' = Held(k)
  BY <1>1 DEF Lock, Held
<1>5. g \notin blocked
  BY <1>1 DEF At, LockInv, Waiting
<1>6. Types' /\ OnPath' /\ \A h \in Goroutine \ {g} : \A step : At(h, step) => At(h, step)'
  BY <1>1, <1>2, <1>4, PathKept DEF Lock, Advance, LockInv, Types
<1>7. Waiting'
  BY <1>1, <1>5, <1>6 DEF Lock, LockInv, Types, Waiting
<1> QED
  BY <1>1, <1>3, <1>6, <1>7 DEF Lock, LockInv, Pool, Exclusion

(* The readers that waited are let in together.                            *)
LEMMA UnlockKeeps ==
  ASSUME LockInv, NEW g \in Goroutine, Unlock(g)
  PROVE  LockInv'
<1>1. Held(g) = "write" /\ Balanced(Tail(todo[g]), "nothing")
  BY StepAhead DEF Unlock, Moves
<1>2. writer = {g} /\ readers = {} /\ announced = {} /\ g \notin conns /\ g \notin blocked
  <2>1. g \in writer
    BY <1>1 DEF Held
  <2> QED
    BY <2>1 DEF LockInv, Exclusion, Waiting, Unlock, At
<1>3. \A h \in Goroutine :
        todo'[h] = IF h \in blocked \cup {g} THEN Tail(todo[h]) ELSE todo[h]
  BY DEF Unlock
<1>4. OnPath'
  <2> SUFFICES ASSUME NEW h \in Goroutine PROVE Balanced(todo'[h], Held(h)')
    BY DEF OnPath
  <2>1. CASE h = g
    BY <1>1, <1>2, <1>3, <2>1 DEF Unlock, Held
  <2>2. CASE h \in blocked
    <3>1. PICK t \in Holding : <<Held(h), "rlock", t>> \in Moves /\ Balanced(Tail(todo[h]), t)
      BY <2>2, StepAhead DEF LockInv, Waiting
    <3>2. Held(h)' = t
      BY <1>2, <2>2, <3>1 DEF Unlock, Held, Moves
    <3> QED
      BY <1>3, <2>2, <3>1, <3>2
  <2>3. CASE h \notin blocked \cup {g}
    <3>1. Held(h)' = Held(h)
      BY <1>2, <2>3 DEF Unlock, Held
    <3> QED
      BY <1>3, <2>3, <3>1 DEF LockInv, OnPath
  <2> QED
    BY <2>1, <2>2, <2>3
<1>5. todo' \in [Goroutine -> Seq(StepName)]
  BY <1>3, <1>4 DEF Unlock, OnPath, Balanced
<1> QED
  BY <1>2, <1>4, <1>5 DEF Unlock, LockInv, Types, Pool, Exclusion, Waiting

(* The invariant that the theorems about the locks rest on.               *)
THEOREM LockInvariance == Spec => []LockInv
<1>1. ASSUME LockInv, [Next]_vars PROVE LockInv'
  <2>1. CASE UNCHANGED vars
    BY <1>1, <2>1 DEF vars, LockInv, Types, Pool, Exclusion, Waiting, OnPath, Held, At
  <2>2. CASE Next
    BY <1>1, <2>2, ServeKeeps, ReturnKeeps, OpenKeeps, CloseKeeps, RLockKeeps, RLockWaitsKeeps,
       RUnlockKeeps, LockAnnouncesKeeps, LockKeeps, UnlockKeeps DEF Next
  <2> QED
    BY <1>1, <2>1, <2>2
<1> QED
  BY <1>1, LockInit, PTL DEF Spec

(***************************************************************************)
(* What follows from it                                                    *)
(***************************************************************************)
(* Neither a query made with sm.mutex in hand nor a second Lock or RLock:  *)
(* the calls "specially after mutex is unlocked" of SessionManager.        *)
THEOREM MutexHolderNeverWaitsHolds == Spec => []MutexHolderNeverWaits
<1>1. LockInv => MutexHolderNeverWaits
  BY StepAhead DEF MutexHolderNeverWaits, Held, LockInv, Types
<1> QED
  BY <1>1, LockInvariance, PTL

(* The pool never gives out more than there is, nobody asks for a second   *)
(* connection, and pool and mutex are held by goroutines that release them.*)
THEOREM PoolRespectedHolds == Spec => []PoolRespected
<1>1. ASSUME LockInv PROVE OneConnectionEach
  BY <1>1, StepAhead DEF OneConnectionEach, Held, LockInv, Types
<1>2. ASSUME LockInv PROVE Cardinality(announced \cup writer) <= 1
  <2>1. CASE announced \cup writer = {}
    BY <2>1, FS_EmptySet
  <2>2. CASE announced \cup writer # {}
    <3>1. PICK g : g \in announced \cup writer
      BY <2>2
    <3>2. announced \cup writer = {g}
      BY <1>2, <3>1 DEF LockInv, Exclusion
    <3> QED
      BY <3>2, FS_Singleton
  <2> QED
    BY <2>1, <2>2
<1>3. ASSUME LockInv PROVE TypeOK
  BY <1>2, <1>3 DEF LockInv, Types, Pool, Exclusion, Waiting, TypeOK, StepName
<1> QED
  BY <1>1, <1>3, LockInvariance, PTL DEF PoolRespected

(* The guards of the actions of LockOrder that serve goroutine g.          *)
CanGoOn(g) ==
  \/ At(g, "open") /\ Cardinality(conns) < PoolSize
  \/ At(g, "close") \/ At(g, "runlock") \/ At(g, "unlock")
  \/ At(g, "rlock") /\ announced \cup writer = {} /\ g \notin blocked
  \/ At(g, "lock") /\ announced \cup writer = {}
  \/ g \in announced /\ readers = {}

NoCircularWait ==
  (\E g \in Goroutine : todo[g] # <<>>) => \E g \in Goroutine : CanGoOn(g)

(* As long as some request is not answered, some goroutine can take its    *)
(* next step: no wait of a handler for a connection or for sm.mutex is     *)
(* circular, however small the pool.                                       *)
THEOREM NoCircularWaitHolds == Spec => []NoCircularWait
<1>1. ASSUME LockInv, NEW g \in Goroutine, todo[g] # <<>> PROVE \E h \in Goroutine : CanGoOn(h)
  <2>1. ASSUME NEW h \in Goroutine, Held(h) # "nothing"
        PROVE  \/ At(h, "close") \/ At(h, "runlock") \/ At(h, "unlock")
               \/ At(h, "rlock") /\ Held(h) = "conn"
    <3>1. todo[h] # <<>>
      BY <1>1, <2>1, HeldType, BalancedEmpty DEF LockInv, OnPath
    <3>2. At(h, Head(todo[h]))
      BY <3>1 DEF At
    <3> QED
      BY <1>1, <2>1, <3>2, StepAhead
  <2>2. CASE readers \cup writer # {}
    <3>1. PICK h \in Goroutine : h \in readers \cup writer
      BY <1>1, <2>2 DEF LockInv, Types
    <3>2. Held(h) \notin {"nothing", "conn"}
      BY <3>1 DEF Held
    <3> QED
      BY <2>1, <3>2 DEF CanGoOn
  <2>3. CASE readers \cup writer = {} /\ announced # {}
    BY <1>1, <2>3 DEF LockInv, Types, CanGoOn
  <2>4. CASE readers \cup writer \cup announced = {} /\ conns # {}
    <3>1. PICK h \in Goroutine : h \in conns
      BY <1>1, <2>4 DEF LockInv, Types
    <3>2. Held(h) = "conn" /\ h \notin blocked
      BY <1>1, <2>4, <3>1 DEF Held, LockInv, Waiting
    <3> QED
      BY <2>1, <2>4, <3>2 DEF CanGoOn
  <2>5. CASE readers \cup writer \cup announced \cup conns = {}
    <3>1. At(g, Head(todo[g])) /\ Held(g) = "nothing" /\ g \notin blocked
      BY <1>1, <2>5 DEF At, Held, LockInv, Waiting
    <3>2. Head(todo[g]) \in {"open", "rlock", "lock"}
      BY <1>1, <3>1, StepAhead
    <3>3. Cardinality(conns) < PoolSize
      BY <2>5, FS_EmptySet, PoolAssumption
    <3> QED
      BY <2>5, <3>1, <3>2, <3>3 DEF CanGoOn
  <2> QED
    BY <2>2, <2>3, <2>4, <2>5
<1>2. LockInv => NoCircularWait
  BY <1>1 DEF NoCircularWait
<1> QED
  BY <1>2, LockInvariance, PTL

(* Whoever holds sm.mutex gives it back in the next step it takes, or in   *)
(* the one after, and the step in between is to close its rows.            *)
MutexHeldBriefly ==
  /\ \A g \in writer : At(g, "unlock")
  /\ \A g \in readers :
       \/ At(g, "runlock")
       \/ At(g, "close") /\ Tail(todo[g]) # <<>> /\ Head(Tail(todo[g])) = "runlock"

THEOREM MutexHeldBrieflyHolds == Spec => []MutexHeldBriefly
<1>1. ASSUME LockInv, NEW g \in Goroutine, Held(g) # "nothing"
      PROVE  At(g, Head(todo[g]))
  BY <1>1, HeldType, BalancedEmpty DEF LockInv, OnPath, At
<1>2. ASSUME LockInv, NEW g \in writer PROVE At(g, "unlock")
  <2>1. g \in Goroutine /\ Held(g) = "write"
    BY <1>2 DEF LockInv, Types, Held
  <2> QED
    BY <1>1, <1>2, <2>1, StepAhead
<1>3. ASSUME LockInv, NEW g \in readers
      PROVE  \/ At(g, "runlock")
             \/ At(g, "close") /\ Tail(todo[g]) # <<>> /\ Head(Tail(todo[g])) = "runlock"
  <2>1. g \in Goroutine /\ Held(g) \in {"read", "connread"}
    BY <1>3 DEF LockInv, Types, Exclusion, Held
  <2>2. PICK t \in Holding :
          /\ <<Held(g), Head(todo[g]), t>> \in Moves /\ Balanced(Tail(todo[g]), t)
    BY <1>1, <1>3, <2>1, StepAhead
  <2>3. At(g, "runlock") \/ (At(g, "close") /\ t = "read")
    BY <1>1, <1>3, <2>1, <2>2 DEF Moves
  <2>4. ASSUME t = "read" PROVE Tail(todo[g]) # <<>> /\ Head(Tail(todo[g])) = "runlock"
    <3>1. Tail(todo[g]) # <<>>
      BY <2>2, <2>4, BalancedEmpty
    <3>2. PICK u \in Holding : <<"read", Head(Tail(todo[g])), u>> \in Moves
      BY <2>2, <2>4, <3>1, BalancedTail
    <3> QED
      BY <3>1, <3>2 DEF Moves
  <2> QED
    BY <2>3, <2>4
<1>4. LockInv => MutexHeldBriefly
  BY <1>2, <1>3 DEF MutexHeldBriefly
<1> QED
  BY <1>4, LockInvariance, PTL

(***************************************************************************)
(* Requests get shorter                                                    *)
(***************************************************************************)
(* How many steps of goroutine g are left at most: two for each wait or    *)
(* release, and one less when the wait has been entered.                   *)
Left(g) == 2 * Len(todo[g]) - (IF g \in blocked \cup announced THEN 1 ELSE 0)

(* Somebody has less left, and nobody more.                                *)
Shortens ==
  /\ \E g \in Goroutine : Left(g)' < Left(g)
  /\ \A g \in Goroutine : Left(g)' <= Left(g)

(* A step of a program that is taken is gone.                              *)
LEMMA TailShorter ==
  ASSUME NEW p \in Seq(StepName), p # <<>>
  PROVE  Len(p) \in Nat /\ Len(Tail(p)) \in Nat /\ Len(Tail(p)) = Len(p) - 1
OBVIOUS

(* Two for each step, or one less.                                         *)
LEMMA LeftBounds ==
  ASSUME NEW g
  PROVE  /\ Left(g) = IF g \in blocked \cup announced THEN 2 * Len(todo[g]) - 1
                                                     ELSE 2 * Len(todo[g]) - 0
         /\ Left(g)' = IF g \in blocked' \cup announced' THEN 2 * Len(todo'[g]) - 1
                                                        ELSE 2 * Len(todo'[g]) - 0
BY DEF Left

(* A step that leaves every other goroutine's program alone and takes a    *)
(* step off g's, which was waiting at most.                                *)
LEMMA ShorterByOne ==
  ASSUME LockInv, LockInv', NEW g \in Goroutine, todo[g] # <<>>,
         todo' = [todo EXCEPT ![g] = Tail(@)],
         \A h \in Goroutine \ {g} : h \in blocked \cup announced => h \in blocked' \cup announced'
  PROVE  Shortens
<1>1. /\ todo[g] \in Seq(StepName) /\ todo'[g] = Tail(todo[g])
      /\ \A h \in Goroutine \ {g} : todo'[h] = todo[h] /\ Len(todo[h]) \in Nat
  BY DEF LockInv, Types
<1>2. Len(todo'[g]) = Len(todo[g]) - 1 /\ Len(todo[g]) \in Nat
  BY <1>1, TailShorter
<1>3. Left(g)' < Left(g)
  BY <1>2, LeftBounds
<1>4. \A h \in Goroutine \ {g} : Left(h)' <= Left(h)
  BY <1>1, LeftBounds
<1>5. Left(g)' <= Left(g)
  BY <1>2, LeftBounds
<1> QED
  BY <1>3, <1>4, <1>5 DEF Shortens

(* A goroutine begins to wait.                                             *)
LEMMA WaitShortens ==
  ASSUME LockInv, NEW g \in Goroutine, g \notin blocked \cup announced, UNCHANGED todo,
         blocked' \cup announced' = blocked \cup announced \cup {g}
  PROVE  Shortens
<1>1. \A h \in Goroutine : Len(todo[h]) \in Nat
  BY DEF LockInv, Types
<1> QED
  BY <1>1, LeftBounds DEF Shortens

(* The rest of a request is skipped.                                       *)
LEMMA ReturnShortens ==
  ASSUME LockInv, NEW g \in Goroutine, Return(g)
  PROVE  Shortens
<1>1. /\ Len(todo[g]) \in Nat /\ Len(todo[g]) > 0 /\ todo'[g] = <<>>
      /\ \A h \in Goroutine \ {g} : todo'[h] = todo[h] /\ Len(todo[h]) \in Nat
  BY DEF Return, LockInv, Types
<1> QED
  BY <1>1, LeftBounds DEF Return, Shortens

(* The readers that waited all take their step at once.                    *)
LEMMA UnlockShortens ==
  ASSUME LockInv, NEW g \in Goroutine, Unlock(g)
  PROVE  Shortens
<1>1. announced = {} /\ announced' = {} /\ blocked' = {} /\ g \notin blocked
  <2>1. Held(g) = "write"
    BY StepAhead DEF Unlock
  <2> QED
    BY <2>1 DEF Unlock, Held, LockInv, Exclusion, Waiting, At
<1>2. \A h \in blocked \cup {g} :
        /\ h \in Goroutine /\ todo[h] \in Seq(StepName) /\ todo[h] # <<>>
        /\ todo'[h] = Tail(todo[h])
  BY DEF Unlock, At, LockInv, Types, Waiting
<1>3. \A h \in Goroutine \ (blocked \cup {g}) : todo'[h] = todo[h] /\ Len(todo[h]) \in Nat
  BY DEF Unlock, LockInv, Types
<1>4. \A h \in blocked \cup {g} : Len(todo[h]) \in Nat /\ Len(todo'[h]) = Len(todo[h]) - 1
  BY <1>2, TailShorter
<1>5. \A h \in Goroutine : Left(h)' <= Left(h)
  BY <1>1, <1>3, <1>4, LeftBounds
<1>6. Left(g)' < Left(g)
  BY <1>1, <1>4, LeftBounds
<1> QED
  BY <1>5, <1>6 DEF Shortens

(* Whatever a goroutine does, other than to take a new request, shortens   *)
(* what is left of a request, and no step makes another request longer.    *)
(* With NoCircularWait: while nothing new comes in, the requests that are  *)
(* under way end after as many steps as they have left, at most.           *)
THEOREM RequestsShorten ==
  Spec => [][(\E g \in Goroutine, h \in Handler : Serve(g, h)) \/ Shortens]_vars
<1>1. ASSUME LockInv, LockInv', Next
      PROVE  (\E g \in Goroutine, h \in Handler : Serve(g, h)) \/ Shortens
  <2>1. PICK g \in Goroutine :
          \/ \E h \in Handler : Serve(g, h)
          \/ Return(g)
          \/ Open(g) \/ Close(g)
          \/ RLock(g) \/ RLockWaits(g) \/ RUnlock(g)
          \/ LockAnnounces(g) \/ Lock(g) \/ Unlock(g)
    BY <1>1 DEF Next
  <2>2. CASE Open(g) \/ Close(g) \/ RLock(g) \/ RUnlock(g)
    BY <1>1, <2>2, ShorterByOne DEF Open, Close, RLock, RUnlock, Advance, At
  <2>3. CASE Lock(g)
    <3>1. announced = {g} /\ todo[g] # <<>>
      BY <1>1, <2>3 DEF Lock, LockInv, Waiting, Exclusion, At
    <3> QED
      BY <1>1, <2>3, <3>1, ShorterByOne DEF Lock, Advance
  <2>4. CASE RLockWaits(g)
    <3>1. g \notin announced
      BY <1>1, <2>4 DEF RLockWaits, LockInv, Waiting, At
    <3> QED
      BY <1>1, <2>4, <3>1, WaitShortens DEF RLockWaits
  <2>5. CASE LockAnnounces(g)
    <3>1. g \notin blocked /\ announced = {}
      BY <1>1, <2>5 DEF LockAnnounces, LockInv, Waiting, At
    <3> QED
      BY <1>1, <2>5, <3>1, WaitShortens DEF LockAnnounces
  <2> QED
    BY <1>1, <2>1, <2>2, <2>3, <2>4, <2>5, ReturnShortens, UnlockShortens
<1> QED
  BY <1>1, LockInvariance, PTL DEF Spec

(***************************************************************************)
(* Lifecycle: how the process starts and ends                              *)
(***************************************************************************)
(* What main has done so far.                                              *)
Started ==
  /\ main = "init" => db = "none" /\ listener = "none" /\ cleaner = "none"
  /\ main = "setup" => db = "open" /\ listener = "none"
  /\ main = "waits" => db = "open"

(* Nobody is served before there is a listener.                            *)
NotServedYet ==
  listener = "none" => \A r \in Request : handlers[r] = "idle"

(* Whoever brings the process to its end has cancelled the context.        *)
Cancelled ==
  /\ receiver = "done" \/ listener = "failed" \/ cleaner = "counts" => cancelled
  /\ main \in {"closed", "exited"} => cancelled

LifeInv == Process!TypeOK /\ Started /\ NotServedYet /\ Cancelled

(* The start, and each kind of step.                                       *)
LEMMA LifeInit == ASSUME Process!Init PROVE LifeInv
BY DEF Process!Init, LifeInv, Process!TypeOK, Started, NotServedYet, Cancelled

(* The steps of main.                                                      *)
LEMMA MainKeeps ==
  ASSUME LifeInv,
         \/ Process!InitDatabase \/ Process!StartFails \/ Process!Setup
         \/ Process!Shutdown \/ Process!Return
  PROVE  LifeInv'
BY DEF Process!InitDatabase, Process!StartFails, Process!Setup, Process!Shutdown, Process!Return,
       Process!Crash, LifeInv, Process!TypeOK, Started, NotServedYet, Cancelled

(* The goroutines that main starts.                                        *)
LEMMA GoroutinesKeep ==
  ASSUME LifeInv,
         \/ Process!Listen \/ Process!ListenFails \/ Process!Signal \/ Process!Receive
         \/ Process!Clean \/ Process!Expire
  PROVE  LifeInv'
<1>1. CASE Process!Listen \/ Process!ListenFails \/ Process!Signal \/ Process!Receive
           \/ Process!Expire
  BY <1>1 DEF Process!Listen, Process!ListenFails, Process!Signal, Process!Receive, Process!Expire,
              Process!Ended, LifeInv, Process!TypeOK, Started, NotServedYet, Cancelled
<1>2. CASE Process!Clean
  BY <1>2 DEF Process!Clean, Process!Wake, Process!Delete, Process!DeleteFails, Process!Count,
              Process!Vacuum, Process!Crash, Process!Ended,
              LifeInv, Process!TypeOK, Started, NotServedYet, Cancelled
<1> QED
  BY <1>1, <1>2

(* Handlers: a first one needs a listener.                                 *)
LEMMA HandlersKeep ==
  ASSUME LifeInv, NEW r \in Request, NEW from, NEW to,
         from = "idle" => listener = "listens",
         to \in {"idle", "runs", "reads", "writes"},
         Process!HandlerGoes(r, from, to)
  PROVE  LifeInv'
BY DEF Process!HandlerGoes, LifeInv, Process!TypeOK, Started, NotServedYet, Cancelled

LEMMA RequestsKeep ==
  ASSUME LifeInv, NEW r \in Request,
         \/ Process!Serve(r) \/ Process!Answer(r) \/ Process!Panic(r)
         \/ Process!ReadSessions(r) \/ Process!WriteSessions(r) \/ Process!Access(r)
  PROVE  LifeInv'
BY HandlersKeep
DEF Process!Serve, Process!Answer, Process!Panic, Process!ReadSessions, Process!WriteSessions,
    Process!Access

LEMMA RaceKeeps == ASSUME LifeInv, Process!Race PROVE LifeInv'
BY DEF Process!Race, Process!Crash, LifeInv, Process!TypeOK, Started, NotServedYet, Cancelled

(* The invariant that the theorems about the process's life rest on.       *)
THEOREM LifeInvariance == Process!Spec => []LifeInv
<1>1. ASSUME LifeInv, [Process!Next]_(Process!vars) PROVE LifeInv'
  <2>1. CASE UNCHANGED Process!vars
    BY <1>1, <2>1
    DEF Process!vars, LifeInv, Process!TypeOK, Started, NotServedYet, Cancelled
  <2>2. CASE Process!Next
    BY <1>1, <2>2, MainKeeps, GoroutinesKeep, RequestsKeep, RaceKeeps DEF Process!Next
  <2> QED
    BY <1>1, <2>1, <2>2
<1> QED
  BY <1>1, LifeInit, PTL DEF Process!Spec

(* main opens the database before it lets anybody be served, and closes it *)
(* on its way out only, whatever signals, failing listeners and the cleaner*)
(* do meanwhile.                                                           *)
THEOREM RunsWithDatabaseHolds == Process!Spec => []RunsWithDatabase
<1>1. LifeInv => RunsWithDatabase
  BY DEF LifeInv, Started, NotServedYet, Process!TypeOK, RunsWithDatabase,
         Process!ServedWithDatabase, Process!Ended
<1> QED
  BY <1>1, LifeInvariance, PTL

(* As long as the process has not ended, a signal that came and a shutdown *)
(* that was asked for are remembered by somebody who can go on: main, or   *)
(* the goroutine that still waits for the signal.                          *)
StopNotForgotten ==
  ~Process!Ended /\ (signalled \/ cancelled) =>
    \/ main \in {"init", "setup", "closed"}
    \/ main = "waits" /\ cancelled
    \/ signalled /\ receiver = "waits"

THEOREM StopNotForgottenHolds == Process!Spec => []StopNotForgotten
<1>1. LifeInv => StopNotForgotten
  BY DEF LifeInv, Cancelled, Process!TypeOK, StopNotForgotten, Process!Ended
<1> QED
  BY <1>1, LifeInvariance, PTL

(* How far main is.                                                        *)
Progress ==
  IF main = "init" THEN 0 ELSE IF main = "setup" THEN 1
  ELSE IF main = "waits" THEN 2 ELSE IF main = "closed" THEN 3 ELSE 4

(* Nothing is taken back: main only goes on, a context that is cancelled   *)
(* remains so, the signal is received once, and a process that has ended   *)
(* has.  With StopNotForgotten this is what a shutdown rests on, whoever   *)
(* asks for it and however early; that it takes place is up to the         *)
(* scheduler.                                                              *)
THEOREM NoWayBack ==
  Process!Spec =>
    [][/\ Progress' >= Progress
       /\ cancelled => cancelled'
       /\ receiver = "done" => receiver' = "done"
       /\ Process!Ended => main' = main]_(Process!vars)
<1>1. ASSUME LifeInv, Process!Next
      PROVE  /\ Progress' >= Progress
             /\ cancelled => cancelled'
             /\ receiver = "done" => receiver' = "done"
             /\ Process!Ended => main' = main
  <2>1. CASE \/ Process!InitDatabase \/ Process!StartFails \/ Process!Setup
             \/ Process!Shutdown \/ Process!Return
    BY <1>1, <2>1
    DEF Process!InitDatabase, Process!StartFails, Process!Setup, Process!Shutdown,
        Process!Return, Process!Crash, Process!Ended, Progress
  <2>2. CASE \/ Process!Listen \/ Process!ListenFails \/ Process!Signal \/ Process!Receive
             \/ Process!Expire
    BY <1>1, <2>2
    DEF Process!Listen, Process!ListenFails, Process!Signal, Process!Receive, Process!Expire,
        Progress
  <2>3. CASE Process!Clean
    BY <1>1, <2>3
    DEF Process!Clean, Process!Wake, Process!Delete, Process!DeleteFails, Process!Count,
        Process!Vacuum, Process!Crash, Process!Ended, Progress
  <2>4. CASE Process!Race
    BY <1>1, <2>4 DEF Process!Race, Process!Crash, Process!Ended, Progress
  <2>5. ASSUME NEW r \in Request,
               \/ Process!Serve(r) \/ Process!Answer(r) \/ Process!Panic(r)
               \/ Process!ReadSessions(r) \/ Process!WriteSessions(r) \/ Process!Access(r)
        PROVE  UNCHANGED <<main, cancelled, receiver>>
    BY <2>5 DEF Process!Serve, Process!Answer, Process!Panic, Process!ReadSessions,
                Process!WriteSessions, Process!Access, Process!HandlerGoes
  <2>6. CASE UNCHANGED <<main, cancelled, receiver>>
    BY <2>6 DEF Progress
  <2> QED
    BY <1>1, <2>1, <2>2, <2>3, <2>4, <2>5, <2>6 DEF Process!Next
<1> QED
  BY <1>1, LifeInvariance, PTL DEF Process!Spec
=============================================================================
