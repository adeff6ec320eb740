----------------------------- MODULE LockOrder -----------------------------
(***************************************************************************)
(* What requests wait for: database connections and sm.mutex.              *)
(*                                                                         *)
(* The pool gives out at most PoolSize connections (1 with SQLite, 10 with *)
(* MySQL) and a goroutine that asks for one waits without a timeout.       *)
(* Three queries take sm.mutex for reading while their rows, and with them *)
(* a connection, are open; the announcements of the session manager query  *)
(* the database, and NewSession and RemoveSession make theirs "specially   *)
(* after mutex is unlocked".                                               *)
(*                                                                         *)
(* A program is the sequence of waits and releases of one function; what   *)
(* the function does besides is left out.  A handler's program is put      *)
(* together from those of the functions it calls, in the order it calls    *)
(* them.  Queries that follow each other without a lock in between, or in  *)
(* one transaction, count as one.                                          *)
(***************************************************************************)
EXTENDS Naturals, Sequences, FiniteSets

CONSTANTS
  Goroutine,   \* goroutines serving requests
  Handler,     \* the handlers they serve, from DOMAIN Program
  PoolSize     \* SetMaxOpenConns

ASSUME PoolAssumption == PoolSize \in Nat \ {0}

(***************************************************************************)
(* Programs                                                                *)
(***************************************************************************)
Query == <<"open", "close">>
Read == <<"rlock", "runlock">>
Write == <<"lock", "unlock">>

(* getFriends, getMembers and getMemberIds read onlineUsers while they scan*)
(* their rows; the last row closes them, before the deferred RUnlock.      *)
ReadRows == <<"open", "rlock", "close", "runlock">>

(* A row that does not scan: RUnlock is deferred last and runs first.      *)
ReadRowsFails == <<"open", "rlock", "runlock", "close">>

EmitToRoom == Read
EmitToServersUserIsIn == Query \o Read

EmitToServerMembers == ReadRows \o Read

(* Mutant: the change is announced before the mutex is unlocked.           *)
NewSessionUnderLock == <<"lock">> \o EmitToServersUserIsIn \o <<"unlock">>

(* The first session of a user; another one stops after Write, as a        *)
(* failing step would.                                                     *)
NewSession == Write \o EmitToServersUserIsIn
RemoveSession == Write \o EmitToServersUserIsIn
SetServer == Write
SetChannel == Write

(* Every request passes AuthUser, which queries the database, first.       *)
AuthUser == Query

(* The handler session serves the client between NewSession and            *)
(* RemoveSession, waiting for neither: its two ends are served apart.      *)
Session == AuthUser \o NewSession
SessionEnds == RemoveSession

UpdateUserInfo == AuthUser \o Query \o EmitToRoom \o EmitToServersUserIsIn
UpdateServerInfo == AuthUser \o Query \o EmitToServerMembers
DeleteServer == AuthUser \o EmitToServerMembers \o Query
GetChannels == AuthUser \o Query \o SetServer
CreateMessage == AuthUser \o Query \o EmitToRoom

(* Mutant: the attachments are queried on the pool with the rows still open*)
GetMessagesNested == AuthUser \o <<"open", "open", "close", "close">> \o SetChannel

(* The rows of the messages are closed before the transaction that reads   *)
(* the attachments begins.                                                 *)
GetMessages == AuthUser \o Query \o Query \o SetChannel

Program ==
  [session |-> Session,
   sessionEnds |-> SessionEnds,
   updateUserInfo |-> UpdateUserInfo,
   getFriends |-> AuthUser \o ReadRows,
   getMembers |-> AuthUser \o ReadRows,
   getMembersFails |-> AuthUser \o ReadRowsFails,
   updateServerInfo |-> UpdateServerInfo,
   updateServerInfoFails |-> AuthUser \o Query \o ReadRowsFails,
   deleteServer |-> DeleteServer,
   getChannels |-> GetChannels,
   getMessages |-> GetMessages,
   createMessage |-> CreateMessage]

ASSUME HandlerAssumption == Handler \subseteq DOMAIN Program

VARIABLES
  todo,      \* what each goroutine still has to do, its current step first
  conns,     \* goroutines that hold a connection
  readers,   \* goroutines that hold sm.mutex for reading
  blocked,   \* goroutines waiting in RLock
  announced, \* the goroutine in Lock that waits for the readers to leave
  writer     \* the goroutine that holds sm.mutex for writing

vars == <<todo, conns, readers, blocked, announced, writer>>

At(g, step) == todo[g] # <<>> /\ Head(todo[g]) = step
Advance(g) == todo' = [todo EXCEPT ![g] = Tail(@)]
HoldsNothing(g) == g \notin conns \cup readers \cup writer

Init ==
  /\ todo = [g \in Goroutine |-> <<>>]
  /\ conns = {} /\ readers = {} /\ blocked = {} /\ announced = {} /\ writer = {}

Serve(g, h) ==
  /\ todo[g] = <<>>
  /\ todo' = [todo EXCEPT ![g] = Program[h]]
  /\ UNCHANGED <<conns, readers, blocked, announced, writer>>

(* An error, or nothing left to do: the rest of the request is skipped.    *)
Return(g) ==
  /\ todo[g] # <<>> /\ HoldsNothing(g) /\ g \notin blocked \cup announced
  /\ todo' = [todo EXCEPT ![g] = <<>>]
  /\ UNCHANGED <<conns, readers, blocked, announced, writer>>

(***************************************************************************)
(* database/sql                                                            *)
(***************************************************************************)
(* Mutant: SetMaxOpenConns is not called.                                  *)
OpenUnlimited(g) ==
  /\ At(g, "open")
  /\ conns' = conns \cup {g}
  /\ Advance(g)
  /\ UNCHANGED <<readers, blocked, announced, writer>>

Open(g) ==
  /\ At(g, "open") /\ Cardinality(conns) < PoolSize
  /\ conns' = conns \cup {g}
  /\ Advance(g)
  /\ UNCHANGED <<readers, blocked, announced, writer>>

Close(g) ==
  /\ At(g, "close")
  /\ conns' = conns \ {g}
  /\ Advance(g)
  /\ UNCHANGED <<readers, blocked, announced, writer>>

(***************************************************************************)
(* sync.RWMutex: a writer that waits keeps new readers out, and an Unlock  *)
(* lets in the readers that came to wait meanwhile.                        *)
(***************************************************************************)
RLock(g) ==
  /\ At(g, "rlock") /\ announced \cup writer = {} /\ g \notin blocked
  /\ readers' = readers \cup {g}
  /\ Advance(g)
  /\ UNCHANGED <<conns, blocked, announced, writer>>

RLockWaits(g) ==
  /\ At(g, "rlock") /\ announced \cup writer # {} /\ g \notin blocked
  /\ blocked' = blocked \cup {g}
  /\ UNCHANGED <<todo, conns, readers, announced, writer>>

RUnlock(g) ==
  /\ At(g, "runlock")
  /\ readers' = readers \ {g}
  /\ Advance(g)
  /\ UNCHANGED <<conns, blocked, announced, writer>>

LockAnnounces(g) ==
  /\ At(g, "lock") /\ announced \cup writer = {}
  /\ announced' = {g}
  /\ UNCHANGED <<todo, conns, readers, blocked, writer>>

Lock(g) ==
  /\ g \in announced /\ readers = {}
  /\ announced' = {}
  /\ writer' = {g}
  /\ Advance(g)
  /\ UNCHANGED <<conns, readers, blocked>>

Unlock(g) ==
  /\ At(g, "unlock")
  /\ writer' = {}
  /\ readers' = readers \cup blocked
  /\ blocked' = {}
  /\ todo' = [h \in Goroutine |-> IF h \in blocked \cup {g} THEN Tail(todo[h]) ELSE todo[h]]
  /\ UNCHANGED <<conns, announced>>

Next ==
  \E g \in Goroutine :
    \/ \E h \in Handler : Serve(g, h)
    \/ Return(g)
    \/ Open(g) \/ Close(g)
    \/ RLock(g) \/ RLockWaits(g) \/ RUnlock(g)
    \/ LockAnnounces(g) \/ Lock(g) \/ Unlock(g)

(* A goroutine that can go on does.  The pool hands a freed connection to a*)
(* waiting goroutine picked at random, and sync.Mutex (which orders the    *)
(* writers of an RWMutex) turns first-come-first-served once a waiter has  *)
(* starved for a millisecond: neither passes over one goroutine for ever.  *)
Fairness ==
  \A g \in Goroutine :
    /\ WF_vars(Close(g)) /\ WF_vars(RUnlock(g)) /\ WF_vars(Lock(g)) /\ WF_vars(Unlock(g))
    /\ WF_vars(RLock(g) \/ RLockWaits(g))
    /\ SF_vars(Open(g)) /\ SF_vars(LockAnnounces(g))

Spec == Init /\ [][Next]_vars /\ Fairness

(***************************************************************************)
(* Properties                                                              *)
(***************************************************************************)
(* The variables agree with each other and with where the goroutines are.  *)
TypeOK ==
  /\ todo \in [Goroutine -> Seq({"open", "close", "rlock", "runlock", "lock", "unlock"})]
  /\ conns \cup readers \cup blocked \cup announced \cup writer \subseteq Goroutine
  /\ Cardinality(conns) <= PoolSize
  /\ Cardinality(announced \cup writer) <= 1
  /\ writer # {} => readers = {}
  /\ \A g \in blocked : At(g, "rlock")
  /\ \A g \in announced : At(g, "lock")

(* A goroutine that holds sm.mutex, for reading or for writing, never      *)
(* waits for a connection nor for the mutex itself.  The queries that wait *)
(* for the mutex with a connection in hand are deadlock-free because of it.*)
MutexHolderNeverWaits ==
  \A g \in readers \cup writer : ~At(g, "open") /\ ~At(g, "rlock") /\ ~At(g, "lock")

(* A goroutine that waits for a connection holds none: with the single     *)
(* connection of SQLite a query inside another query's rows, or outside an *)
(* open transaction, would wait for itself.                                *)
OneConnectionEach ==
  \A g \in conns : ~At(g, "open")

(* Nobody takes a second connection, nor are more taken than there are;    *)
(* and mutex and pool are held by goroutines that will give them back.     *)
PoolRespected == TypeOK /\ OneConnectionEach

(* Every request is answered in the end, with a single connection and      *)
(* whatever the others do: nobody starves and no wait is circular.         *)
RequestsFinish ==
  \A g \in Goroutine : todo[g] # <<>> ~> todo[g] = <<>>
=============================================================================
