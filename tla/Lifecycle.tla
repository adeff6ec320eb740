----------------------------- MODULE Lifecycle -----------------------------
(***************************************************************************)
(* The life of the process: start-up, the goroutines main starts (one waits*)
(* for a signal, one cleans the database, one listens), and the end, which *)
(* each of them brings about by cancelling the context main waits for.     *)
(* When main returns, all other goroutines are gone.                       *)
(*                                                                         *)
(* Handlers matter here as far as they can take the process with them: a   *)
(* panic is recovered, but AuthSessionId reads the map sm.sessions without *)
(* the mutex, and the Go runtime may find that another goroutine writes it *)
(* at that moment, and end the process.                                    *)
(***************************************************************************)
CONSTANTS Request

VARIABLES
  main,        \* where main is, or how the process ended
  cancelled,   \* the context is cancelled
  signalled,   \* a signal came, and signalChan holds it until it is received
  receiver,    \* the goroutine that waits for it: "none", "waits" or "done"
  db,          \* the database: "none", "open" or "closed"
  listener,    \* the HTTP server: "none", "starts", "listens" or "failed"
  cleaner,     \* where databaseCleanerService is
  expired,     \* there are expired tokens in the database
  handlers     \* what each goroutine does with sm.sessions

vars == <<main, cancelled, signalled, receiver, db, listener, cleaner, expired, handlers>>

Ended == main \in {"exited", "startFailed", "cleanerCrashed", "raced"}

Init ==
  /\ main = "init" /\ cancelled = FALSE
  /\ signalled = FALSE /\ receiver = "waits"
  /\ db = "none" /\ listener = "none" /\ cleaner = "none"
  /\ expired \in BOOLEAN
  /\ handlers = [r \in Request |-> "idle"]

Crash(end) ==
  /\ main' = end
  /\ UNCHANGED <<cancelled, signalled, receiver, db, listener, cleaner, expired, handlers>>

(***************************************************************************)
(* main                                                                    *)
(***************************************************************************)
(* The tables are made, and the cleaner starts with a sleep.               *)
InitDatabase ==
  /\ main = "init"
  /\ db' = "open" /\ cleaner' = "sleeps" /\ main' = "setup"
  /\ UNCHANGED <<cancelled, signalled, receiver, listener, expired, handlers>>

(* The database or the ID generator fails: a panic in main.                *)
StartFails == main \in {"init", "setup"} /\ Crash("startFailed")

(* Handlers, middlewares, and a goroutine for the server.                  *)
Setup ==
  /\ main = "setup"
  /\ listener' = "starts" /\ main' = "waits"
  /\ UNCHANGED <<cancelled, signalled, receiver, db, cleaner, expired, handlers>>

(* Mutant: the server listens before everything else.                      *)
ListenAtOnce ==
  /\ ~Ended /\ listener \in {"none", "starts"}
  /\ listener' = "listens"
  /\ UNCHANGED <<main, cancelled, signalled, receiver, db, cleaner, expired, handlers>>

Listen ==
  /\ ~Ended /\ listener = "starts"
  /\ listener' = "listens"
  /\ UNCHANGED <<main, cancelled, signalled, receiver, db, cleaner, expired, handlers>>

(* The address is taken, or accepting a connection fails.                  *)
ListenFails ==
  /\ ~Ended /\ listener \in {"starts", "listens"}
  /\ listener' = "failed" /\ cancelled' = TRUE
  /\ UNCHANGED <<main, signalled, receiver, db, cleaner, expired, handlers>>

(* Mutant: the requests under way are waited for, streams included.        *)
ShutdownWaits ==
  /\ main = "waits" /\ cancelled /\ \A r \in Request : handlers[r] = "idle"
  /\ db' = "closed" /\ main' = "closed"
  /\ UNCHANGED <<cancelled, signalled, receiver, listener, cleaner, expired, handlers>>

(* <-ctx.Done(), then the database is closed.                              *)
Shutdown ==
  /\ main = "waits" /\ cancelled
  /\ db' = "closed" /\ main' = "closed"
  /\ UNCHANGED <<cancelled, signalled, receiver, listener, cleaner, expired, handlers>>

Return ==
  /\ main = "closed"
  /\ main' = "exited"
  /\ UNCHANGED <<cancelled, signalled, receiver, db, listener, cleaner, expired, handlers>>

(***************************************************************************)
(* Signals                                                                 *)
(***************************************************************************)
(* SIGINT or SIGTERM; more of them are dropped while the channel is full,  *)
(* and not received after the first.                                       *)
Signal ==
  /\ ~Ended /\ ~signalled
  /\ signalled' = TRUE
  /\ UNCHANGED <<main, cancelled, receiver, db, listener, cleaner, expired, handlers>>

(* Mutant: before main waits, nobody is told.                              *)
ReceiveEarly ==
  /\ ~Ended /\ signalled /\ receiver = "waits"
  /\ receiver' = "done" /\ signalled' = FALSE
  /\ cancelled' = (cancelled \/ main = "waits")
  /\ UNCHANGED <<main, db, listener, cleaner, expired, handlers>>

Receive ==
  /\ ~Ended /\ signalled /\ receiver = "waits"
  /\ receiver' = "done" /\ signalled' = FALSE
  /\ cancelled' = TRUE
  /\ UNCHANGED <<main, db, listener, cleaner, expired, handlers>>

(***************************************************************************)
(* databaseCleanerService                                                  *)
(***************************************************************************)
(* Ten minutes after the start, and then every four hours.                 *)
Wake ==
  /\ ~Ended /\ cleaner = "sleeps"
  /\ cleaner' = "deletes"
  /\ UNCHANGED <<main, cancelled, signalled, receiver, db, listener, expired, handlers>>

Delete ==
  /\ ~Ended /\ cleaner = "deletes" /\ db = "open"
  /\ expired' = FALSE /\ cleaner' = "vacuums"
  /\ UNCHANGED <<main, cancelled, signalled, receiver, db, listener, handlers>>

(* Mutant: the cleaner gives up.                                           *)
DeleteFailsQuietly ==
  /\ ~Ended /\ cleaner = "deletes"
  /\ cleaner' = "gone"
  /\ UNCHANGED <<main, cancelled, signalled, receiver, db, listener, expired, handlers>>

(* The shutdown is asked for, and the cleaner goes on without a result.    *)
DeleteFails ==
  /\ ~Ended /\ cleaner = "deletes"
  /\ cancelled' = TRUE
  /\ cleaner' = "counts"
  /\ UNCHANGED <<main, signalled, receiver, db, listener, expired, handlers>>

(* RowsAffected of a nil result is a panic that nobody recovers.           *)
Count == ~Ended /\ cleaner = "counts" /\ Crash("cleanerCrashed")

(* SQLite's file is compacted, or the driver has nothing to do here.       *)
Vacuum ==
  /\ ~Ended /\ cleaner = "vacuums"
  /\ cleaner' = "sleeps"
  /\ \/ db = "open" /\ UNCHANGED cancelled
     \/ cancelled' = TRUE
  /\ UNCHANGED <<main, signalled, receiver, db, listener, expired, handlers>>

(* A token expires.                                                        *)
Expire ==
  /\ ~Ended /\ ~expired /\ db = "open"
  /\ expired' = TRUE
  /\ UNCHANGED <<main, cancelled, signalled, receiver, db, listener, cleaner, handlers>>

(***************************************************************************)
(* Handlers                                                                *)
(***************************************************************************)
HandlerGoes(r, from, to) ==
  /\ ~Ended /\ handlers[r] = from
  /\ handlers' = [handlers EXCEPT ![r] = to]
  /\ UNCHANGED <<main, cancelled, signalled, receiver, db, listener, cleaner, expired>>

Serve(r) == listener = "listens" /\ HandlerGoes(r, "idle", "runs")
Answer(r) == HandlerGoes(r, "runs", "idle")

(* Recoverer answers for a handler that panics.                            *)
Panic(r) == HandlerGoes(r, "runs", "idle")

(* AuthSessionId, without the mutex.                                       *)
ReadSessions(r) == HandlerGoes(r, "runs", "reads")

(* NewSession, RemoveSession, SetServer, SetChannel, with the mutex.       *)
WriteSessions(r) ==
  (\A q \in Request : handlers[q] # "writes") /\ HandlerGoes(r, "runs", "writes")

Access(r) == HandlerGoes(r, "reads", "runs") \/ HandlerGoes(r, "writes", "runs")

(* fatal error: concurrent map read and map write                          *)
Race ==
  /\ ~Ended /\ \E q, r \in Request : handlers[q] = "reads" /\ handlers[r] = "writes"
  /\ Crash("raced")

Clean == Wake \/ Delete \/ DeleteFails \/ Count \/ Vacuum

Next ==
  \/ InitDatabase \/ StartFails \/ Setup \/ Listen \/ ListenFails \/ Shutdown \/ Return
  \/ Signal \/ Receive
  \/ Clean \/ Expire
  \/ \E r \in Request :
       \/ Serve(r) \/ Answer(r) \/ Panic(r)
       \/ ReadSessions(r) \/ WriteSessions(r) \/ Access(r)
  \/ Race

Spec == Init /\ [][Next]_vars

(* Goroutines run on, and sleeps end.  Nothing is said of handlers.        *)
Fairness ==
  /\ WF_vars(InitDatabase \/ StartFails \/ Setup \/ Shutdown \/ Return)
  /\ WF_vars(Receive) /\ WF_vars(Clean)

FairSpec == Spec /\ Fairness

(***************************************************************************)
(* Properties                                                              *)
(***************************************************************************)
TypeOK ==
  /\ main \in {"init", "setup", "waits", "closed", "exited", "startFailed", "cleanerCrashed",
              "raced"}
  /\ {cancelled, signalled, expired} \subseteq BOOLEAN
  /\ receiver \in {"waits", "done"}
  /\ db \in {"none", "open", "closed"}
  /\ listener \in {"none", "starts", "listens", "failed"}
  /\ cleaner \in {"none", "sleeps", "deletes", "counts", "vacuums"}
  /\ handlers \in [Request -> {"idle", "runs", "reads", "writes"}]

(* No handler runs before the database is open, nor once it is closed      *)
(* unless the process is on its way out.                                   *)
ServedWithDatabase ==
  \A r \in Request : handlers[r] # "idle" => db = "open" \/ main = "closed" \/ Ended

(* A signal ends the process, at whatever moment it arrives, start-up      *)
(* included.                                                               *)
SignalEnds == signalled ~> Ended

(* Once anybody has asked for it, the process ends.                        *)
ShutdownCompletes == cancelled ~> Ended

(* So the process ends whenever it is asked to, by whomever.               *)
ProcessEnds == SignalEnds /\ ShutdownCompletes

(* Expired tokens are deleted in the end, or the process ends: the cleaner *)
(* does not go away silently.                                              *)
ExpiredAreCleaned == expired ~> (~expired \/ Ended)
=============================================================================
