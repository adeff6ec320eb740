----------------------------- MODULE MCProcess -----------------------------
(***************************************************************************)
(* The process as a whole, side by side in two models that share no state: *)
(* what its goroutines wait for (LockOrder), and how it starts and ends    *)
(* (Lifecycle).  One moves while the other rests at its start, which       *)
(* reaches every state that each of them can be in.                        *)
(***************************************************************************)
EXTENDS LockOrder

CONSTANTS Request

VARIABLES
  main, cancelled, signalled, receiver, db, listener, cleaner, expired, handlers   \* of Lifecycle

Process == INSTANCE Lifecycle

processVars ==
  <<main, cancelled, signalled, receiver, db, listener, cleaner, expired, handlers>>

LocksRest == Init /\ UNCHANGED vars
ProcessRests == Process!Init /\ UNCHANGED processVars

(* A process that has ended stays so, which is no deadlock.                *)
Over == Process!Ended /\ UNCHANGED processVars

SideBySide ==
  /\ Init /\ Process!Init
  /\ [][\/ ProcessRests /\ Next
        \/ LocksRest /\ (Process!Next \/ Over)]_<<vars, processVars>>

(* Whoever is served is served by a process in one of its known states,    *)
(* with the database, unless the process is on its way out.                *)
RunsWithDatabase == Process!TypeOK /\ Process!ServedWithDatabase
=============================================================================
