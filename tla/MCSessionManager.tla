-------------------------- MODULE MCSessionManager --------------------------
(***************************************************************************)
(* Symmetry and a bound for the runs of SessionManager, all of them        *)
(* safety.                                                                 *)
(***************************************************************************)
EXTENDS SessionManager, FiniteSets, TLC

(* Bound: the IDs that requests name have been generated.                  *)
GeneratedIdBound == guessed = {}

Symmetry == Permutations(SessionId) \cup Permutations(UserId)
              \cup Permutations(ServerId) \cup Permutations(Request)

(* Behaviours in which a request names a session ID before NewSession has  *)
(* generated it are followed with one such ID, and while the emissions are *)
(* those of requests: an announcement is an emission to server rooms like  *)
(* EmitToServersUserIsIn.                                                  *)
EarlyIdBound ==
  guessed # {} => /\ Cardinality(guessed) = 1
                  /\ \A s \in SessionId : stage[s] = "idle"
=============================================================================
