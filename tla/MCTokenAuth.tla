----------------------------- MODULE MCTokenAuth ----------------------------
(***************************************************************************)
(* Symmetry for the runs of TokenAuth, all of them safety.                 *)
(***************************************************************************)
EXTENDS TokenAuth, TLC

Symmetry == Permutations(User) \cup Permutations(Token) \cup Permutations(Request)
=============================================================================
