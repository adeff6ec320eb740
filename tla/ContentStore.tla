---------------------------- MODULE ContentStore ----------------------------
(***************************************************************************)
(* What the store of avatars promises: under each name one picture, decided*)
(* once.  A stored picture stays as it is, a spoiled one too, and the      *)
(* resized pictures are made of stored originals.                          *)
(***************************************************************************)
CONSTANTS Avatar, Slot, Original

VARIABLES stored, spoiled   \* the names with a whole and with a broken picture

vars == <<stored, spoiled>>

Name == Avatar \X Slot

Init == stored = {} /\ spoiled = {}

Decide(n) ==
  /\ n \notin stored \cup spoiled
  /\ <<n[1], Original>> \in stored \cup {n}

Store(n) == Decide(n) /\ stored' = stored \cup {n} /\ UNCHANGED spoiled
Spoil(n) == Decide(n) /\ spoiled' = spoiled \cup {n} /\ UNCHANGED stored

(* A crash may spoil what several requests are writing.                    *)
SpoilSeveral(S) ==
  /\ \A n \in S : Decide(n)
  /\ spoiled' = spoiled \cup S /\ UNCHANGED stored

Next ==
  \/ \E n \in Name : Store(n) \/ Spoil(n)
  \/ \E S \in SUBSET Name : SpoilSeveral(S)

Spec == Init /\ [][Next]_vars
=============================================================================
