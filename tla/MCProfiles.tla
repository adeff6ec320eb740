----------------------------- MODULE MCProfiles -----------------------------
(***************************************************************************)
(* What users see of each other, side by side in four models that share no *)
(* state: profiles and their cache (UserCache), who is online (Presence),  *)
(* who types (Typing), and how an event reaches the client (EventStream).  *)
(* One moves while the others rest at their start, which reaches every     *)
(* state that each of them can be in.                                      *)
(***************************************************************************)
EXTENDS UserCache, Sequences, TLC

CONSTANTS Listener, Announcer, MaxChanges, Reporter, MaxReports,
          NameSymbol, MaxName, Capacity, MaxEvents

ASSUME BoundsAssumption == MaxChanges \in Nat \ {0} /\ MaxReports \in Nat
ASSUME StreamAssumption == {MaxName, Capacity, MaxEvents} \subseteq Nat

VARIABLES
  changes, announcing, room, view, missed, silent, crossed,   \* of Presence
  reports, reporting, listening, since, told, excused,        \* of Typing
  greeting, emitted, eventBus, wire, arrived, client, received, open   \* of EventStream

Online == INSTANCE Presence WITH Request <- Announcer, req <- announcing
Types == INSTANCE Typing WITH Request <- Reporter, req <- reporting, shown <- told
Stream == INSTANCE EventStream

presenceVars == <<changes, announcing, room, view, missed, silent, crossed>>
typingVars == <<reports, reporting, listening, since, told, excused>>
streamVars == <<greeting, emitted, eventBus, wire, arrived, client, received, open>>

ProfilesRest == Init /\ UNCHANGED vars
PresenceRests == Online!Init /\ UNCHANGED presenceVars
TypingRests == Types!Init /\ UNCHANGED typingVars
StreamRests == Stream!Init /\ UNCHANGED streamVars

Start == Init /\ Online!Init /\ Types!Init /\ Stream!Init

SideBySide ==
  /\ Start
  /\ [][\/ PresenceRests /\ TypingRests /\ StreamRests /\ Next
        \/ ProfilesRest /\ TypingRests /\ StreamRests /\ Online!Next
        \/ ProfilesRest /\ PresenceRests /\ StreamRests /\ Types!Next
        \/ ProfilesRest /\ PresenceRests /\ TypingRests /\ Stream!Next
       ]_<<vars, presenceVars, typingVars, streamVars>>

(* The cache and the clients follow the table, and a message is signed with*)
(* no profile older than an update answered before; failures and requests  *)
(* that overlap are excepted until the next update by itself.              *)
ProfileFollowed == TypeOK /\ CacheCurrent /\ SignedAsUpdated /\ ClientsConverge

(* The members' list of a session shows who is online, and lags behind by  *)
(* the announcements under way and no others.                              *)
PresenceFollowed ==
  Online!TypeOK /\ Online!PresenceConverges /\ Online!NothingElseMissed

(* The last report of typing stands, unless another overlapped.            *)
TypingSettles == Types!TypeOK /\ Types!TypingSettles

(* The client gets what was put on its bus, in that order, all of it and   *)
(* nothing else, wherever the connection breaks.                           *)
StreamIntact == Stream!TypeOK /\ Stream!ReceivedAsEmitted /\ Stream!NothingLost

(* Bound: while the client has missed something of the profile, no message *)
(* is signed with it.                                                      *)
UnheardBound ==
  unheard # {} => \A r \in Request : req[r].at # "idle" => req[r].kind = "update"

Symmetry == Permutations(Request) \cup Permutations(Listener)
=============================================================================
