---------------------------- MODULE MCAdmission -----------------------------
(***************************************************************************)
(* What stands between a client and a handler, side by side: TokenAuth,    *)
(* RateLimiter and Validation.  They share no state, so a run in which one *)
(* moves while the others are as they were at the start reaches every      *)
(* state that each of them can be in.                                      *)
(***************************************************************************)
EXTENDS TokenAuth, Sequences, TLC

CONSTANTS LimitedRequest, TTL, MaxTicks, Wide

ASSUME TicksAssumption == TTL \in Nat /\ MaxTicks \in Nat \ {0}
ASSUME WideAssumption == Wide \subseteq Nat

VARIABLES ticks, expires, admitted, limited, form, optional, issues, row

Limiter ==
  INSTANCE RateLimiter WITH Request <- LimitedRequest, MaxTime <- MaxTicks,
                            now <- ticks, req <- limited
Forms == INSTANCE Validation

limiterVars == <<ticks, expires, admitted, limited>>
formVars == <<form, optional, issues, row>>

LimiterRests == Limiter!Init /\ UNCHANGED limiterVars
FormsRest == Forms!Init /\ UNCHANGED formVars
TokensRest == Init /\ UNCHANGED vars

Start == Init /\ Limiter!Init /\ Forms!Init

SideBySide ==
  /\ Start
  /\ [][\/ LimiterRests /\ FormsRest /\ Next
        \/ TokensRest /\ FormsRest /\ Limiter!Next
        \/ TokensRest /\ LimiterRests /\ Forms!Next
       ]_<<vars, limiterVars, formVars>>

(* The values of each component stay in their sets.                        *)
AdmissionTypeOK == TypeOK /\ Limiter!TypeOK /\ Forms!TypeOK

(* limitRate spaces the admissions of one user, but for requests that look *)
(* at the cache together, and refuses a user only for such an admission.   *)
RateLimited == []Limiter!AdmissionsSpaced /\ Limiter!RefusalsAreOwn

(* What the handlers store of a form that passed Validate fits its column, *)
(* and a form is refused for all that is wrong with it and nothing else.   *)
FormsChecked == Forms!StoredFits /\ Forms!RefusedInFull

Symmetry == Permutations(User) \cup Permutations(Token) \cup Permutations(Request)
=============================================================================
