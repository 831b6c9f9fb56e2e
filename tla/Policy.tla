------------------------------- MODULE Policy -------------------------------
(***************************************************************************)
(* What a Dispatcher is configured with and never changes: its thresholds, *)
(* its calibration profile (or none) and the answers its LLM client may    *)
(* give.  Shared by the abstract kernel and the dispatcher.                *)
(***************************************************************************)
EXTENDS Invariants

CONSTANTS Callers,    \* the goroutines that call Decide
          Exchanges,  \* the exchanges they may submit
          Answers,    \* replies of llm.Client.Interpret, in thousandths, or LLMError
          LLMError,   \* Interpret returned an error
          Limits,     \* Dispatcher.thresholds
          Profile,    \* Dispatcher.profile, or NoProfile
          NoProfile,  \* nil
          MaxTime     \* bound on the clock

ASSUME PolicyAssumption ==
  /\ Answers \ {LLMError} \subseteq 0..1000
  /\ Answers \ {LLMError} # {}
  /\ Limits \in Thresholds
  /\ Ordered(Limits)                  \* NewDispatcher panics otherwise
  /\ Profile # NoProfile =>
       /\ Profile.dateRevision \in Nat
       /\ Profile.dSens \in Nat
       /\ Profile.dAuthority \in Nat
       /\ Profile.dInvariant \in Nat
  /\ MaxTime \in Nat \ {0}

ASSUME ExchangesAssumption ==
  /\ Exchanges # {}
  /\ Exchanges \subseteq ExchangeOver({x.id : x \in Exchanges})

\* Interpret's successful replies, and the exchange of a caller yet to call.
Replies == Answers \ {LLMError}
SomeExchange == CHOOSE x \in Exchanges : TRUE

HasProfile == Profile # NoProfile

\* What a dispatched decision is stamped with.
ProfileVersion == IF HasProfile THEN Profile.version ELSE "M3-default-no-profile"
DateRevision   == IF HasProfile THEN Profile.dateRevision ELSE ZeroDate

\* Dispatcher.dimensionWeights, in thousandths: the profile's unless all are 0.
DimensionWeights ==
  IF HasProfile /\ Profile.dSens + Profile.dAuthority + Profile.dInvariant > 0
  THEN [dSens |-> Profile.dSens, dAuthority |-> Profile.dAuthority,
        dInvariant |-> Profile.dInvariant]
  ELSE [dSens |-> 400, dAuthority |-> 300, dInvariant |-> 300]

\* Step 6, in billionths.
Composite(sens, authority, inv) ==
  DimensionWeights.dSens * sens + DimensionWeights.dAuthority * authority
  + DimensionWeights.dInvariant * inv

\* Step 7: the hysteresis band is Deterministe.
RegimeOf(tauScore) ==
  IF tauScore >= Limits.probabiliste * 1000 THEN "Probabiliste" ELSE "Deterministe"

\* The guard of step 2.
LockCloses(x, authority) == authority >= Limits.authBlock /\ ~x.attestation
=============================================================================
