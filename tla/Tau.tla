-------------------------------- MODULE Tau --------------------------------
(***************************************************************************)
(* The value types of the tau operator (internal/tau/operator.go,          *)
(* frontier.go, diagnostics.go, internal/thresholds/thresholds.go).        *)
(*                                                                         *)
(* Data is abstracted to what decisions depend on: a string that the code  *)
(* only compares with "" is a Boolean (org, contract, intent), the free    *)
(* form Context map is the four Booleans its probes extract, and a nil     *)
(* pointer to a Score is NoScore.                                          *)
(*                                                                         *)
(* Scores and thresholds are float64 in [0, 1] in the code.  Here they are *)
(* integers in millionths: every weight and probe is a multiple of 1/1000  *)
(* or 1/4, so the products below are exact.                                *)
(***************************************************************************)
EXTENDS Integers

Scale == 1000000

Regimes == {"Deterministe", "Probabiliste", "Refus"}

NoDiagnostic           == ""
DiagFrontiereFranchie  == "hors frontiere"
DiagVerrouOntologique  == "I3 verrou ontologique"
DiagPeremptionProfile  == "profil perime"
DiagIncoherenceI4      == "I4 combinaison incoherente"

RefusalDiagnostics == {DiagFrontiereFranchie, DiagVerrouOntologique,
                       DiagPeremptionProfile, DiagIncoherenceI4}

Static == "Static"
\* "Unknown" stands for the integers that name none of the constants: the JSON
\* codec accepts them.
DiscoveryModes == {Static, "DynamicMCP", "DynamicA2A", "DynamicAGNTCY", "Unknown"}

\* Initiator (humanInLoop, org, depth), Target (mode, contract), the intent,
\* the attestation and the Context flags of an exchange.
ExchangeOver(IDs) ==
  [id : IDs, humanInLoop : BOOLEAN, org : BOOLEAN, depth : Int,
   mode : DiscoveryModes, contract : BOOLEAN, intent : BOOLEAN,
   attestation : BOOLEAN, registry : BOOLEAN, derived : BOOLEAN,
   mediation : BOOLEAN, plan : BOOLEAN]

Dynamic(x) == x.mode # Static

\* Exchange.FrontierCheck: the four classical conditions, read off x.
FrontierCheck(x) ==
  [universOuvert       |-> Dynamic(x),
   compositionVariable |-> Dynamic(x),
   pairProbabiliste    |-> ~x.humanInLoop,
   coutNonBorne        |-> x.depth > 0]

Inside(f) ==
  /\ f.universOuvert
  /\ f.compositionVariable
  /\ f.pairProbabiliste
  /\ f.coutNonBorne

Thresholds ==
  [deterministe : 0..Scale, probabiliste : 0..Scale, authBlock : 0..Scale,
   sensCoherence : 0..Scale, invCoherence : 0..Scale, hysteresisGap : 0..Scale]

Ordered(t) == t.deterministe <= t.probabiliste

\* A Score pointer of a Trace: nil, or its Value.
NoScore == -1
OptionalScores == NoScore..Scale

\* A DateRevision is an instant; 0 is the zero time.Time of the code, the
\* date of a decision no profile was injected for.
ZeroDate == 0

\* time.After is strict, and a zero DateRevision never expires
\* (dispatcher.go step 3 and invariants.IsProfileExpired agree on both).
Expired(dateRevision, now) ==
  /\ dateRevision # ZeroDate
  /\ now > dateRevision
=============================================================================
