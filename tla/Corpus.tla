------------------------------- MODULE Corpus -------------------------------
(***************************************************************************)
(* The pure parts of the tools around the operator: the exchanges that     *)
(* cmd/generate-corpus builds, the two ways an exchange enters (the bridge *)
(* converter of internal/app and the JSON codec of tau), the labels of a   *)
(* scored corpus, and the I4 classifier of recorded decisions.             *)
(*                                                                         *)
(* An AgentMeshExchange is an exchange whose mode is still text.           *)
(***************************************************************************)
EXTENDS Verdict, Calibration

Repeat(x, k) == [j \in 1..k |-> x]

Distributions == {"balanced", "i4-heavy", "refus-heavy"}

\* Percentages; what they leave of n goes to "hysteresis".
WeightsFor(distribution) ==
  CASE distribution = "balanced" ->
         [refusFrontiere |-> 15, refusI3 |-> 15, refusI4 |-> 10, deterministe |-> 25, probabiliste |-> 25]
    [] distribution = "i4-heavy" ->
         [refusFrontiere |-> 10, refusI3 |-> 10, refusI4 |-> 60, deterministe |-> 5, probabiliste |-> 5]
    [] distribution = "refus-heavy" ->
         [refusFrontiere |-> 20, refusI3 |-> 20, refusI4 |-> 10, deterministe |-> 20, probabiliste |-> 20]

BuildPlan(n, weights) ==
  LET Rows(branch) == Repeat(branch, (n * weights[branch]) \div 100)
      plan == Rows("refusFrontiere") \o Rows("refusI3") \o Rows("refusI4")
              \o Rows("deterministe") \o Rows("probabiliste")
  IN plan \o Repeat("hysteresis", n - Len(plan))

\* The six builders, at index i of the shuffled plan.
Build(branch, i) ==
  [id |-> i, humanInLoop |-> branch = "refusFrontiere", org |-> TRUE,
   depth |-> IF branch = "refusFrontiere" THEN 0
             ELSE IF branch = "refusI3" THEN 3 + (i % 3)
             ELSE IF branch = "probabiliste" THEN 2 ELSE 1,
   mode |-> IF branch = "refusFrontiere" THEN "static"
            ELSE IF branch = "probabiliste" THEN "dynamic_a2a" ELSE "dynamic_mcp",
   contract |-> branch \notin {"refusI3", "probabiliste"}, intent |-> TRUE,
   attestation |-> branch \notin {"refusFrontiere", "refusI3"},
   registry |-> FALSE, derived |-> FALSE, mediation |-> FALSE, plan |-> FALSE]

-----------------------------------------------------------------------------
(* The two entrances.                                                      *)

\* Mutant: the A2A spelling is forgotten, and falls back to DynamicMCP.
WithoutA2A(s) ==
  CASE s \in {"", "static"} -> Static
    [] s = "dynamic_agntcy" -> "DynamicAGNTCY"
    [] OTHER -> "DynamicMCP"

DiscoveryModeFromString(s) ==
  CASE s \in {"", "static"} -> Static
    [] s = "dynamic_a2a" -> "DynamicA2A"
    [] s = "dynamic_agntcy" -> "DynamicAGNTCY"
    [] OTHER -> "DynamicMCP"

ToTauExchange(x) == [x EXCEPT !.mode = DiscoveryModeFromString(@)]

\* Of the spellings the JSON codec folds to a mode: the canonical one, the
\* snake case of the corpora and another case of it.  Anything else is an error.
Spellings ==
  [Static |-> {"Static", "static", "STATIC"},
   DynamicMCP |-> {"DynamicMCP", "dynamic_mcp", "DYNAMIC_MCP"},
   DynamicA2A |-> {"DynamicA2A", "dynamic_a2a", "DYNAMIC_A2A"},
   DynamicAGNTCY |-> {"DynamicAGNTCY", "dynamic_agntcy", "DYNAMIC_AGNTCY"}]

UnmarshalMode(s) ==
  IF \E m \in DOMAIN Spellings : s \in Spellings[m]
  THEN CHOOSE m \in DOMAIN Spellings : s \in Spellings[m]
  ELSE "error"

-----------------------------------------------------------------------------
(* Labels.                                                                 *)

\* Decide, for one who calls it in a row: the verdict of one instant.
Decide(x, answer, now) == CHOOSE v \in Verdicts : IsVerdict(v, x, answer, now)

\* keep = false
NotASample == ""

\* Mutant: the regime the dispatcher chose is taken for the label.
LabelByRegime(v, sens, authority, i, attested, def) ==
  CASE v.diagnostic = DiagVerrouOntologique -> "refus_authority"
    [] v.diagnostic = DiagIncoherenceI4 -> "refus_i4"
    [] v.regime = "Deterministe" -> "deterministe"
    [] v.regime = "Probabiliste" -> "probabiliste"
    [] OTHER -> NotASample

LabelForDecision(v, sens, authority, i, attested, def) ==
  CASE v.regime = "Refus" ->
         (CASE v.diagnostic = DiagVerrouOntologique -> "refus_authority"
            [] v.diagnostic = DiagIncoherenceI4 -> "refus_i4"
            [] OTHER -> NotASample)
    [] OTHER ->
         (IF authority >= def.authBlock /\ ~attested THEN "refus_authority"
          ELSE IF sens < def.sensCoherence /\ i >= def.invCoherence THEN "refus_i4"
          ELSE IF sens >= def.probabiliste THEN "deterministe"
          ELSE "probabiliste")

\* The entry made of exchange x and decision v; answer is the reasoner's, asked
\* again for the score.
ScoredEntry(x, v, answer, def) ==
  LET sens == ScoreDSens(x, answer)
      authority == ScoreDAuthority(x)
      i == ScoreDInvariant(x)
  IN [id |-> TRUE, sens |-> sens, auth |-> authority, inv |-> i,
      attestation |-> x.attestation,
      labeled |-> LabelForDecision(v, sens, authority, i, x.attestation, def),
      expected |-> ""]

-----------------------------------------------------------------------------
(* The I4 classifier.                                                      *)

I4Classes == {"CoherentAccepted", "IncoherentRefused", "FalsePositive",
              "FalseNegative", "OtherRefusal"}

ClassifyI4(d) ==
  LET condition == d.inv >= d.invCoherence /\ d.sens < d.sensCoherence
  IN CASE d.regime = "Refus" /\ d.diagnostic # DiagIncoherenceI4 -> "OtherRefusal"
       [] d.regime = "Refus" /\ d.diagnostic = DiagIncoherenceI4 ->
            IF condition THEN "IncoherentRefused" ELSE "FalsePositive"
       [] OTHER -> IF condition THEN "FalseNegative" ELSE "CoherentAccepted"

\* EmpiricalI4Summary without the two ratios, which are nil on a 0.
EmpiricalI4Summary(decisions) ==
  [class \in I4Classes |->
     Cardinality({k \in DOMAIN decisions : ClassifyI4(decisions[k]) = class})]
=============================================================================
