----------------------------- MODULE Invariants -----------------------------
(***************************************************************************)
(* The evaluators of invariants I1 to I5 (internal/tau/invariants), which  *)
(* the dispatcher runs on every decision it did not refuse.                *)
(***************************************************************************)
EXTENDS Dimensions

Held          == "held"
Violated      == "violated"
NotApplicable == "not_applicable"

RefusedFor(dec, diagnostics) ==
  dec.regime = "Refus" /\ dec.diagnostic \in diagnostics

-----------------------------------------------------------------------------
\* I1: the trace names the exchange that was decided.
EvaluateI1(x, dec) ==
  IF RefusedFor(dec, {DiagFrontiereFranchie}) THEN NotApplicable
  ELSE IF dec.trace.exchangeId = x.id THEN Held
  ELSE Violated

-----------------------------------------------------------------------------
\* I2: the migrating residue keeps the exchange inside the frontier.
Residu(x) ==
  (IF Dynamic(x) THEN {"target_resolution", "support_negotiation"} ELSE {})
  \cup (IF ~x.humanInLoop THEN {"intent_meaning"} ELSE {})
  \cup (IF x.depth > 0 THEN {"authority_chain"} ELSE {})

\* Removing a magnitude makes the condition it stands for hold again.
Recablage(x, removed) ==
  LET f == FrontierCheck(x)
      resolved == removed \cap {"target_resolution", "support_negotiation"} # {}
  IN [universOuvert       |-> f.universOuvert /\ ~resolved,
      compositionVariable |-> f.compositionVariable /\ ~resolved,
      pairProbabiliste    |-> f.pairProbabiliste /\ "intent_meaning" \notin removed,
      coutNonBorne        |-> f.coutNonBorne /\ "authority_chain" \notin removed]

EvaluateI2(x, dec) ==
  IF RefusedFor(dec, {DiagFrontiereFranchie}) THEN NotApplicable
  ELSE IF Residu(x) = {} \/ Inside(Recablage(x, Residu(x))) THEN Violated
  ELSE Held

-----------------------------------------------------------------------------
\* I3: authority asymmetry and profile expiry.  EvaluateI3 reads time.Now()
\* itself; now is the instant at which it does.
LockBypassed(x, dec) ==
  LET t == dec.trace.thresholds
      authority == IF dec.trace.dAuthority # NoScore THEN dec.trace.dAuthority
                   ELSE dec.trace.tauScore
  IN /\ ~x.attestation
     /\ t.authBlock > 0
     /\ authority >= t.authBlock

EvaluateI3(x, dec, now) ==
  IF Expired(dec.dateRevision, now) /\ ~RefusedFor(dec, {DiagPeremptionProfile})
  THEN Violated
  ELSE CASE dec.regime = "Refus" ->
              IF RefusedFor(dec, {DiagVerrouOntologique, DiagPeremptionProfile})
              THEN Held ELSE NotApplicable
         [] dec.regime = "Probabiliste" ->
              IF LockBypassed(x, dec) THEN Violated ELSE Held
         [] dec.regime = "Deterministe" -> Held
         [] OTHER -> NotApplicable

-----------------------------------------------------------------------------
\* I4: no incoherent (sens, inv) pair is dispatched.
EvaluateI4(dec) ==
  IF dec.regime = "Refus"
  THEN IF RefusedFor(dec, {DiagIncoherenceI4}) THEN Held ELSE NotApplicable
  ELSE IF /\ dec.trace.dSens # NoScore
          /\ dec.trace.dInvariant # NoScore
          /\ IsIncoherent(dec.trace.dSens, dec.trace.dInvariant, dec.trace.thresholds)
       THEN Violated ELSE Held

\* I5: no stack of layers is reified in a decision, so it is always held.
EvaluateI5 == Held

-----------------------------------------------------------------------------
\* EvaluateInvariants followed by Statuses.Summary: the violated invariants.
Summary(x, dec, now) ==
  {i \in {"I1", "I2", "I3", "I4", "I5"} :
     Violated = CASE i = "I1" -> EvaluateI1(x, dec)
                  [] i = "I2" -> EvaluateI2(x, dec)
                  [] i = "I3" -> EvaluateI3(x, dec, now)
                  [] i = "I4" -> EvaluateI4(dec)
                  [] i = "I5" -> EvaluateI5}
=============================================================================
