----------------------------- MODULE Dimensions -----------------------------
(***************************************************************************)
(* The three dimension scores (internal/tau/dimensions), in millionths.    *)
(* A probe is 0, 1, a number of quarters (the delegation chain) or, for    *)
(* the reasoner, the number of thousandths the LLM client answered.        *)
(***************************************************************************)
EXTENDS Tau

\* 1 when the condition of a binary probe holds, 0 otherwise.
Probe(condition) == IF condition THEN 1 ELSE 0

Clamp01(v) == IF v < 0 THEN 0 ELSE IF v > Scale THEN Scale ELSE v

-----------------------------------------------------------------------------
\* D-AUTORITE: four probes of equal weight 0.25.

\* Quarters: saturates at a chain of four delegations.
ProbeChainDepth(x) == IF x.depth <= 0 THEN 0 ELSE IF x.depth >= 4 THEN 4 ELSE x.depth

ProbeCrossOrg(x) == Probe(~x.org \/ x.depth > 1)

ScoreDAuthority(x) ==
  Clamp01(62500 * ProbeChainDepth(x) + 250000 * ProbeCrossOrg(x)
          + 250000 * Probe(~x.humanInLoop) + 250000 * Probe(Dynamic(x)))

-----------------------------------------------------------------------------
\* D-SENS: contract 0.35, runtime resolution 0.30, discovery 0.20 and the
\* reasoner 0.15; answer is the LLM client's reply in thousandths.

\* Mutant: the reply is weighted as if it were in hundredths, and not clamped.
ScoreDSensUnclamped(x, answer) ==
  350000 * Probe(~x.contract) + 300000 * Probe(x.intent)
  + 200000 * Probe(Dynamic(x)) + 1500 * answer

ScoreDSens(x, answer) ==
  Clamp01(350000 * Probe(~x.contract) + 300000 * Probe(x.intent)
          + 200000 * Probe(Dynamic(x)) + 150 * answer)

-----------------------------------------------------------------------------
\* D-INVARIANT: registry 0.30, idempotency 0.25, mediation 0.25, plan 0.20.

ProbeEnumeratedPlan(x) == Probe(~(x.contract \/ x.plan))

ScoreDInvariant(x) ==
  Clamp01(300000 * Probe(x.registry) + 250000 * Probe(x.derived)
          + 250000 * Probe(x.mediation \/ Dynamic(x))
          + 200000 * ProbeEnumeratedPlan(x))

\* IsIncoherent (i4_coherence.go), the pure form of the step-5 guard.
IsIncoherent(sens, inv, t) ==
  /\ inv >= t.invCoherence
  /\ sens < t.sensCoherence
=============================================================================
