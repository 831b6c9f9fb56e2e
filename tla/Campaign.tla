------------------------------ MODULE Campaign ------------------------------
(***************************************************************************)
(* The consumers of recorded decisions over the Dispatcher: the labels of  *)
(* a scored corpus and the empirical I4 campaign.  Both code the guards of *)
(* Decide once more, on scores computed again.                             *)
(***************************************************************************)
EXTENDS Dispatcher, Corpus

\* What scoredEntry makes of the call of c: the reasoner answers the same
\* intent alike, so the score of D-SENS is that of the call, if it got so far.
EntriesOf(c) ==
  {ScoredEntry(arg[c], dec[c], answer, Limits) :
     answer \in {a \in Replies : sens[c] \in {NoScore, ScoreDSens(arg[c], a)}}}

\* "genuine grid-search ground truth" (generator.go:136): every decision that is
\* a sample gets the label simulate gives it at the dispatcher's thresholds, and
\* an entry that LoadCorpus accepts.
LabelsAreGroundTruth ==
  \A c \in Callers : Returned(c) =>
    \A e \in EntriesOf(c) : e.labeled # NotASample =>
      IsValid(e) /\ Simulate(e, Limits) = e.labeled

\* toEmpiricalDecision: the scores are computed again, D-SENS without a reasoner.
ToEmpiricalDecision(c) ==
  [regime |-> dec[c].regime, diagnostic |-> dec[c].diagnostic,
   sens |-> ScoreDSens(arg[c], 0), inv |-> ScoreDInvariant(arg[c]),
   sensCoherence |-> Limits.sensCoherence, invCoherence |-> Limits.invCoherence]

\* A campaign over the decisions returned so far finds no false positive, and
\* as many false negatives as the reasoner lifted D-SENS over the threshold
\* ("Guard failed silently", classifier.go:29, is never the reason).
ClassifierAgrees ==
  LET returned == {c \in Callers : Returned(c)}
      stats == EmpiricalI4Summary([c \in returned |-> ToEmpiricalDecision(c)])
      Lifted(c) == /\ ~Refused(c)
                   /\ IsIncoherent(ScoreDSens(arg[c], 0), ScoreDInvariant(arg[c]), Limits)
                   /\ sens[c] >= Limits.sensCoherence
  IN /\ stats["FalsePositive"] = 0
     /\ stats["FalseNegative"] = Cardinality({c \in returned : Lifted(c)})
=============================================================================
