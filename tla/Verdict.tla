------------------------------ MODULE Verdict ------------------------------
(***************************************************************************)
(* The verdict of the operator on one exchange, one answer of the reasoner *)
(* and one reading of the clock, stated as the set of reasons to refuse    *)
(* and their precedence (PRD 10.1), not as a sequence of steps.            *)
(***************************************************************************)
EXTENDS Policy

ReasonsToRefuse(x, answer, t) ==
  {d \in RefusalDiagnostics :
     \/ d = DiagFrontiereFranchie /\ ~Inside(FrontierCheck(x))
     \/ d = DiagVerrouOntologique /\ LockCloses(x, ScoreDAuthority(x))
     \/ d = DiagPeremptionProfile /\ HasProfile /\ Expired(DateRevision, t)
     \/ d = DiagIncoherenceI4
        /\ IsIncoherent(ScoreDSens(x, answer), ScoreDInvariant(x), Limits)}

Rank(d) == CASE d = DiagFrontiereFranchie -> 1
             [] d = DiagVerrouOntologique -> 2
             [] d = DiagPeremptionProfile -> 3
             [] OTHER -> 4

\* d is the reason given: it applies and no reason of higher precedence does.
ReasonGiven(d, reasons) ==
  d \in reasons /\ \A e \in reasons : Rank(d) <= Rank(e)

IsVerdict(v, x, answer, t) ==
  LET reasons == ReasonsToRefuse(x, answer, t)
  IN IF reasons # {}
     THEN v.regime = "Refus" /\ ReasonGiven(v.diagnostic, reasons)
     ELSE /\ v.regime = RegimeOf(Composite(ScoreDSens(x, answer), ScoreDAuthority(x),
                                           ScoreDInvariant(x)))
          /\ v.diagnostic = NoDiagnostic

Verdicts == [regime : Regimes, diagnostic : RefusalDiagnostics \cup {NoDiagnostic}]
=============================================================================
