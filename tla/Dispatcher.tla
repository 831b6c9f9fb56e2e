----------------------------- MODULE Dispatcher -----------------------------
(***************************************************************************)
(* Dispatcher.Decide (internal/orchestration/dispatcher.go), called by any *)
(* number of goroutines.  A call walks through the steps of the code; the  *)
(* clock may advance between any two of them, so the two readings of it    *)
(* (the expiry guard of step 3, through d.now, and EvaluateI3 in step 8,   *)
(* through time.Now) may differ.  The dispatcher itself is immutable.      *)
(***************************************************************************)
EXTENDS Policy

VARIABLES now,      \* the clock, an instant
          pc,       \* pc[c]: the step c's call is about to take
          arg,      \* the Exchange it decides
          start,    \* start := time.Now() at the top of Decide
          guardClock, \* history: what d.now() returned in step 3
          auth,     \* authPtr, sensPtr, invPtr: NoScore until computed
          sens,
          inv,
          dec       \* the Decision under construction, then returned

vars == <<now, pc, arg, start, guardClock, auth, sens, inv, dec>>

Steps == {"frontier", "authority", "expiry", "score", "coherence",
          "composite", "evaluate"}
PCs   == Steps \cup {"idle", "done", "failed"}

\* The snapshot tt of Decide: HysteresisGap is not copied.
TraceThresholds == [Limits EXCEPT !.hysteresisGap = 0]

\* The zero Decision, returned with an error.
NoDecision ==
  [regime |-> "Unknown", diagnostic |-> NoDiagnostic,
   profileVersion |-> "", dateRevision |-> ZeroDate,
   trace |-> [exchangeId |-> "", tauScore |-> 0, frontier |-> FrontierCheck(SomeExchange),
              thresholds |-> TraceThresholds, dAuthority |-> NoScore, dSens |-> NoScore,
              dInvariant |-> NoScore, unmodeledObservations |-> {}]]

\* refusDecisionWithScores; refusDecision is the case of three NoScore.
RefusDecision(x, diagnostic, authority, s, i) ==
  [regime |-> "Refus", diagnostic |-> diagnostic,
   profileVersion |-> "", dateRevision |-> ZeroDate,
   trace |-> [exchangeId |-> x.id, tauScore |-> 0, frontier |-> FrontierCheck(x),
              thresholds |-> TraceThresholds, dAuthority |-> authority, dSens |-> s,
              dInvariant |-> i, unmodeledObservations |-> {}]]

\* The decision built between steps 7 and 8.
DispatchDecision(x, authority, s, i) ==
  LET tauScore == Composite(s, authority, i)
  IN [regime |-> RegimeOf(tauScore), diagnostic |-> NoDiagnostic,
      profileVersion |-> ProfileVersion, dateRevision |-> DateRevision,
      trace |-> [exchangeId |-> x.id, tauScore |-> tauScore, frontier |-> FrontierCheck(x),
                 thresholds |-> TraceThresholds, dAuthority |-> authority, dSens |-> s,
                 dInvariant |-> i, unmodeledObservations |-> {}]]

-----------------------------------------------------------------------------
Init ==
  /\ now = 1
  /\ pc = [c \in Callers |-> "idle"]
  /\ arg = [c \in Callers |-> SomeExchange]
  /\ start = [c \in Callers |-> 0]
  /\ guardClock = [c \in Callers |-> 0]
  /\ auth = [c \in Callers |-> NoScore]
  /\ sens = [c \in Callers |-> NoScore]
  /\ inv = [c \in Callers |-> NoScore]
  /\ dec = [c \in Callers |-> NoDecision]

Goto(c, step) == pc' = [pc EXCEPT ![c] = step]

Return(c, decision) ==
  /\ dec' = [dec EXCEPT ![c] = decision]
  /\ Goto(c, "done")

\* Decide(ctx, x) is entered by a caller that is not inside it.
Call(c, x) ==
  /\ pc[c] = "idle"
  /\ Goto(c, "frontier")
  /\ arg' = [arg EXCEPT ![c] = x]
  /\ start' = [start EXCEPT ![c] = now]
  /\ UNCHANGED <<now, guardClock, auth, sens, inv, dec>>

\* The caller takes what Decide returned; the locals of the call are gone.
Take(c) ==
  /\ pc[c] \in {"done", "failed"}
  /\ Goto(c, "idle")
  /\ arg' = [arg EXCEPT ![c] = SomeExchange]
  /\ start' = [start EXCEPT ![c] = 0]
  /\ guardClock' = [guardClock EXCEPT ![c] = 0]
  /\ auth' = [auth EXCEPT ![c] = NoScore]
  /\ sens' = [sens EXCEPT ![c] = NoScore]
  /\ inv' = [inv EXCEPT ![c] = NoScore]
  /\ dec' = [dec EXCEPT ![c] = NoDecision]
  /\ UNCHANGED now

\* Mutant: only the first of the four frontier conditions is tested.
FrontierOneCondition(c) ==
  /\ pc[c] = "frontier"
  /\ \/ /\ ~FrontierCheck(arg[c]).universOuvert
        /\ Return(c, RefusDecision(arg[c], DiagFrontiereFranchie, NoScore, NoScore, NoScore))
     \/ /\ FrontierCheck(arg[c]).universOuvert
        /\ Goto(c, "authority")
        /\ UNCHANGED dec
  /\ UNCHANGED <<now, arg, start, guardClock, auth, sens, inv>>

\* Step 1.
Frontier(c) ==
  /\ pc[c] = "frontier"
  /\ \/ /\ ~Inside(FrontierCheck(arg[c]))
        /\ Return(c, RefusDecision(arg[c], DiagFrontiereFranchie, NoScore, NoScore, NoScore))
     \/ /\ Inside(FrontierCheck(arg[c]))
        /\ Goto(c, "authority")
        /\ UNCHANGED dec
  /\ UNCHANGED <<now, arg, start, guardClock, auth, sens, inv>>

\* Mutant: the refusal of the lock does not trace the score it rests on.
AuthorityUntraced(c) ==
  LET a == ScoreDAuthority(arg[c])
  IN /\ pc[c] = "authority"
     /\ auth' = [auth EXCEPT ![c] = a]
     /\ \/ /\ LockCloses(arg[c], a)
           /\ Return(c, RefusDecision(arg[c], DiagVerrouOntologique, NoScore, NoScore, NoScore))
        \/ /\ ~LockCloses(arg[c], a)
           /\ Goto(c, "expiry")
           /\ UNCHANGED dec
     /\ UNCHANGED <<now, arg, start, guardClock, sens, inv>>

\* Step 2: the score is computed before the guard, to be traced by it.
Authority(c) ==
  LET a == ScoreDAuthority(arg[c])
  IN /\ pc[c] = "authority"
     /\ auth' = [auth EXCEPT ![c] = a]
     /\ \/ /\ LockCloses(arg[c], a)
           /\ Return(c, RefusDecision(arg[c], DiagVerrouOntologique, a, NoScore, NoScore))
        \/ /\ ~LockCloses(arg[c], a)
           /\ Goto(c, "expiry")
           /\ UNCHANGED dec
     /\ UNCHANGED <<now, arg, start, guardClock, sens, inv>>

\* Step 3: reads the clock; its refusal carries no score.
ExpiryCloses == HasProfile /\ Expired(DateRevision, now)

\* Mutant: an attestation lifts the expiry guard too.
ExpiryAttested(c) ==
  /\ pc[c] = "expiry"
  /\ guardClock' = [guardClock EXCEPT ![c] = now]
  /\ \/ /\ ExpiryCloses /\ ~arg[c].attestation
        /\ Return(c, RefusDecision(arg[c], DiagPeremptionProfile, NoScore, NoScore, NoScore))
     \/ /\ ~ExpiryCloses \/ arg[c].attestation
        /\ Goto(c, "score")
        /\ UNCHANGED dec
  /\ UNCHANGED <<now, arg, start, auth, sens, inv>>

Expiry(c) ==
  /\ pc[c] = "expiry"
  /\ guardClock' = [guardClock EXCEPT ![c] = now]
  /\ \/ /\ ExpiryCloses
        /\ Return(c, RefusDecision(arg[c], DiagPeremptionProfile, NoScore, NoScore, NoScore))
     \/ /\ ~ExpiryCloses
        /\ Goto(c, "score")
        /\ UNCHANGED dec
  /\ UNCHANGED <<now, arg, start, auth, sens, inv>>

\* Step 4: the LLM client answers or fails; on failure Decide returns the
\* zero Decision and the error.
Score(c) ==
  /\ pc[c] = "score"
  /\ \E answer \in Answers :
       \/ /\ answer = LLMError
          /\ Goto(c, "failed")
          /\ UNCHANGED <<sens, inv>>
       \/ /\ answer # LLMError
          /\ sens' = [sens EXCEPT ![c] = ScoreDSens(arg[c], answer)]
          /\ inv' = [inv EXCEPT ![c] = ScoreDInvariant(arg[c])]
          /\ Goto(c, "coherence")
  /\ UNCHANGED <<now, arg, start, guardClock, auth, dec>>

\* Mutants: a strict comparison in the guard, and an attestation that lifts it.
CoherenceBeyond(c) ==
  LET closes == sens[c] < Limits.sensCoherence /\ inv[c] > Limits.invCoherence
  IN /\ pc[c] = "coherence"
     /\ \/ /\ closes
           /\ Return(c, RefusDecision(arg[c], DiagIncoherenceI4, auth[c], sens[c], inv[c]))
        \/ /\ ~closes
           /\ Goto(c, "composite")
           /\ UNCHANGED dec
     /\ UNCHANGED <<now, arg, start, guardClock, auth, sens, inv>>

CoherenceAttested(c) ==
  LET closes == IsIncoherent(sens[c], inv[c], Limits) /\ ~arg[c].attestation
  IN /\ pc[c] = "coherence"
     /\ \/ /\ closes
           /\ Return(c, RefusDecision(arg[c], DiagIncoherenceI4, auth[c], sens[c], inv[c]))
        \/ /\ ~closes
           /\ Goto(c, "composite")
           /\ UNCHANGED dec
     /\ UNCHANGED <<now, arg, start, guardClock, auth, sens, inv>>

\* Step 5.
Coherence(c) ==
  /\ pc[c] = "coherence"
  /\ \/ /\ IsIncoherent(sens[c], inv[c], Limits)
        /\ Return(c, RefusDecision(arg[c], DiagIncoherenceI4, auth[c], sens[c], inv[c]))
     \/ /\ ~IsIncoherent(sens[c], inv[c], Limits)
        /\ Goto(c, "composite")
        /\ UNCHANGED dec
  /\ UNCHANGED <<now, arg, start, guardClock, auth, sens, inv>>

\* Steps 6 and 7.
Decision(c) ==
  /\ pc[c] = "composite"
  /\ dec' = [dec EXCEPT ![c] = DispatchDecision(arg[c], auth[c], sens[c], inv[c])]
  /\ Goto(c, "evaluate")
  /\ UNCHANGED <<now, arg, start, guardClock, auth, sens, inv>>

\* Mutant: step 8 revises the regime of a decision it observes a violation of.
EvaluateRevising(c) ==
  LET violated == Summary(arg[c], dec[c], now)
  IN /\ pc[c] = "evaluate"
     /\ Return(c, [dec[c] EXCEPT !.trace.unmodeledObservations = violated,
                                !.regime = IF violated = {} THEN @ ELSE "Refus"])
     /\ UNCHANGED <<now, arg, start, guardClock, auth, sens, inv>>

\* Step 8: observability only, then Decide returns.
Evaluate(c) ==
  /\ pc[c] = "evaluate"
  /\ Return(c, [dec[c] EXCEPT !.trace.unmodeledObservations = Summary(arg[c], dec[c], now)])
  /\ UNCHANGED <<now, arg, start, guardClock, auth, sens, inv>>

\* Environment: time passes.
Tick ==
  /\ now < MaxTime
  /\ now' = now + 1
  /\ UNCHANGED <<pc, arg, start, guardClock, auth, sens, inv, dec>>

Step(c) ==
  \/ Frontier(c)
  \/ Authority(c)
  \/ Expiry(c)
  \/ Score(c)
  \/ Coherence(c)
  \/ Decision(c)
  \/ Evaluate(c)

Next ==
  \/ \E c \in Callers : \/ \E x \in Exchanges : Call(c, x)
                        \/ Step(c)
                        \/ Take(c)
  \/ Tick

Spec == Init /\ [][Next]_vars

-----------------------------------------------------------------------------
Traces ==
  [exchangeId : {x.id : x \in Exchanges} \cup {""}, tauScore : Nat,
   frontier : {FrontierCheck(x) : x \in Exchanges}, thresholds : Thresholds,
   dAuthority : OptionalScores, dSens : OptionalScores,
   dInvariant : OptionalScores,
   unmodeledObservations : SUBSET {"I1", "I2", "I3", "I4", "I5"}]

Decisions ==
  [regime : Regimes \cup {"Unknown"},
   diagnostic : RefusalDiagnostics \cup {NoDiagnostic},
   profileVersion : {ProfileVersion, ""}, dateRevision : Nat, trace : Traces]

\* The type invariant of the dispatcher and of every call in progress.
TypeOK ==
  /\ now \in 1..MaxTime
  /\ pc \in [Callers -> PCs]
  /\ arg \in [Callers -> Exchanges]
  /\ start \in [Callers -> 0..MaxTime]
  /\ guardClock \in [Callers -> 0..MaxTime]
  /\ auth \in [Callers -> OptionalScores]
  /\ sens \in [Callers -> OptionalScores]
  /\ inv \in [Callers -> OptionalScores]
  /\ dec \in [Callers -> Decisions]

Returned(c) == pc[c] = "done"
Refused(c)  == dec[c].regime = "Refus"

\* What the trace of decision d must show for d to be auditable: the regime
\* and the diagnostic follow from the traced frontier, scores and thresholds
\* alone, without the exchange and without the dispatcher.
Auditable(d) ==
  LET tr == d.trace
      th == d.trace.thresholds
      scored == tr.dAuthority # NoScore /\ tr.dSens # NoScore /\ tr.dInvariant # NoScore
  IN /\ d.diagnostic = DiagFrontiereFranchie <=> ~Inside(tr.frontier)
     /\ d.diagnostic = DiagVerrouOntologique => tr.dAuthority >= th.authBlock
     /\ d.diagnostic = DiagIncoherenceI4 =>
          scored /\ IsIncoherent(tr.dSens, tr.dInvariant, th)
     /\ d.diagnostic = NoDiagnostic =>
          /\ scored
          /\ ~IsIncoherent(tr.dSens, tr.dInvariant, th)
          /\ (d.regime = "Probabiliste") <=> (tr.tauScore >= th.probabiliste * 1000)

\* Every decision Decide returns is explained by its own trace (Decision and
\* Trace, operator.go: "Always traced"), and it is a refusal exactly when it
\* carries a diagnostic (PRD 9.3).
TraceSupportsVerdict ==
  \A c \in Callers : Returned(c) =>
    /\ Refused(c) <=> dec[c].diagnostic # NoDiagnostic
    /\ Auditable(dec[c])

\* Anti-pattern 3: a call that begins when the profile is already past its
\* revision date is refused, whatever the exchange and the reasoner.
ExpiredAtCallIsRefused ==
  \A c \in Callers :
    Returned(c) /\ HasProfile /\ Expired(DateRevision, start[c]) => Refused(c)

\* The guards of steps 1 to 5 and the evaluators of step 8 are two codings
\* of the same invariants and read the clock apart.  They never disagree but
\* in one case: the revision date passed between step 3 and step 8.
ObservationsOnlyFromLateExpiry ==
  \A c \in Callers :
    Returned(c) /\ dec[c].trace.unmodeledObservations # {} =>
      /\ dec[c].trace.unmodeledObservations = {"I3"}
      /\ ~Refused(c)
      /\ ~Expired(DateRevision, start[c])
      /\ Expired(DateRevision, now)

\* An attestation lifts the ontological lock and changes nothing else: an
\* attested call is never locked out, and two calls that differ by it and got
\* the same answer from the reasoner agree unless a lock or expiry came first.
AttestationOnlyLiftsTheLock ==
  \A c, d \in Callers :
    /\ Returned(c) /\ arg[c].attestation => dec[c].diagnostic # DiagVerrouOntologique
    /\ /\ Returned(c) /\ Returned(d)
       /\ arg[c] = [arg[d] EXCEPT !.attestation = TRUE]
       /\ sens[c] = sens[d]
       /\ DiagPeremptionProfile \notin {dec[c].diagnostic, dec[d].diagnostic}
       /\ dec[d].diagnostic # DiagVerrouOntologique
       => /\ dec[c].regime = dec[d].regime
          /\ dec[c].diagnostic = dec[d].diagnostic

\* The order of the guards (dispatch.md, section 4): the reasoner, the costly
\* step, is consulted only for an exchange inside the frontier that the lock
\* lets through, and never by a call that began with an expired profile.
ReasonerConsultedLast ==
  [][\A c \in Callers :
       pc[c] = "score" /\ pc'[c] # pc[c] =>
         /\ Inside(FrontierCheck(arg[c]))
         /\ ~LockCloses(arg[c], ScoreDAuthority(arg[c]))
         /\ ~(HasProfile /\ Expired(DateRevision, start[c]))]_vars

-----------------------------------------------------------------------------
\* The dispatcher implements the atomic kernel: a call is busy until it
\* returns, and shows its regime and diagnostic only then.
PhaseOf(p) == CASE p = "done" -> "decided"
                [] p \in Steps -> "busy"
                [] OTHER -> p

VerdictOf(p, d) ==
  IF p = "done" THEN [regime |-> d.regime, diagnostic |-> d.diagnostic]
  ELSE [regime |-> "Unknown", diagnostic |-> NoDiagnostic]

K == INSTANCE Kernel WITH
       phase <- [c \in Callers |-> PhaseOf(pc[c])],
       question <- arg,
       since <- start,
       verdict <- [c \in Callers |-> VerdictOf(pc[c], dec[c])]

\* Refinement: every interleaving of calls and clock is one of the kernel's.
ImplementsKernel == K!KSpec

=============================================================================
