-------------------------- MODULE DispatcherProofs --------------------------
(***************************************************************************)
(* Proofs about Dispatcher: typing, the audit property of traces, the      *)
(* expiry guard, the refinement of Kernel, and the labels and the campaign *)
(* of Campaign, for every set of callers and exchanges, every profile,     *)
(* thresholds and length of time.                                          *)
(***************************************************************************)
EXTENDS Campaign, FiniteSetTheorems, TLAPS

-----------------------------------------------------------------------------
(* What the operators of the dimensions return.                            *)

\* An exchange has the fields its probes read.
LEMMA ExchangeFields ==
  ASSUME NEW x \in Exchanges
  PROVE  x.depth \in Int
BY ExchangesAssumption DEF ExchangeOver

LEMMA ScaleIsNat == Scale \in Nat
BY SMT DEF Scale

\* Clamping lands in the range of scores.
LEMMA ClampRange ==
  ASSUME NEW v \in Int
  PROVE  Clamp01(v) \in 0..Scale
BY ScaleIsNat DEF Clamp01

\* The three scores of an exchange are in [0, 1].
LEMMA AuthorityRange ==
  ASSUME NEW x \in Exchanges
  PROVE  ScoreDAuthority(x) \in 0..Scale
<1>1. ProbeChainDepth(x) \in Int
  BY ExchangeFields DEF ProbeChainDepth
<1>2. /\ ProbeCrossOrg(x) \in Int
      /\ Probe(~x.humanInLoop) \in Int
      /\ Probe(Dynamic(x)) \in Int
  BY DEF ProbeCrossOrg, Probe
<1>3. QED
  BY <1>1, <1>2, ClampRange, SMT DEF ScoreDAuthority

LEMMA SensRange ==
  ASSUME NEW x \in Exchanges, NEW answer \in Replies
  PROVE  ScoreDSens(x, answer) \in 0..Scale
<1>1. answer \in Int
  BY PolicyAssumption DEF Replies
<1>2. /\ Probe(~x.contract) \in Int
      /\ Probe(x.intent) \in Int
      /\ Probe(Dynamic(x)) \in Int
  BY DEF Probe
<1>3. QED
  BY <1>1, <1>2, ClampRange, SMT DEF ScoreDSens

LEMMA InvariantRange ==
  ASSUME NEW x \in Exchanges
  PROVE  ScoreDInvariant(x) \in 0..Scale
<1>1. /\ Probe(x.registry) \in Int
      /\ Probe(x.derived) \in Int
      /\ Probe(x.mediation \/ Dynamic(x)) \in Int
      /\ ProbeEnumeratedPlan(x) \in Int
  BY DEF Probe, ProbeEnumeratedPlan
<1>2. QED
  BY <1>1, ClampRange, SMT DEF ScoreDInvariant

-----------------------------------------------------------------------------
(* The decisions the dispatcher builds are decisions.                      *)

LEMMA SomeExchangeExists == SomeExchange \in Exchanges
BY ExchangesAssumption DEF SomeExchange

LEMMA ExchangeIds == ASSUME NEW x \in Exchanges PROVE x.id \in {y.id : y \in Exchanges}
OBVIOUS

LEMMA LimitsTraced == TraceThresholds \in Thresholds
BY PolicyAssumption, ScaleIsNat DEF TraceThresholds, Thresholds

\* The composite of scores in range is a natural number.
LEMMA CompositeRange ==
  ASSUME NEW s \in 0..Scale, NEW a \in 0..Scale, NEW i \in 0..Scale
  PROVE  Composite(s, a, i) \in Nat
<1>1. DimensionWeights \in [dSens : Nat, dAuthority : Nat, dInvariant : Nat]
  BY PolicyAssumption DEF DimensionWeights, HasProfile
<1>2. QED
  BY <1>1, ScaleIsNat DEF Composite

-----------------------------------------------------------------------------
(* The inductive invariant: what a call that has reached step p with       *)
(* exchange x, start st, clock reading g, scores a, s, i and decision d    *)
(* has established.                                                        *)

PastFrontier  == Steps \ {"frontier"}
PastLock      == PastFrontier \ {"authority"}
PastExpiry    == PastLock \ {"expiry"}
PastScores    == PastExpiry \ {"score"}
PastCoherence == PastScores \ {"coherence"}

ScoresOf(x, a, s, i) ==
  /\ a = ScoreDAuthority(x)
  /\ i = ScoreDInvariant(x)
  /\ \E answer \in Replies : s = ScoreDSens(x, answer)

Clocked(p, st, g, n) ==
  /\ st <= n
  /\ p \in PastExpiry => st <= g /\ g <= n

GuardsPassed(p, x, g, a, s, i) ==
  /\ p \in PastFrontier => Inside(FrontierCheck(x))
  /\ p \in PastLock => a = ScoreDAuthority(x) /\ ~LockCloses(x, a)
  /\ p \in PastExpiry => ~(HasProfile /\ Expired(DateRevision, g))
  /\ p \in PastScores => ScoresOf(x, a, s, i)
  /\ p \in PastCoherence => ~IsIncoherent(s, i, Limits)

Built(p, x, a, s, i, d) ==
  /\ p = "evaluate" => d = DispatchDecision(x, a, s, i)
  /\ p \notin {"evaluate", "done"} => d = NoDecision

\* The decision observed at instant t by step 8.
Observed(x, d, t) ==
  [d EXCEPT !.trace.unmodeledObservations = Summary(x, d, t)]

RefusedOutside(x, d) ==
  /\ ~Inside(FrontierCheck(x))
  /\ d = RefusDecision(x, DiagFrontiereFranchie, NoScore, NoScore, NoScore)

RefusedLocked(x, d) ==
  /\ Inside(FrontierCheck(x))
  /\ LockCloses(x, ScoreDAuthority(x))
  /\ d = RefusDecision(x, DiagVerrouOntologique, ScoreDAuthority(x), NoScore, NoScore)

RefusedExpired(x, st, g, n, d) ==
  /\ Inside(FrontierCheck(x))
  /\ ~LockCloses(x, ScoreDAuthority(x))
  /\ st <= g /\ g <= n
  /\ HasProfile /\ Expired(DateRevision, g)
  /\ d = RefusDecision(x, DiagPeremptionProfile, NoScore, NoScore, NoScore)

RefusedIncoherent(x, st, g, n, a, s, i, d) ==
  /\ Inside(FrontierCheck(x))
  /\ ScoresOf(x, a, s, i)
  /\ ~LockCloses(x, a)
  /\ st <= g /\ g <= n
  /\ ~(HasProfile /\ Expired(DateRevision, g))
  /\ IsIncoherent(s, i, Limits)
  /\ d = RefusDecision(x, DiagIncoherenceI4, a, s, i)

Dispatched(x, st, g, n, a, s, i, d) ==
  /\ Inside(FrontierCheck(x))
  /\ ScoresOf(x, a, s, i)
  /\ ~LockCloses(x, a)
  /\ ~IsIncoherent(s, i, Limits)
  /\ st <= g
  /\ ~(HasProfile /\ Expired(DateRevision, g))
  /\ \E t \in g..n : d = Observed(x, DispatchDecision(x, a, s, i), t)

Outcome(p, x, st, g, n, a, s, i, d) ==
  p = "done" =>
    \/ RefusedOutside(x, d)
    \/ RefusedLocked(x, d)
    \/ RefusedExpired(x, st, g, n, d)
    \/ RefusedIncoherent(x, st, g, n, a, s, i, d)
    \/ Dispatched(x, st, g, n, a, s, i, d)

CallOK(p, x, st, g, n, a, s, i, d) ==
  /\ Clocked(p, st, g, n)
  /\ GuardsPassed(p, x, g, a, s, i)
  /\ Built(p, x, a, s, i, d)
  /\ Outcome(p, x, st, g, n, a, s, i, d)

CallInv(c) ==
  CallOK(pc[c], arg[c], start[c], guardClock[c], now, auth[c], sens[c], inv[c], dec[c])

IInv == TypeOK /\ \A c \in Callers : CallInv(c)

-----------------------------------------------------------------------------
(* Typing of the decisions.                                                *)

LEMMA RefusDecisionTyped ==
  ASSUME NEW x \in Exchanges, NEW d \in RefusalDiagnostics,
         NEW a \in OptionalScores, NEW s \in OptionalScores, NEW i \in OptionalScores
  PROVE  RefusDecision(x, d, a, s, i) \in Decisions
<1>1. x.id \in {y.id : y \in Exchanges}
  BY ExchangeIds
<1>2. FrontierCheck(x) \in {FrontierCheck(y) : y \in Exchanges}
  OBVIOUS
<1>3. QED
  BY <1>1, <1>2, LimitsTraced
     DEF RefusDecision, Decisions, Traces, Regimes, ZeroDate

LEMMA NoDecisionTyped == NoDecision \in Decisions
<1>1. FrontierCheck(SomeExchange) \in {FrontierCheck(y) : y \in Exchanges}
  BY SomeExchangeExists
<1>2. NoScore \in OptionalScores
  BY ScaleIsNat DEF NoScore, OptionalScores
<1>3. QED
  BY <1>1, <1>2, LimitsTraced
     DEF NoDecision, Decisions, Traces, ZeroDate

LEMMA StampTyped == DateRevision \in Nat
BY PolicyAssumption DEF DateRevision, HasProfile, ZeroDate

\* A score is a possible score pointer.
LEMMA ScoreIsOptional == 0..Scale \subseteq OptionalScores /\ NoScore \in OptionalScores
BY ScaleIsNat DEF OptionalScores, NoScore

LEMMA DispatchDecisionTyped ==
  ASSUME NEW x \in Exchanges, NEW a \in 0..Scale, NEW s \in 0..Scale, NEW i \in 0..Scale
  PROVE  DispatchDecision(x, a, s, i) \in Decisions
<1>1. x.id \in {y.id : y \in Exchanges}
  BY ExchangeIds
<1>2. FrontierCheck(x) \in {FrontierCheck(y) : y \in Exchanges}
  OBVIOUS
<1>3. Composite(s, a, i) \in Nat
  BY CompositeRange
<1>4. RegimeOf(Composite(s, a, i)) \in Regimes
  BY DEF RegimeOf, Regimes
<1>5. a \in OptionalScores /\ s \in OptionalScores /\ i \in OptionalScores
  BY ScoreIsOptional
<1>6. QED
  BY <1>1, <1>2, <1>3, <1>4, <1>5, LimitsTraced, StampTyped
     DEF DispatchDecision, Decisions, Traces

\* Step 8 touches the observations only.
LEMMA ObservedTyped ==
  ASSUME NEW x, NEW t, NEW d \in Decisions
  PROVE  Observed(x, d, t) \in Decisions
<1>1. Summary(x, d, t) \in SUBSET {"I1", "I2", "I3", "I4", "I5"}
  BY DEF Summary
<1>2. QED
  BY <1>1 DEF Observed, Decisions, Traces

-----------------------------------------------------------------------------
(* What a call has established survives the passage of time.               *)

LEMMA TimePreserves ==
  ASSUME NEW p, NEW x, NEW st \in Int, NEW g \in Int, NEW n \in Int, NEW m \in Int,
         NEW a, NEW s, NEW i, NEW d,
         n <= m, CallOK(p, x, st, g, n, a, s, i, d)
  PROVE  CallOK(p, x, st, g, m, a, s, i, d)
<1>1. Clocked(p, st, g, m)
  BY DEF CallOK, Clocked
<1>2. Outcome(p, x, st, g, m, a, s, i, d)
  <2>1. ASSUME Dispatched(x, st, g, n, a, s, i, d)
        PROVE  Dispatched(x, st, g, m, a, s, i, d)
    BY <2>1 DEF Dispatched
  <2>2. ASSUME RefusedExpired(x, st, g, n, d)
        PROVE  RefusedExpired(x, st, g, m, d)
    BY <2>2 DEF RefusedExpired
  <2>3. ASSUME RefusedIncoherent(x, st, g, n, a, s, i, d)
        PROVE  RefusedIncoherent(x, st, g, m, a, s, i, d)
    BY <2>3 DEF RefusedIncoherent
  <2>4. QED
    BY <2>1, <2>2, <2>3 DEF CallOK, Outcome
<1>3. QED
  BY <1>1, <1>2 DEF CallOK

-----------------------------------------------------------------------------
(* Types and the inductive invariant are preserved, action by action.      *)

\* A step of one call leaves the clock and the other calls alone.
LEMMA OthersUntouched ==
  ASSUME TypeOK, NEW c \in Callers, NEW d \in Callers, d # c, CallInv(d),
         Step(c) \/ Take(c) \/ (\E x \in Exchanges : Call(c, x))
  PROVE  CallInv(d)'
<1>1. /\ now' = now
      /\ pc'[d] = pc[d]
      /\ arg'[d] = arg[d]
      /\ start'[d] = start[d]
      /\ guardClock'[d] = guardClock[d]
  BY DEF TypeOK, Step, Take, Call, Frontier, Authority, Expiry, Score, Coherence,
         Decision, Evaluate, Return, Goto
<1>2. /\ auth'[d] = auth[d]
      /\ sens'[d] = sens[d]
      /\ inv'[d] = inv[d]
      /\ dec'[d] = dec[d]
  BY DEF TypeOK, Step, Take, Call, Frontier, Authority, Expiry, Score, Coherence,
         Decision, Evaluate, Return, Goto
<1>3. QED
  BY <1>1, <1>2 DEF CallInv

LEMMA InitInv == Init => IInv
<1> SUFFICES ASSUME Init PROVE IInv
  OBVIOUS
<1>1. TypeOK
  BY PolicyAssumption, NoDecisionTyped, ScoreIsOptional, SomeExchangeExists
     DEF Init, TypeOK, PCs
<1>2. ASSUME NEW c \in Callers PROVE CallInv(c)
  <2>1. pc[c] = "idle" /\ start[c] = 0 /\ now = 1 /\ dec[c] = NoDecision
    BY DEF Init
  <2>2. QED
    BY <2>1 DEF CallInv, CallOK, Clocked, GuardsPassed, Built, Outcome, Steps,
                PastFrontier, PastLock, PastExpiry, PastScores, PastCoherence
<1>3. QED
  BY <1>1, <1>2 DEF IInv

LEMMA CallPreserves ==
  ASSUME IInv, NEW c \in Callers, NEW x \in Exchanges, Call(c, x)
  PROVE  IInv'
<1>1. TypeOK'
  BY DEF IInv, TypeOK, Call, Goto, PCs, Steps
<1>2. CallInv(c)'
  <2>1. /\ pc'[c] = "frontier" /\ start'[c] = now /\ now' = now
        /\ dec'[c] = dec[c] /\ dec[c] = NoDecision
    BY DEF IInv, TypeOK, Call, Goto, CallInv, CallOK, Built
  <2>2. now <= now
    BY DEF IInv, TypeOK
  <2>3. QED
    BY <2>1, <2>2 DEF CallInv, CallOK, Clocked, GuardsPassed, Built, Outcome, Steps,
                PastFrontier, PastLock, PastExpiry, PastScores, PastCoherence
<1>3. ASSUME NEW d \in Callers, d # c PROVE CallInv(d)'
  BY <1>3, OthersUntouched DEF IInv
<1>4. QED
  BY <1>1, <1>2, <1>3 DEF IInv

LEMMA TakePreserves ==
  ASSUME IInv, NEW c \in Callers, Take(c)
  PROVE  IInv'
<1>1. TypeOK'
  BY PolicyAssumption, NoDecisionTyped, ScoreIsOptional, SomeExchangeExists
     DEF IInv, TypeOK, Take, Goto, PCs
<1>2. CallInv(c)'
  <2>1. /\ pc'[c] = "idle" /\ start'[c] = 0 /\ now' \in 1..MaxTime
        /\ dec'[c] = NoDecision
    BY DEF IInv, TypeOK, Take, Goto
  <2>2. QED
    BY <2>1 DEF CallInv, CallOK, Clocked, GuardsPassed, Built, Outcome, Steps,
                PastFrontier, PastLock, PastExpiry, PastScores, PastCoherence
<1>3. ASSUME NEW d \in Callers, d # c PROVE CallInv(d)'
  BY <1>3, OthersUntouched DEF IInv
<1>4. QED
  BY <1>1, <1>2, <1>3 DEF IInv

LEMMA TickPreserves ==
  ASSUME IInv, Tick
  PROVE  IInv'
<1>1. TypeOK'
  BY PolicyAssumption DEF IInv, TypeOK, Tick
<1>2. ASSUME NEW c \in Callers PROVE CallInv(c)'
  <2>1. /\ start[c] \in Int /\ guardClock[c] \in Int /\ now \in Int /\ now' \in Int
        /\ now <= now'
    BY PolicyAssumption DEF IInv, TypeOK, Tick
  <2>2. CallOK(pc[c], arg[c], start[c], guardClock[c], now, auth[c], sens[c], inv[c],
               dec[c])
    BY DEF IInv, CallInv
  <2>3. CallOK(pc[c], arg[c], start[c], guardClock[c], now', auth[c], sens[c], inv[c],
               dec[c])
    BY <2>1, <2>2, TimePreserves
  <2>4. QED
    BY <2>3 DEF CallInv, Tick
<1>3. QED
  BY <1>1, <1>2 DEF IInv
\* What step 1 to 8 of a call establish, given what it had established.

LEMMA FrontierPreserves ==
  ASSUME IInv, NEW c \in Callers, Frontier(c)
  PROVE  IInv'
<1>a. CallInv(c) /\ arg[c] \in Exchanges /\ pc[c] \in PCs
  BY DEF IInv, TypeOK
<1>1. TypeOK'
  <2>1. RefusDecision(arg[c], DiagFrontiereFranchie, NoScore, NoScore, NoScore) \in Decisions
    BY <1>a, RefusDecisionTyped, ScoreIsOptional DEF RefusalDiagnostics
  <2>2. QED
    BY <2>1 DEF IInv, TypeOK, Frontier, Return, Goto, PCs, Steps
<1>2. CallInv(c)'
  <2>1. /\ arg'[c] = arg[c] /\ start'[c] = start[c] /\ now' = now
        /\ pc[c] = "frontier" /\ dec[c] = NoDecision /\ start[c] <= now
    BY <1>a DEF Frontier, CallInv, CallOK, Clocked, Built
  <2>2. CASE ~Inside(FrontierCheck(arg[c]))
    <3>1. /\ pc'[c] = "done"
          /\ dec'[c] = RefusDecision(arg[c], DiagFrontiereFranchie, NoScore, NoScore, NoScore)
      BY <2>2 DEF Frontier, Return, Goto, IInv, TypeOK
    <3>2. RefusedOutside(arg'[c], dec'[c])
      BY <2>1, <2>2, <3>1 DEF RefusedOutside
    <3>3. QED
      BY <2>1, <3>1, <3>2
         DEF CallInv, CallOK, Clocked, GuardsPassed, Built, Outcome, Steps,
                PastFrontier, PastLock, PastExpiry, PastScores, PastCoherence
  <2>3. CASE Inside(FrontierCheck(arg[c]))
    <3>1. pc'[c] = "authority" /\ dec'[c] = dec[c]
      BY <2>3 DEF Frontier, Goto, IInv, TypeOK
    <3>2. QED
      BY <2>1, <2>3, <3>1
         DEF CallInv, CallOK, Clocked, GuardsPassed, Built, Outcome, Steps,
                PastFrontier, PastLock, PastExpiry, PastScores, PastCoherence
  <2>4. QED
    BY <2>2, <2>3
<1>3. ASSUME NEW d \in Callers, d # c PROVE CallInv(d)'
  BY <1>3, OthersUntouched DEF IInv, Step
<1>4. QED
  BY <1>1, <1>2, <1>3 DEF IInv

LEMMA AuthorityPreserves ==
  ASSUME IInv, NEW c \in Callers, Authority(c)
  PROVE  IInv'
<1>a. CallInv(c) /\ arg[c] \in Exchanges /\ pc[c] \in PCs
  BY DEF IInv, TypeOK
<1>1. TypeOK'
  <2>1. ScoreDAuthority(arg[c]) \in OptionalScores
    BY <1>a, AuthorityRange, ScoreIsOptional
  <2>2. RefusDecision(arg[c], DiagVerrouOntologique, ScoreDAuthority(arg[c]),
                      NoScore, NoScore) \in Decisions
    BY <1>a, <2>1, RefusDecisionTyped, ScoreIsOptional DEF RefusalDiagnostics
  <2>3. QED
    BY <2>1, <2>2 DEF IInv, TypeOK, Authority, Return, Goto, PCs, Steps
<1>2. CallInv(c)'
  <2>1. /\ arg'[c] = arg[c] /\ start'[c] = start[c] /\ now' = now
        /\ pc[c] = "authority" /\ dec[c] = NoDecision /\ start[c] <= now
        /\ Inside(FrontierCheck(arg[c]))
        /\ auth'[c] = ScoreDAuthority(arg[c])
    BY <1>a DEF Authority, IInv, TypeOK, CallInv, CallOK, Clocked, Built, GuardsPassed,
                PastFrontier, Steps
  <2>2. CASE LockCloses(arg[c], ScoreDAuthority(arg[c]))
    <3>1. /\ pc'[c] = "done"
          /\ dec'[c] = RefusDecision(arg[c], DiagVerrouOntologique,
                                     ScoreDAuthority(arg[c]), NoScore, NoScore)
      BY <2>2 DEF Authority, Return, Goto, IInv, TypeOK
    <3>2. RefusedLocked(arg'[c], dec'[c])
      BY <2>1, <2>2, <3>1 DEF RefusedLocked
    <3>3. QED
      BY <2>1, <3>1, <3>2
         DEF CallInv, CallOK, Clocked, GuardsPassed, Built, Outcome, Steps,
                PastFrontier, PastLock, PastExpiry, PastScores, PastCoherence
  <2>3. CASE ~LockCloses(arg[c], ScoreDAuthority(arg[c]))
    <3>1. pc'[c] = "expiry" /\ dec'[c] = dec[c]
      BY <2>3 DEF Authority, Goto, IInv, TypeOK
    <3>2. QED
      BY <2>1, <2>3, <3>1
         DEF CallInv, CallOK, Clocked, GuardsPassed, Built, Outcome, Steps,
                PastFrontier, PastLock, PastExpiry, PastScores, PastCoherence
  <2>4. QED
    BY <2>2, <2>3
<1>3. ASSUME NEW d \in Callers, d # c PROVE CallInv(d)'
  BY <1>3, OthersUntouched DEF IInv, Step
<1>4. QED
  BY <1>1, <1>2, <1>3 DEF IInv

LEMMA ExpiryPreserves ==
  ASSUME IInv, NEW c \in Callers, Expiry(c)
  PROVE  IInv'
<1>a. CallInv(c) /\ arg[c] \in Exchanges /\ pc[c] \in PCs
  BY DEF IInv, TypeOK
<1>1. TypeOK'
  <2>1. RefusDecision(arg[c], DiagPeremptionProfile, NoScore, NoScore, NoScore) \in Decisions
    BY <1>a, RefusDecisionTyped, ScoreIsOptional DEF RefusalDiagnostics
  <2>2. now \in 0..MaxTime
    BY PolicyAssumption DEF IInv, TypeOK
  <2>3. QED
    BY <2>1, <2>2 DEF IInv, TypeOK, Expiry, Return, Goto, PCs, Steps
<1>2. CallInv(c)'
  <2>1. /\ arg'[c] = arg[c] /\ start'[c] = start[c] /\ now' = now /\ auth'[c] = auth[c]
        /\ pc[c] = "expiry" /\ dec[c] = NoDecision /\ start[c] <= now
        /\ Inside(FrontierCheck(arg[c]))
        /\ auth[c] = ScoreDAuthority(arg[c])
        /\ ~LockCloses(arg[c], auth[c])
        /\ guardClock'[c] = now /\ now <= now
    BY <1>a DEF Expiry, IInv, TypeOK, CallInv, CallOK, Clocked, Built, GuardsPassed,
                PastFrontier, PastLock, Steps
  <2>2. CASE ExpiryCloses
    <3>1. /\ pc'[c] = "done"
          /\ dec'[c] = RefusDecision(arg[c], DiagPeremptionProfile, NoScore, NoScore, NoScore)
      BY <2>2 DEF Expiry, Return, Goto, IInv, TypeOK
    <3>2. RefusedExpired(arg'[c], start'[c], guardClock'[c], now', dec'[c])
      BY <2>1, <2>2, <3>1 DEF RefusedExpired, ExpiryCloses
    <3>3. QED
      BY <2>1, <3>1, <3>2
         DEF CallInv, CallOK, Clocked, GuardsPassed, Built, Outcome, Steps,
                PastFrontier, PastLock, PastExpiry, PastScores, PastCoherence
  <2>3. CASE ~ExpiryCloses
    <3>1. pc'[c] = "score" /\ dec'[c] = dec[c]
      BY <2>3 DEF Expiry, Goto, IInv, TypeOK
    <3>2. ~(HasProfile /\ Expired(DateRevision, guardClock'[c]))
      BY <2>1, <2>3 DEF ExpiryCloses
    <3>3. QED
      BY <2>1, <3>1, <3>2
         DEF CallInv, CallOK, Clocked, GuardsPassed, Built, Outcome, Steps,
                PastFrontier, PastLock, PastExpiry, PastScores, PastCoherence
  <2>4. QED
    BY <2>2, <2>3
<1>3. ASSUME NEW d \in Callers, d # c PROVE CallInv(d)'
  BY <1>3, OthersUntouched DEF IInv, Step
<1>4. QED
  BY <1>1, <1>2, <1>3 DEF IInv

LEMMA ScorePreserves ==
  ASSUME IInv, NEW c \in Callers, Score(c)
  PROVE  IInv'
<1>a. CallInv(c) /\ arg[c] \in Exchanges /\ pc[c] \in PCs
  BY DEF IInv, TypeOK
<1>1. TypeOK'
  <2>1. ASSUME NEW answer \in Replies
        PROVE  /\ ScoreDSens(arg[c], answer) \in OptionalScores
               /\ ScoreDInvariant(arg[c]) \in OptionalScores
    BY <1>a, SensRange, InvariantRange, ScoreIsOptional
  <2>2. QED
    BY <2>1 DEF IInv, TypeOK, Score, Goto, PCs, Steps, Replies
<1>2. CallInv(c)'
  <2>1. /\ arg'[c] = arg[c] /\ start'[c] = start[c] /\ now' = now /\ auth'[c] = auth[c]
        /\ guardClock'[c] = guardClock[c]
        /\ start[c] <= guardClock[c] /\ guardClock[c] <= now /\ start[c] <= now
        /\ Inside(FrontierCheck(arg[c]))
        /\ auth[c] = ScoreDAuthority(arg[c])
        /\ ~LockCloses(arg[c], auth[c])
        /\ ~(HasProfile /\ Expired(DateRevision, guardClock[c]))
        /\ pc[c] = "score" /\ dec[c] = NoDecision /\ dec'[c] = dec[c]
    BY <1>a DEF Score, IInv, TypeOK, CallInv, CallOK, Clocked, Built, GuardsPassed,
                PastFrontier, PastLock, PastExpiry, PastScores, PastCoherence, Steps
  <2>2. CASE pc'[c] = "failed"
    BY <2>1, <2>2
         DEF CallInv, CallOK, Clocked, GuardsPassed, Built, Outcome, Steps,
                PastFrontier, PastLock, PastExpiry, PastScores, PastCoherence
  <2>3. CASE pc'[c] # "failed"
    <3>1. PICK answer \in Replies :
            /\ sens'[c] = ScoreDSens(arg[c], answer)
            /\ inv'[c] = ScoreDInvariant(arg[c])
            /\ pc'[c] = "coherence"
      BY <2>3 DEF Score, Goto, Replies, IInv, TypeOK
    <3>2. ScoresOf(arg'[c], auth'[c], sens'[c], inv'[c])
      BY <2>1, <3>1 DEF ScoresOf
    <3>3. QED
      BY <2>1, <3>1, <3>2
         DEF CallInv, CallOK, Clocked, GuardsPassed, Built, Outcome, Steps,
                PastFrontier, PastLock, PastExpiry, PastScores, PastCoherence
  <2>4. QED
    BY <2>2, <2>3
<1>3. ASSUME NEW d \in Callers, d # c PROVE CallInv(d)'
  BY <1>3, OthersUntouched DEF IInv, Step
<1>4. QED
  BY <1>1, <1>2, <1>3 DEF IInv

LEMMA CoherencePreserves ==
  ASSUME IInv, NEW c \in Callers, Coherence(c)
  PROVE  IInv'
<1>a. CallInv(c) /\ arg[c] \in Exchanges /\ pc[c] \in PCs
  BY DEF IInv, TypeOK
<1>1. TypeOK'
  <2>1. RefusDecision(arg[c], DiagIncoherenceI4, auth[c], sens[c], inv[c]) \in Decisions
    BY <1>a, RefusDecisionTyped DEF RefusalDiagnostics, IInv, TypeOK
  <2>2. QED
    BY <2>1 DEF IInv, TypeOK, Coherence, Return, Goto, PCs, Steps
<1>2. CallInv(c)'
  <2>1. /\ arg'[c] = arg[c] /\ start'[c] = start[c] /\ now' = now /\ auth'[c] = auth[c]
        /\ guardClock'[c] = guardClock[c]
        /\ start[c] <= guardClock[c] /\ guardClock[c] <= now /\ start[c] <= now
        /\ Inside(FrontierCheck(arg[c]))
        /\ auth[c] = ScoreDAuthority(arg[c])
        /\ ~LockCloses(arg[c], auth[c])
        /\ ~(HasProfile /\ Expired(DateRevision, guardClock[c]))
        /\ sens'[c] = sens[c] /\ inv'[c] = inv[c]
        /\ ScoresOf(arg[c], auth[c], sens[c], inv[c])
        /\ pc[c] = "coherence" /\ dec[c] = NoDecision
    BY <1>a DEF Coherence, IInv, TypeOK, CallInv, CallOK, Clocked, Built, GuardsPassed,
                PastFrontier, PastLock, PastExpiry, PastScores, PastCoherence, Steps
  <2>2. CASE IsIncoherent(sens[c], inv[c], Limits)
    <3>1. /\ pc'[c] = "done"
          /\ dec'[c] = RefusDecision(arg[c], DiagIncoherenceI4, auth[c], sens[c], inv[c])
      BY <2>2 DEF Coherence, Return, Goto, IInv, TypeOK
    <3>2. RefusedIncoherent(arg'[c], start'[c], guardClock'[c], now', auth'[c],
                            sens'[c], inv'[c], dec'[c])
      BY <2>1, <2>2, <3>1 DEF RefusedIncoherent
    <3>3. QED
      BY <2>1, <3>1, <3>2
         DEF CallInv, CallOK, Clocked, GuardsPassed, Built, Outcome, Steps,
                PastFrontier, PastLock, PastExpiry, PastScores, PastCoherence
  <2>3. CASE ~IsIncoherent(sens[c], inv[c], Limits)
    <3>1. pc'[c] = "composite" /\ dec'[c] = dec[c]
      BY <2>3 DEF Coherence, Goto, IInv, TypeOK
    <3>2. QED
      BY <2>1, <2>3, <3>1
         DEF CallInv, CallOK, Clocked, GuardsPassed, Built, Outcome, Steps,
                PastFrontier, PastLock, PastExpiry, PastScores, PastCoherence
  <2>4. QED
    BY <2>2, <2>3
<1>3. ASSUME NEW d \in Callers, d # c PROVE CallInv(d)'
  BY <1>3, OthersUntouched DEF IInv, Step
<1>4. QED
  BY <1>1, <1>2, <1>3 DEF IInv

LEMMA DecisionPreserves ==
  ASSUME IInv, NEW c \in Callers, Decision(c)
  PROVE  IInv'
<1>a. CallInv(c) /\ arg[c] \in Exchanges /\ pc[c] \in PCs
  BY DEF IInv, TypeOK
<1>1. TypeOK'
  <2>1. ScoresOf(arg[c], auth[c], sens[c], inv[c])
    BY <1>a DEF Decision, CallInv, CallOK, GuardsPassed, PastFrontier, PastLock, PastExpiry,
                PastScores, Steps
  <2>2. auth[c] \in 0..Scale /\ sens[c] \in 0..Scale /\ inv[c] \in 0..Scale
    BY <1>a, <2>1, AuthorityRange, SensRange, InvariantRange DEF ScoresOf
  <2>3. DispatchDecision(arg[c], auth[c], sens[c], inv[c]) \in Decisions
    BY <1>a, <2>2, DispatchDecisionTyped
  <2>4. QED
    BY <2>3 DEF IInv, TypeOK, Decision, Goto, PCs, Steps
<1>2. CallInv(c)'
  <2>1. /\ arg'[c] = arg[c] /\ start'[c] = start[c] /\ now' = now /\ auth'[c] = auth[c]
        /\ guardClock'[c] = guardClock[c]
        /\ start[c] <= guardClock[c] /\ guardClock[c] <= now /\ start[c] <= now
        /\ Inside(FrontierCheck(arg[c]))
        /\ auth[c] = ScoreDAuthority(arg[c])
        /\ ~LockCloses(arg[c], auth[c])
        /\ ~(HasProfile /\ Expired(DateRevision, guardClock[c]))
        /\ sens'[c] = sens[c] /\ inv'[c] = inv[c]
        /\ ScoresOf(arg[c], auth[c], sens[c], inv[c])
        /\ ~IsIncoherent(sens[c], inv[c], Limits)
        /\ pc[c] = "composite"
    BY <1>a DEF Decision, IInv, TypeOK, CallInv, CallOK, Clocked, Built, GuardsPassed,
                PastFrontier, PastLock, PastExpiry, PastScores, PastCoherence, Steps
  <2>2. pc'[c] = "evaluate" /\ dec'[c] = DispatchDecision(arg[c], auth[c], sens[c], inv[c])
    BY DEF Decision, Goto, IInv, TypeOK
  <2>3. QED
    BY <2>1, <2>2
       DEF CallInv, CallOK, Clocked, GuardsPassed, Built, Outcome, Steps,
                PastFrontier, PastLock, PastExpiry, PastScores, PastCoherence
<1>3. ASSUME NEW d \in Callers, d # c PROVE CallInv(d)'
  BY <1>3, OthersUntouched DEF IInv, Step
<1>4. QED
  BY <1>1, <1>2, <1>3 DEF IInv

LEMMA EvaluatePreserves ==
  ASSUME IInv, NEW c \in Callers, Evaluate(c)
  PROVE  IInv'
<1>a. CallInv(c) /\ arg[c] \in Exchanges /\ pc[c] \in PCs
  BY DEF IInv, TypeOK
<1>1. TypeOK'
  <2>1. Observed(arg[c], dec[c], now) \in Decisions
    BY ObservedTyped DEF IInv, TypeOK
  <2>2. QED
    BY <2>1 DEF IInv, TypeOK, Evaluate, Return, Goto, PCs, Observed
<1>2. CallInv(c)'
  <2>1. /\ arg'[c] = arg[c] /\ start'[c] = start[c] /\ now' = now /\ auth'[c] = auth[c]
        /\ guardClock'[c] = guardClock[c]
        /\ start[c] <= guardClock[c] /\ guardClock[c] <= now /\ start[c] <= now
        /\ Inside(FrontierCheck(arg[c]))
        /\ auth[c] = ScoreDAuthority(arg[c])
        /\ ~LockCloses(arg[c], auth[c])
        /\ ~(HasProfile /\ Expired(DateRevision, guardClock[c]))
        /\ sens'[c] = sens[c] /\ inv'[c] = inv[c]
        /\ ScoresOf(arg[c], auth[c], sens[c], inv[c])
        /\ ~IsIncoherent(sens[c], inv[c], Limits)
        /\ pc[c] = "evaluate"
        /\ dec[c] = DispatchDecision(arg[c], auth[c], sens[c], inv[c])
    BY <1>a DEF Evaluate, IInv, TypeOK, CallInv, CallOK, Clocked, Built, GuardsPassed,
                PastFrontier, PastLock, PastExpiry, PastScores, PastCoherence, Steps
  <2>2. pc'[c] = "done" /\ dec'[c] = Observed(arg[c], dec[c], now)
    BY DEF Evaluate, Return, Goto, Observed, IInv, TypeOK
  <2>3. now \in guardClock[c]..now
    BY <2>1 DEF IInv, TypeOK
  <2>4. Dispatched(arg'[c], start'[c], guardClock'[c], now', auth'[c], sens'[c], inv'[c],
                   dec'[c])
    BY <2>1, <2>2, <2>3 DEF Dispatched
  <2>5. QED
    BY <2>1, <2>2, <2>4
       DEF CallInv, CallOK, Clocked, GuardsPassed, Built, Outcome, Steps,
                PastFrontier, PastLock, PastExpiry, PastScores, PastCoherence
<1>3. ASSUME NEW d \in Callers, d # c PROVE CallInv(d)'
  BY <1>3, OthersUntouched DEF IInv, Step
<1>4. QED
  BY <1>1, <1>2, <1>3 DEF IInv

\* IInv is an invariant of the dispatcher.
THEOREM Inductive == Spec => []IInv
<1>1. ASSUME IInv, [Next]_vars PROVE IInv'
  <2>1. CASE UNCHANGED vars
    BY <2>1, <1>1 DEF vars, IInv, TypeOK, CallInv
  <2>2. CASE Next
    BY <2>2, <1>1, CallPreserves, TakePreserves, TickPreserves, FrontierPreserves,
       AuthorityPreserves, ExpiryPreserves, ScorePreserves, CoherencePreserves,
       DecisionPreserves, EvaluatePreserves
       DEF Next, Step
  <2>3. QED
    BY <1>1, <2>1, <2>2
<1>2. QED
  BY InitInv, <1>1, PTL DEF Spec

\* The type invariant holds of every execution.
THEOREM TypeCorrect == Spec => []TypeOK
<1>1. IInv => TypeOK
  BY DEF IInv
<1>2. QED
  BY <1>1, Inductive, PTL
-----------------------------------------------------------------------------
(* What the invariant says of a returned call.                             *)

\* How a call that has returned came to its decision.
LEMMA ReturnedOutcome ==
  ASSUME IInv, NEW c \in Callers, Returned(c)
  PROVE  \/ RefusedOutside(arg[c], dec[c])
         \/ RefusedLocked(arg[c], dec[c])
         \/ RefusedExpired(arg[c], start[c], guardClock[c], now, dec[c])
         \/ RefusedIncoherent(arg[c], start[c], guardClock[c], now, auth[c], sens[c],
                              inv[c], dec[c])
         \/ Dispatched(arg[c], start[c], guardClock[c], now, auth[c], sens[c], inv[c], dec[c])
BY DEF IInv, CallInv, CallOK, Outcome, Returned

\* A score in range is not nil.
LEMMA ScoreIsComputed == ASSUME NEW v \in 0..Scale PROVE v # NoScore
BY ScaleIsNat DEF NoScore

LEMMA ScoresComputed ==
  ASSUME NEW x \in Exchanges, NEW a, NEW s, NEW i, ScoresOf(x, a, s, i)
  PROVE  /\ a \in 0..Scale /\ s \in 0..Scale /\ i \in 0..Scale
         /\ a # NoScore /\ s # NoScore /\ i # NoScore
BY AuthorityRange, SensRange, InvariantRange, ScoreIsComputed DEF ScoresOf

\* The fields of an observed dispatch that no evaluator touches.
LEMMA ObservedFields ==
  ASSUME NEW x, NEW a, NEW s, NEW i, NEW t, NEW d,
         d = Observed(x, DispatchDecision(x, a, s, i), t)
  PROVE  /\ d.regime = RegimeOf(Composite(s, a, i))
         /\ d.regime # "Refus"
         /\ d.diagnostic = NoDiagnostic
         /\ d.trace.tauScore = Composite(s, a, i)
         /\ d.trace.frontier = FrontierCheck(x)
         /\ d.trace.thresholds = TraceThresholds
         /\ d.trace.dAuthority = a /\ d.trace.dSens = s /\ d.trace.dInvariant = i
         /\ d.trace.unmodeledObservations = Summary(x, DispatchDecision(x, a, s, i), t)
BY DEF Observed, DispatchDecision, RegimeOf

\* The fields of a refusal.
LEMMA RefusalFields ==
  ASSUME NEW x, NEW diagnostic, NEW a, NEW s, NEW i, NEW d,
         d = RefusDecision(x, diagnostic, a, s, i)
  PROVE  /\ d.regime = "Refus"
         /\ d.diagnostic = diagnostic
         /\ d.trace.frontier = FrontierCheck(x)
         /\ d.trace.thresholds = TraceThresholds
         /\ d.trace.dAuthority = a /\ d.trace.dSens = s /\ d.trace.dInvariant = i
         /\ d.trace.unmodeledObservations = {}
BY DEF RefusDecision

\* The thresholds of a trace are those of the guards.
LEMMA TracedLimits ==
  /\ TraceThresholds.authBlock = Limits.authBlock
  /\ TraceThresholds.probabiliste = Limits.probabiliste
  /\ TraceThresholds.sensCoherence = Limits.sensCoherence
  /\ TraceThresholds.invCoherence = Limits.invCoherence
BY PolicyAssumption DEF TraceThresholds, Thresholds

-----------------------------------------------------------------------------
(* Auditability.                                                           *)

LEMMA DiagnosticsDiffer ==
  /\ NoDiagnostic \notin RefusalDiagnostics
  /\ DiagFrontiereFranchie # DiagVerrouOntologique
  /\ DiagFrontiereFranchie # DiagPeremptionProfile
  /\ DiagFrontiereFranchie # DiagIncoherenceI4
  /\ DiagVerrouOntologique # DiagPeremptionProfile
  /\ DiagVerrouOntologique # DiagIncoherenceI4
  /\ DiagPeremptionProfile # DiagIncoherenceI4
BY DEF RefusalDiagnostics, NoDiagnostic, DiagFrontiereFranchie, DiagVerrouOntologique,
       DiagPeremptionProfile, DiagIncoherenceI4

LEMMA AuditableWhenReturned ==
  ASSUME IInv, NEW c \in Callers, Returned(c)
  PROVE  /\ Refused(c) <=> dec[c].diagnostic # NoDiagnostic
         /\ Auditable(dec[c])
<1>1. arg[c] \in Exchanges
  BY DEF IInv, TypeOK
<1>2. CASE RefusedOutside(arg[c], dec[c])
  <2>1. /\ dec[c].regime = "Refus" /\ dec[c].diagnostic = DiagFrontiereFranchie
        /\ ~Inside(dec[c].trace.frontier)
    BY <1>2, RefusalFields DEF RefusedOutside
  <2>2. QED
    BY <2>1, DiagnosticsDiffer DEF Refused, Auditable, RefusalDiagnostics
<1>3. CASE RefusedLocked(arg[c], dec[c])
  <2>1. /\ dec[c].regime = "Refus" /\ dec[c].diagnostic = DiagVerrouOntologique
        /\ Inside(dec[c].trace.frontier)
        /\ dec[c].trace.dAuthority = ScoreDAuthority(arg[c])
        /\ dec[c].trace.thresholds = TraceThresholds
    BY <1>3, RefusalFields DEF RefusedLocked
  <2>2. ScoreDAuthority(arg[c]) >= TraceThresholds.authBlock
    BY <1>3, TracedLimits DEF RefusedLocked, LockCloses
  <2>3. QED
    BY <2>1, <2>2, DiagnosticsDiffer DEF Refused, Auditable, RefusalDiagnostics
<1>4. CASE RefusedExpired(arg[c], start[c], guardClock[c], now, dec[c])
  <2>1. /\ dec[c].regime = "Refus" /\ dec[c].diagnostic = DiagPeremptionProfile
        /\ Inside(dec[c].trace.frontier)
    BY <1>4, RefusalFields DEF RefusedExpired
  <2>2. QED
    BY <2>1, DiagnosticsDiffer DEF Refused, Auditable, RefusalDiagnostics
<1>5. CASE RefusedIncoherent(arg[c], start[c], guardClock[c], now, auth[c], sens[c],
                              inv[c], dec[c])
  <2>1. /\ dec[c].regime = "Refus" /\ dec[c].diagnostic = DiagIncoherenceI4
        /\ Inside(dec[c].trace.frontier)
        /\ dec[c].trace.thresholds = TraceThresholds
        /\ dec[c].trace.dAuthority = auth[c]
        /\ dec[c].trace.dSens = sens[c]
        /\ dec[c].trace.dInvariant = inv[c]
    BY <1>5, RefusalFields DEF RefusedIncoherent
  <2>2. auth[c] # NoScore /\ sens[c] # NoScore /\ inv[c] # NoScore
    BY <1>1, <1>5, ScoresComputed DEF RefusedIncoherent
  <2>3. IsIncoherent(sens[c], inv[c], TraceThresholds)
    BY <1>5, TracedLimits DEF RefusedIncoherent, IsIncoherent
  <2>4. QED
    BY <2>1, <2>2, <2>3, DiagnosticsDiffer DEF Refused, Auditable, RefusalDiagnostics
<1>6. CASE Dispatched(arg[c], start[c], guardClock[c], now, auth[c], sens[c], inv[c], dec[c])
  <2>1. PICK t \in guardClock[c]..now :
          dec[c] = Observed(arg[c], DispatchDecision(arg[c], auth[c], sens[c], inv[c]), t)
    BY <1>6 DEF Dispatched
  <2>2. /\ dec[c].regime = RegimeOf(Composite(sens[c], auth[c], inv[c]))
        /\ dec[c].regime # "Refus"
        /\ dec[c].diagnostic = NoDiagnostic
        /\ dec[c].trace.tauScore = Composite(sens[c], auth[c], inv[c])
        /\ dec[c].trace.frontier = FrontierCheck(arg[c])
        /\ dec[c].trace.thresholds = TraceThresholds
        /\ dec[c].trace.dAuthority = auth[c]
        /\ dec[c].trace.dSens = sens[c]
        /\ dec[c].trace.dInvariant = inv[c]
    BY <2>1, ObservedFields
  <2>3. auth[c] # NoScore /\ sens[c] # NoScore /\ inv[c] # NoScore
    BY <1>1, <1>6, ScoresComputed DEF Dispatched
  <2>4. ~IsIncoherent(sens[c], inv[c], TraceThresholds)
    BY <1>6, TracedLimits DEF Dispatched, IsIncoherent
  <2>5. (dec[c].regime = "Probabiliste")
          <=> (dec[c].trace.tauScore >= TraceThresholds.probabiliste * 1000)
    BY <2>2, TracedLimits DEF RegimeOf
  <2>6. Inside(FrontierCheck(arg[c]))
    BY <1>6 DEF Dispatched
  <2>7. QED
    BY <2>2, <2>3, <2>4, <2>5, <2>6, DiagnosticsDiffer DEF Refused, Auditable, RefusalDiagnostics
<1>7. QED
  BY <1>2, <1>3, <1>4, <1>5, <1>6, ReturnedOutcome

\* Every decision Decide returns is explained by its own trace.
THEOREM DecisionsAreAuditable == Spec => []TraceSupportsVerdict
<1>1. IInv => TraceSupportsVerdict
  BY AuditableWhenReturned DEF TraceSupportsVerdict
<1>2. QED
  BY <1>1, Inductive, PTL

-----------------------------------------------------------------------------
(* Expiry.                                                                 *)

LEMMA RefusedWhenExpired ==
  ASSUME IInv, NEW c \in Callers, Returned(c), HasProfile, Expired(DateRevision, start[c])
  PROVE  Refused(c)
<1>1. CASE Dispatched(arg[c], start[c], guardClock[c], now, auth[c], sens[c], inv[c], dec[c])
  <2>1. Expired(DateRevision, guardClock[c])
    <3>1. start[c] \in Int /\ guardClock[c] \in Int /\ start[c] <= guardClock[c]
      BY <1>1 DEF Dispatched, IInv, TypeOK
    <3>2. QED
      BY <3>1, StampTyped DEF Expired
  <2>2. QED
    BY <1>1, <2>1 DEF Dispatched
<1>2. CASE ~Dispatched(arg[c], start[c], guardClock[c], now, auth[c], sens[c], inv[c], dec[c])
  BY <1>2, ReturnedOutcome, RefusalFields
     DEF RefusedOutside, RefusedLocked, RefusedExpired, RefusedIncoherent, Refused
<1>3. QED
  BY <1>1, <1>2

\* A call that begins after the revision date of the profile is refused.
THEOREM ExpiryIsHard == Spec => []ExpiredAtCallIsRefused
<1>1. IInv => ExpiredAtCallIsRefused
  BY RefusedWhenExpired DEF ExpiredAtCallIsRefused
<1>2. QED
  BY <1>1, Inductive, PTL

-----------------------------------------------------------------------------
(* The evaluators of step 8 against the guards.                            *)

\* A dispatched decision can violate I3 only, and only by late expiry.
LEMMA SummaryOfDispatch ==
  ASSUME NEW x \in Exchanges, NEW a, NEW s, NEW i, NEW t,
         Inside(FrontierCheck(x)), ScoresOf(x, a, s, i), ~LockCloses(x, a),
         ~IsIncoherent(s, i, Limits)
  PROVE  LET d == DispatchDecision(x, a, s, i)
         IN /\ Summary(x, d, t) \subseteq {"I3"}
            /\ "I3" \in Summary(x, d, t) => Expired(DateRevision, t)
<1> DEFINE d == DispatchDecision(x, a, s, i)
<1>1. /\ d.regime \in {"Probabiliste", "Deterministe"}
      /\ d.dateRevision = DateRevision
      /\ d.trace.exchangeId = x.id
      /\ d.trace.thresholds = TraceThresholds
      /\ d.trace.dAuthority = a /\ d.trace.dSens = s /\ d.trace.dInvariant = i
  BY DEF DispatchDecision, RegimeOf
<1>2. a # NoScore /\ s # NoScore /\ i # NoScore
  BY ScoresComputed
<1> HIDE DEF d
<1>3. EvaluateI1(x, d) # Violated
  BY <1>1 DEF EvaluateI1, RefusedFor, Held, Violated
<1>4. EvaluateI2(x, d) # Violated
  <2>1. "target_resolution" \in Residu(x) /\ "intent_meaning" \in Residu(x)
    BY DEF Inside, FrontierCheck, Residu
  <2>2. ~Inside(Recablage(x, Residu(x)))
    BY <2>1 DEF Inside, Recablage
  <2>3. QED
    BY <1>1, <2>1, <2>2 DEF EvaluateI2, RefusedFor, Held, Violated
<1>5. EvaluateI4(d) # Violated
  BY <1>1, <1>2, TracedLimits DEF EvaluateI4, IsIncoherent, Held, Violated
<1>6. ASSUME ~Expired(DateRevision, t) PROVE EvaluateI3(x, d, t) # Violated
  <2>1. ~LockBypassed(x, d)
    BY <1>1, <1>2, TracedLimits DEF LockBypassed, LockCloses
  <2>2. QED
    BY <1>1, <1>6, <2>1 DEF EvaluateI3, Held, Violated
<1>7. EvaluateI5 # Violated
  BY DEF EvaluateI5, Held, Violated
<1>8. QED
  BY <1>3, <1>4, <1>5, <1>6, <1>7 DEF Summary, d

LEMMA ObservationsOfReturned ==
  ASSUME IInv, NEW c \in Callers, Returned(c), dec[c].trace.unmodeledObservations # {}
  PROVE  /\ dec[c].trace.unmodeledObservations = {"I3"}
         /\ ~Refused(c)
         /\ ~Expired(DateRevision, start[c])
         /\ Expired(DateRevision, now)
<1>1. Dispatched(arg[c], start[c], guardClock[c], now, auth[c], sens[c], inv[c], dec[c])
  BY ReturnedOutcome, RefusalFields
     DEF RefusedOutside, RefusedLocked, RefusedExpired, RefusedIncoherent
<1>2. PICK t \in guardClock[c]..now :
        dec[c] = Observed(arg[c], DispatchDecision(arg[c], auth[c], sens[c], inv[c]), t)
  BY <1>1 DEF Dispatched
<1>3. /\ arg[c] \in Exchanges /\ start[c] \in Int /\ guardClock[c] \in Int /\ now \in Int
      /\ start[c] <= guardClock[c] /\ t \in Int /\ guardClock[c] <= t /\ t <= now
  BY <1>1, <1>2 DEF IInv, TypeOK, Dispatched
<1>4. /\ dec[c].trace.unmodeledObservations \subseteq {"I3"}
      /\ "I3" \in dec[c].trace.unmodeledObservations => Expired(DateRevision, t)
      /\ dec[c].regime # "Refus"
  BY <1>1, <1>2, <1>3, SummaryOfDispatch, ObservedFields DEF Dispatched
<1>5. dec[c].trace.unmodeledObservations = {"I3"} /\ Expired(DateRevision, t)
  BY <1>4
<1>6. ~Expired(DateRevision, start[c])
  <2>1. ~(HasProfile /\ Expired(DateRevision, guardClock[c]))
    BY <1>1 DEF Dispatched
  <2>2. HasProfile
    BY <1>5 DEF Expired, DateRevision, ZeroDate
  <2>3. QED
    BY <1>3, <2>1, <2>2, StampTyped DEF Expired
<1>7. QED
  BY <1>3, <1>4, <1>5, <1>6, StampTyped DEF Refused, Expired

\* The guards and the evaluators disagree on a profile expiring mid-call only.
THEOREM GuardsAgreeWithEvaluators == Spec => []ObservationsOnlyFromLateExpiry
<1>1. IInv => ObservationsOnlyFromLateExpiry
  BY ObservationsOfReturned DEF ObservationsOnlyFromLateExpiry
<1>2. QED
  BY <1>1, Inductive, PTL

-----------------------------------------------------------------------------
(* The attestation.                                                        *)

LEMMA AttestedIsNotLocked ==
  ASSUME IInv, NEW c \in Callers, Returned(c), arg[c].attestation
  PROVE  dec[c].diagnostic # DiagVerrouOntologique
<1>1. ~RefusedLocked(arg[c], dec[c])
  BY DEF RefusedLocked, LockCloses
<1>2. DiagVerrouOntologique \in RefusalDiagnostics
  BY DEF RefusalDiagnostics
<1>3. QED
  BY <1>1, <1>2, ReturnedOutcome, DiagnosticsDiffer, RefusalFields, ObservedFields
     DEF RefusedOutside, RefusedExpired, RefusedIncoherent, Dispatched

\* Everything but the lock reads exchanges that differ by the attestation alike.
LEMMA AttestationReadByTheLockOnly ==
  ASSUME NEW x \in Exchanges, NEW y \in Exchanges,
         x = [y EXCEPT !.attestation = TRUE]
  PROVE  /\ x.attestation
         /\ FrontierCheck(x) = FrontierCheck(y)
         /\ ScoreDAuthority(x) = ScoreDAuthority(y)
         /\ ScoreDInvariant(x) = ScoreDInvariant(y)
<1>1. y \in ExchangeOver({z.id : z \in Exchanges})
  BY ExchangesAssumption
<1>2. /\ x.humanInLoop = y.humanInLoop /\ x.org = y.org /\ x.depth = y.depth
      /\ x.mode = y.mode /\ x.contract = y.contract /\ x.plan = y.plan
      /\ x.registry = y.registry /\ x.derived = y.derived
      /\ x.mediation = y.mediation /\ x.attestation
  BY <1>1 DEF ExchangeOver
<1>3. FrontierCheck(x) = FrontierCheck(y)
  BY <1>2 DEF FrontierCheck, Dynamic
<1>4. ScoreDAuthority(x) = ScoreDAuthority(y)
  BY <1>2 DEF ScoreDAuthority, ProbeChainDepth, ProbeCrossOrg, Dynamic
<1>5. ScoreDInvariant(x) = ScoreDInvariant(y)
  BY <1>2 DEF ScoreDInvariant, ProbeEnumeratedPlan, Dynamic
<1>6. QED
  BY <1>2, <1>3, <1>4, <1>5

\* What a call that neither expiry nor the lock refused decided.
LEMMA DecidedOnTheMerits ==
  ASSUME IInv, NEW c \in Callers, Returned(c),
         dec[c].diagnostic # DiagPeremptionProfile,
         dec[c].diagnostic # DiagVerrouOntologique
  PROVE  \/ /\ ~Inside(FrontierCheck(arg[c]))
            /\ dec[c].regime = "Refus" /\ dec[c].diagnostic = DiagFrontiereFranchie
         \/ /\ Inside(FrontierCheck(arg[c]))
            /\ IsIncoherent(sens[c], ScoreDInvariant(arg[c]), Limits)
            /\ dec[c].regime = "Refus" /\ dec[c].diagnostic = DiagIncoherenceI4
         \/ /\ Inside(FrontierCheck(arg[c]))
            /\ ~IsIncoherent(sens[c], ScoreDInvariant(arg[c]), Limits)
            /\ dec[c].regime = RegimeOf(Composite(sens[c], ScoreDAuthority(arg[c]),
                                                  ScoreDInvariant(arg[c])))
            /\ dec[c].diagnostic = NoDiagnostic
<1>1. ~RefusedLocked(arg[c], dec[c])
  BY RefusalFields DEF RefusedLocked
<1>2. ~RefusedExpired(arg[c], start[c], guardClock[c], now, dec[c])
  BY RefusalFields DEF RefusedExpired
<1>3. CASE RefusedOutside(arg[c], dec[c])
  BY <1>3, RefusalFields DEF RefusedOutside
<1>4. CASE RefusedIncoherent(arg[c], start[c], guardClock[c], now, auth[c], sens[c],
                             inv[c], dec[c])
  BY <1>4, RefusalFields DEF RefusedIncoherent, ScoresOf
<1>5. CASE Dispatched(arg[c], start[c], guardClock[c], now, auth[c], sens[c], inv[c], dec[c])
  BY <1>5, ObservedFields DEF Dispatched, ScoresOf
<1>6. QED
  BY <1>1, <1>2, <1>3, <1>4, <1>5, ReturnedOutcome

\* An attestation lifts the lock and changes nothing else.
THEOREM AttestationIsNarrow == Spec => []AttestationOnlyLiftsTheLock
<1>1. ASSUME IInv, NEW c \in Callers, NEW d \in Callers, Returned(c), Returned(d),
             arg[c] = [arg[d] EXCEPT !.attestation = TRUE],
             sens[c] = sens[d],
             DiagPeremptionProfile \notin {dec[c].diagnostic, dec[d].diagnostic},
             dec[d].diagnostic # DiagVerrouOntologique
      PROVE  dec[c].regime = dec[d].regime /\ dec[c].diagnostic = dec[d].diagnostic
  <2>1. arg[c] \in Exchanges /\ arg[d] \in Exchanges
    BY <1>1 DEF IInv, TypeOK
  <2>2. /\ arg[c].attestation
        /\ FrontierCheck(arg[c]) = FrontierCheck(arg[d])
        /\ ScoreDAuthority(arg[c]) = ScoreDAuthority(arg[d])
        /\ ScoreDInvariant(arg[c]) = ScoreDInvariant(arg[d])
    BY <1>1, <2>1, AttestationReadByTheLockOnly
  <2>3. dec[c].diagnostic # DiagVerrouOntologique
    BY <1>1, <2>2, AttestedIsNotLocked
  <2>4. QED
    BY <1>1, <2>2, <2>3, DecidedOnTheMerits
<1>2. IInv => AttestationOnlyLiftsTheLock
  BY <1>1, AttestedIsNotLocked DEF AttestationOnlyLiftsTheLock
<1>3. QED
  BY <1>2, Inductive, PTL

-----------------------------------------------------------------------------
(* The order of the guards.                                                *)

\* The reasoner is consulted only by a call the first three guards let through.
THEOREM ReasonerIsLast == Spec => ReasonerConsultedLast
<1>1. ASSUME IInv, NEW c \in Callers, pc[c] = "score"
      PROVE  /\ Inside(FrontierCheck(arg[c]))
             /\ ~LockCloses(arg[c], ScoreDAuthority(arg[c]))
             /\ ~(HasProfile /\ Expired(DateRevision, start[c]))
  <2>1. /\ GuardsPassed("score", arg[c], guardClock[c], auth[c], sens[c], inv[c])
        /\ Clocked("score", start[c], guardClock[c], now)
    BY <1>1 DEF IInv, CallInv, CallOK
  <2>2. "score" \in PastFrontier /\ "score" \in PastLock /\ "score" \in PastExpiry
    BY DEF PastFrontier, PastLock, PastExpiry, Steps
  <2>3. start[c] \in Int /\ guardClock[c] \in Int /\ start[c] <= guardClock[c]
    BY <1>1, <2>1, <2>2 DEF Clocked, IInv, TypeOK
  <2>4. ~(HasProfile /\ Expired(DateRevision, guardClock[c]))
    BY <2>1, <2>2 DEF GuardsPassed
  <2>5. QED
    BY <2>1, <2>2, <2>3, <2>4, StampTyped DEF GuardsPassed, Expired
<1>2. IInv => [\A c \in Callers :
                 pc[c] = "score" /\ pc'[c] # pc[c] =>
                   /\ Inside(FrontierCheck(arg[c]))
                   /\ ~LockCloses(arg[c], ScoreDAuthority(arg[c]))
                   /\ ~(HasProfile /\ Expired(DateRevision, start[c]))]_vars
  BY <1>1
<1>3. QED
  BY <1>2, Inductive, PTL DEF ReasonerConsultedLast

-----------------------------------------------------------------------------
(* The dispatcher implements the atomic kernel: every step of Dispatcher   *)
(* is a step of Kernel or a stutter.  A call that returns is the kernel's  *)
(* Answer, explained by the reply it got and by one reading of the clock:  *)
(* that of step 3 for a call that passed it, its beginning otherwise.      *)

-----------------------------------------------------------------------------
(* The operators of the instance are those of the dispatcher.              *)

LEMMA SameExchange == K!SomeExchange = SomeExchange
BY DEF SomeExchange, K!SomeExchange

LEMMA SameFrontier ==
  ASSUME NEW x
  PROVE  K!Inside(K!FrontierCheck(x)) <=> Inside(FrontierCheck(x))
BY DEF Inside, FrontierCheck, Dynamic, Static,
       K!Inside, K!FrontierCheck, K!Dynamic, K!Static

LEMMA SameScores ==
  ASSUME NEW x, NEW answer
  PROVE  /\ K!ScoreDAuthority(x) = ScoreDAuthority(x)
         /\ K!ScoreDSens(x, answer) = ScoreDSens(x, answer)
         /\ K!ScoreDInvariant(x) = ScoreDInvariant(x)
<1>1. ASSUME NEW v PROVE K!Clamp01(v) = Clamp01(v)
  BY SMT DEF Clamp01, K!Clamp01, Scale, K!Scale
<1>2. K!Dynamic(x) = Dynamic(x)
  BY DEF Dynamic, Static, K!Dynamic, K!Static
<1>3. ASSUME NEW b PROVE K!Probe(b) = Probe(b)
  BY DEF Probe, K!Probe
<1>4. /\ K!ProbeChainDepth(x) = ProbeChainDepth(x)
      /\ K!ProbeCrossOrg(x) = ProbeCrossOrg(x)
      /\ K!ProbeEnumeratedPlan(x) = ProbeEnumeratedPlan(x)
  BY <1>3 DEF ProbeChainDepth, K!ProbeChainDepth, ProbeCrossOrg, K!ProbeCrossOrg,
         ProbeEnumeratedPlan, K!ProbeEnumeratedPlan
<1>5. QED
  BY <1>1, <1>2, <1>3, <1>4, SMT
     DEF ScoreDAuthority, K!ScoreDAuthority, ScoreDSens, K!ScoreDSens,
         ScoreDInvariant, K!ScoreDInvariant

LEMMA SamePolicy ==
  ASSUME NEW x, NEW a, NEW s, NEW i, NEW t
  PROVE  /\ K!LockCloses(x, a) <=> LockCloses(x, a)
         /\ K!HasProfile <=> HasProfile
         /\ K!DateRevision = DateRevision
         /\ K!Expired(DateRevision, t) <=> Expired(DateRevision, t)
         /\ K!IsIncoherent(s, i, Limits) <=> IsIncoherent(s, i, Limits)
         /\ K!RegimeOf(K!Composite(s, a, i)) = RegimeOf(Composite(s, a, i))
<1>1. K!HasProfile <=> HasProfile
  BY DEF HasProfile, K!HasProfile
<1>2. K!DateRevision = DateRevision
  BY <1>1 DEF DateRevision, K!DateRevision, ZeroDate, K!ZeroDate
<1>3. K!DimensionWeights = DimensionWeights
  BY <1>1 DEF DimensionWeights, K!DimensionWeights
<1>4. K!RegimeOf(K!Composite(s, a, i)) = RegimeOf(Composite(s, a, i))
  BY <1>3 DEF RegimeOf, K!RegimeOf, Composite, K!Composite
<1>5. QED
  BY <1>1, <1>2, <1>4 DEF LockCloses, K!LockCloses, Expired, K!Expired, ZeroDate,
     K!ZeroDate, IsIncoherent, K!IsIncoherent

LEMMA SameDiagnostics ==
  /\ K!DiagFrontiereFranchie = DiagFrontiereFranchie
  /\ K!DiagVerrouOntologique = DiagVerrouOntologique
  /\ K!DiagPeremptionProfile = DiagPeremptionProfile
  /\ K!DiagIncoherenceI4 = DiagIncoherenceI4
  /\ K!NoDiagnostic = NoDiagnostic
  /\ K!RefusalDiagnostics = RefusalDiagnostics
BY DEF DiagFrontiereFranchie, DiagVerrouOntologique, DiagPeremptionProfile,
       DiagIncoherenceI4, NoDiagnostic, RefusalDiagnostics, K!DiagFrontiereFranchie,
       K!DiagVerrouOntologique, K!DiagPeremptionProfile, K!DiagIncoherenceI4,
       K!NoDiagnostic, K!RefusalDiagnostics

\* The kernel's reasons to refuse, in the dispatcher's terms.
LEMMA Reasons ==
  ASSUME NEW x, NEW answer, NEW t
  PROVE  LET reasons == K!ReasonsToRefuse(x, answer, t)
         IN /\ reasons \subseteq RefusalDiagnostics
            /\ DiagFrontiereFranchie \in reasons <=> ~Inside(FrontierCheck(x))
            /\ DiagVerrouOntologique \in reasons <=> LockCloses(x, ScoreDAuthority(x))
            /\ DiagPeremptionProfile \in reasons
                 <=> HasProfile /\ Expired(DateRevision, t)
            /\ DiagIncoherenceI4 \in reasons
                 <=> IsIncoherent(ScoreDSens(x, answer), ScoreDInvariant(x), Limits)
<1>1. RefusalDiagnostics = {DiagFrontiereFranchie, DiagVerrouOntologique,
                            DiagPeremptionProfile, DiagIncoherenceI4}
  BY DEF RefusalDiagnostics
<1>2. QED
  BY <1>1, DiagnosticsDiffer, SameDiagnostics, SameFrontier, SameScores, SamePolicy
     DEF K!ReasonsToRefuse

-----------------------------------------------------------------------------
(* A returned decision is a verdict of the kernel.                         *)

\* A refusal for diagnostic is the kernel's if it is the first that applies.
LEMMA RefusalIsVerdict ==
  ASSUME NEW x, NEW answer, NEW t, NEW v, NEW diagnostic,
         v.regime = "Refus", v.diagnostic = diagnostic,
         diagnostic \in K!ReasonsToRefuse(x, answer, t),
         \A e \in K!ReasonsToRefuse(x, answer, t) : K!Rank(diagnostic) <= K!Rank(e)
  PROVE  K!IsVerdict(v, x, answer, t)
BY DEF K!IsVerdict, K!ReasonGiven

LEMMA Ranks ==
  /\ K!Rank(DiagFrontiereFranchie) = 1
  /\ K!Rank(DiagVerrouOntologique) = 2
  /\ K!Rank(DiagPeremptionProfile) = 3
  /\ K!Rank(DiagIncoherenceI4) = 4
BY DiagnosticsDiffer, SameDiagnostics DEF K!Rank

LEMMA OutcomeIsVerdict ==
  ASSUME NEW x \in Exchanges, NEW st \in Int, NEW g \in Int, NEW n \in Int,
         NEW a, NEW s, NEW i, NEW d, st <= n,
         Outcome("done", x, st, g, n, a, s, i, d)
  PROVE  /\ VerdictOf("done", d) \in K!Verdicts
         /\ \E answer \in K!Replies, t \in st..n :
              K!IsVerdict(VerdictOf("done", d), x, answer, t)
<1> DEFINE v == VerdictOf("done", d)
<1>1. v.regime = d.regime /\ v.diagnostic = d.diagnostic
      /\ v = [regime |-> d.regime, diagnostic |-> d.diagnostic]
  BY DEF VerdictOf
<1>2. K!Replies = Replies /\ Replies # {}
  BY PolicyAssumption DEF Replies, K!Replies
<1>3. PICK reply \in Replies : TRUE
  BY <1>2
<1>4. st \in st..n
  OBVIOUS
<1>5. K!Verdicts = [regime : Regimes, diagnostic : RefusalDiagnostics \cup {NoDiagnostic}]
  BY SameDiagnostics DEF K!Verdicts, K!Regimes, Regimes
<1>6. "Refus" \in Regimes /\ {"Deterministe", "Probabiliste"} \subseteq Regimes
  BY DEF Regimes
<1>7. {DiagFrontiereFranchie, DiagVerrouOntologique, DiagPeremptionProfile,
       DiagIncoherenceI4} = RefusalDiagnostics
  BY DEF RefusalDiagnostics
<1> HIDE DEF v
<1>8. CASE RefusedOutside(x, d)
  <2>1. d.regime = "Refus" /\ d.diagnostic = DiagFrontiereFranchie
        /\ ~Inside(FrontierCheck(x))
    BY <1>8, RefusalFields DEF RefusedOutside
  <2>2. DiagFrontiereFranchie \in K!ReasonsToRefuse(x, reply, st)
        /\ K!ReasonsToRefuse(x, reply, st) \subseteq RefusalDiagnostics
    BY <2>1, Reasons
  <2>3. K!IsVerdict(v, x, reply, st)
    BY <1>1, <1>7, <2>1, <2>2, Ranks, RefusalIsVerdict
  <2>4. QED
    BY <1>1, <1>2, <1>3, <1>4, <1>5, <1>6, <1>7, <2>1, <2>3 DEF v
<1>9. CASE RefusedLocked(x, d)
  <2>1. d.regime = "Refus" /\ d.diagnostic = DiagVerrouOntologique
        /\ Inside(FrontierCheck(x)) /\ LockCloses(x, ScoreDAuthority(x))
    BY <1>9, RefusalFields DEF RefusedLocked
  <2>2. DiagVerrouOntologique \in K!ReasonsToRefuse(x, reply, st)
        /\ DiagFrontiereFranchie \notin K!ReasonsToRefuse(x, reply, st)
        /\ K!ReasonsToRefuse(x, reply, st) \subseteq RefusalDiagnostics
    BY <2>1, Reasons
  <2>3. K!IsVerdict(v, x, reply, st)
    BY <1>1, <1>7, <2>1, <2>2, Ranks, RefusalIsVerdict
  <2>4. QED
    BY <1>1, <1>2, <1>3, <1>4, <1>5, <1>6, <1>7, <2>1, <2>3 DEF v
<1>10. CASE RefusedExpired(x, st, g, n, d)
  <2>1. d.regime = "Refus" /\ d.diagnostic = DiagPeremptionProfile
        /\ Inside(FrontierCheck(x)) /\ ~LockCloses(x, ScoreDAuthority(x))
        /\ HasProfile /\ Expired(DateRevision, g) /\ g \in st..n
    BY <1>10, RefusalFields DEF RefusedExpired
  <2>2. DiagPeremptionProfile \in K!ReasonsToRefuse(x, reply, g)
        /\ DiagFrontiereFranchie \notin K!ReasonsToRefuse(x, reply, g)
        /\ DiagVerrouOntologique \notin K!ReasonsToRefuse(x, reply, g)
        /\ K!ReasonsToRefuse(x, reply, g) \subseteq RefusalDiagnostics
    BY <2>1, Reasons
  <2>3. K!IsVerdict(v, x, reply, g)
    BY <1>1, <1>7, <2>1, <2>2, Ranks, RefusalIsVerdict
  <2>4. QED
    BY <1>1, <1>2, <1>3, <1>5, <1>6, <1>7, <2>1, <2>3 DEF v
<1>11. CASE RefusedIncoherent(x, st, g, n, a, s, i, d)
  <2>1. d.regime = "Refus" /\ d.diagnostic = DiagIncoherenceI4
        /\ Inside(FrontierCheck(x)) /\ ~LockCloses(x, ScoreDAuthority(x))
        /\ ~(HasProfile /\ Expired(DateRevision, g)) /\ g \in st..n
    BY <1>11, RefusalFields DEF RefusedIncoherent, ScoresOf
  <2>2. PICK answer \in Replies : IsIncoherent(ScoreDSens(x, answer), ScoreDInvariant(x), Limits)
    BY <1>11 DEF RefusedIncoherent, ScoresOf
  <2>3. DiagIncoherenceI4 \in K!ReasonsToRefuse(x, answer, g)
        /\ DiagFrontiereFranchie \notin K!ReasonsToRefuse(x, answer, g)
        /\ DiagVerrouOntologique \notin K!ReasonsToRefuse(x, answer, g)
        /\ DiagPeremptionProfile \notin K!ReasonsToRefuse(x, answer, g)
        /\ K!ReasonsToRefuse(x, answer, g) \subseteq RefusalDiagnostics
    BY <2>1, <2>2, Reasons
  <2>4. K!IsVerdict(v, x, answer, g)
    BY <1>1, <1>7, <2>1, <2>3, Ranks, RefusalIsVerdict
  <2>5. QED
    BY <1>1, <1>2, <1>5, <1>6, <1>7, <2>1, <2>4 DEF v
<1>12. CASE Dispatched(x, st, g, n, a, s, i, d)
  <2>1. PICK t \in g..n : d = Observed(x, DispatchDecision(x, a, s, i), t)
    BY <1>12 DEF Dispatched
  <2>2. /\ d.regime = RegimeOf(Composite(s, a, i)) /\ d.diagnostic = NoDiagnostic
        /\ Inside(FrontierCheck(x)) /\ ~LockCloses(x, ScoreDAuthority(x))
        /\ ~(HasProfile /\ Expired(DateRevision, g)) /\ g \in st..n
    BY <1>12, <2>1, ObservedFields DEF Dispatched, ScoresOf
  <2>3. PICK answer \in Replies :
          /\ s = ScoreDSens(x, answer)
          /\ a = ScoreDAuthority(x)
          /\ i = ScoreDInvariant(x)
          /\ ~IsIncoherent(s, i, Limits)
    BY <1>12 DEF Dispatched, ScoresOf
  <2>4. K!ReasonsToRefuse(x, answer, g) = {}
    BY <1>7, <2>2, <2>3, Reasons
  <2>5. K!IsVerdict(v, x, answer, g)
    BY <1>1, <2>2, <2>3, <2>4, SamePolicy, SameScores, SameDiagnostics DEF K!IsVerdict
  <2>6. d.regime \in Regimes
    BY <1>6, <2>2 DEF RegimeOf
  <2>7. QED
    BY <1>1, <1>2, <1>5, <2>2, <2>5, <2>6 DEF v
<1>13. QED
  BY <1>8, <1>9, <1>10, <1>11, <1>12 DEF Outcome

-----------------------------------------------------------------------------
(* Steps of the dispatcher are steps of the kernel or stutters.            *)

phaseMap   == [c \in Callers |-> PhaseOf(pc[c])]
verdictMap == [c \in Callers |-> VerdictOf(pc[c], dec[c])]

LEMMA Phases ==
  /\ PhaseOf("done") = "decided"
  /\ PhaseOf("idle") = "idle"
  /\ PhaseOf("failed") = "failed"
  /\ \A p \in Steps : PhaseOf(p) = "busy"
  /\ \A p \in Steps \cup {"idle", "failed"} : \A d : VerdictOf(p, d) = K!NoVerdict
BY SameDiagnostics DEF PhaseOf, VerdictOf, Steps, K!NoVerdict

\* What moving one call to step p does to the mapped variables.
LEMMA MovedPhase ==
  ASSUME TypeOK, NEW c \in Callers, NEW p, NEW q,
         pc' = [pc EXCEPT ![c] = p], q = PhaseOf(p)
  PROVE  phaseMap' = [phaseMap EXCEPT ![c] = q]
<1>1. \A e \in Callers : pc'[e] = IF e = c THEN p ELSE pc[e]
  BY DEF TypeOK
<1>2. \A e \in Callers : PhaseOf(pc'[e]) = [phaseMap EXCEPT ![c] = q][e]
  BY <1>1 DEF phaseMap
<1>3. QED
  BY <1>2 DEF phaseMap

LEMMA MovedVerdict ==
  ASSUME TypeOK, NEW c \in Callers, NEW p, NEW d, NEW v,
         pc' = [pc EXCEPT ![c] = p], dec' = [dec EXCEPT ![c] = d], v = VerdictOf(p, d)
  PROVE  verdictMap' = [verdictMap EXCEPT ![c] = v]
<1>1. \A e \in Callers : /\ pc'[e] = IF e = c THEN p ELSE pc[e]
                         /\ dec'[e] = IF e = c THEN d ELSE dec[e]
  BY DEF TypeOK
<1>2. \A e \in Callers : VerdictOf(pc'[e], dec'[e]) = [verdictMap EXCEPT ![c] = v][e]
  BY <1>1 DEF verdictMap
<1>3. QED
  BY <1>2 DEF verdictMap

\* A move inside a call that does not return shows nothing.
LEMMA HiddenMove ==
  ASSUME TypeOK, NEW c \in Callers, NEW p \in Steps, NEW d, pc[c] \in Steps,
         pc' = [pc EXCEPT ![c] = p],
         dec' = [dec EXCEPT ![c] = d]
  PROVE  phaseMap' = phaseMap /\ verdictMap' = verdictMap
<1>1. p # "done" /\ pc[c] # "done"
  BY DEF Steps
<1>2. PhaseOf(p) = "busy" /\ PhaseOf(pc[c]) = "busy"
  BY <1>1 DEF PhaseOf
<1>3. VerdictOf(p, d) = VerdictOf(pc[c], dec[c])
  BY <1>1 DEF VerdictOf
<1>4. phaseMap[c] = PhaseOf(p) /\ verdictMap[c] = VerdictOf(p, d)
  BY <1>2, <1>3 DEF phaseMap, verdictMap
<1>5. phaseMap' = [phaseMap EXCEPT ![c] = phaseMap[c]]
  BY <1>4, MovedPhase
<1>6. verdictMap' = [verdictMap EXCEPT ![c] = verdictMap[c]]
  BY <1>4, MovedVerdict
<1>7. QED
  BY <1>5, <1>6 DEF phaseMap, verdictMap

\* A return is the kernel's Answer.
LEMMA ReturnIsAnswer ==
  ASSUME IInv, IInv', NEW c \in Callers, NEW d, pc[c] \in Steps,
         pc' = [pc EXCEPT ![c] = "done"],
         dec' = [dec EXCEPT ![c] = d],
         UNCHANGED <<now, arg, start>>
  PROVE  K!Answer(c)
<1>1. TypeOK /\ PhaseOf("done") = "decided"
  BY Phases DEF IInv
<1>2. phaseMap' = [phaseMap EXCEPT ![c] = "decided"]
  BY <1>1, MovedPhase
<1>3. verdictMap' = [verdictMap EXCEPT ![c] = VerdictOf("done", d)]
  BY <1>1, MovedVerdict
<1>4. phaseMap[c] = "busy"
  BY DEF phaseMap, PhaseOf, Steps
<1>5. pc'[c] = "done" /\ dec'[c] = d
  BY DEF IInv, TypeOK
<1>6. /\ arg[c] \in Exchanges /\ start[c] \in Int /\ guardClock'[c] \in Int /\ now \in Int
      /\ Clocked("done", start[c], guardClock'[c], now)
      /\ Outcome("done", arg[c], start[c], guardClock'[c], now, auth'[c], sens'[c],
                 inv'[c], d)
  BY <1>5 DEF IInv, TypeOK, CallInv, CallOK
<1>7. /\ VerdictOf("done", d) \in K!Verdicts
      /\ \E answer \in K!Replies, t \in start[c]..now :
           K!IsVerdict(VerdictOf("done", d), arg[c], answer, t)
  BY <1>6, OutcomeIsVerdict DEF Clocked
<1>8. QED
  BY <1>2, <1>3, <1>4, <1>7 DEF K!Answer, phaseMap, verdictMap

\* A failure of the reasoner is the kernel's Fail.
LEMMA FailureIsFail ==
  ASSUME IInv, NEW c \in Callers, Score(c), pc'[c] = "failed"
  PROVE  K!Fail(c)
<1>1. pc' = [pc EXCEPT ![c] = "failed"] /\ dec' = [dec EXCEPT ![c] = dec[c]]
  BY DEF IInv, TypeOK, Score, Goto
<1>2. pc[c] = "score" /\ LLMError \in Answers /\ UNCHANGED <<now, arg, start>>
  BY DEF IInv, TypeOK, Score, Goto
<1>3. /\ TypeOK /\ PhaseOf("failed") = "failed"
      /\ verdictMap[c] = VerdictOf("failed", dec[c])
  BY <1>2, Phases DEF IInv, verdictMap, Steps
<1>4. phaseMap' = [phaseMap EXCEPT ![c] = "failed"]
  BY <1>1, <1>3, MovedPhase
<1>5. verdictMap' = [verdictMap EXCEPT ![c] = verdictMap[c]]
  BY <1>1, <1>3, MovedVerdict
<1>6. phaseMap' = [phaseMap EXCEPT ![c] = "failed"] /\ verdictMap' = verdictMap
  BY <1>4, <1>5 DEF verdictMap
<1>7. phaseMap[c] = "busy"
  BY <1>2 DEF phaseMap, PhaseOf, Steps
<1>8. /\ Inside(FrontierCheck(arg[c]))
      /\ ~LockCloses(arg[c], ScoreDAuthority(arg[c]))
      /\ ~(HasProfile /\ Expired(DateRevision, guardClock[c]))
      /\ guardClock[c] \in start[c]..now
  BY <1>2 DEF IInv, TypeOK, CallInv, CallOK, Clocked, GuardsPassed, PastFrontier, PastLock,
         PastExpiry, Steps
<1>9. K!ReasonsToRefuse(arg[c], 0, guardClock[c]) \subseteq {DiagIncoherenceI4}
  BY <1>8, Reasons DEF RefusalDiagnostics
<1>10. QED
  BY <1>2, <1>6, <1>7, <1>8, <1>9, SameDiagnostics DEF K!Fail, phaseMap, verdictMap

LEMMA InitMapped == Init => K!KInit
BY SameExchange, SameDiagnostics
   DEF Init, K!KInit, PhaseOf, VerdictOf, K!NoVerdict, Steps

LEMMA StepMapped ==
  ASSUME IInv, IInv', NEW c \in Callers, Step(c)
  PROVE  K!Answer(c) \/ K!Fail(c) \/ UNCHANGED K!kernelVars
<1>1. /\ pc[c] \in Steps /\ pc \in [Callers -> PCs] /\ dec \in [Callers -> Decisions]
      /\ UNCHANGED <<now, arg, start>>
  BY DEF IInv, TypeOK, Step, Frontier, Authority, Expiry, Score, Coherence, Decision,
         Evaluate, Steps
<1>2. \/ \E p \in Steps : \E d : pc' = [pc EXCEPT ![c] = p] /\ dec' = [dec EXCEPT ![c] = d]
      \/ \E d : pc' = [pc EXCEPT ![c] = "done"] /\ dec' = [dec EXCEPT ![c] = d]
      \/ Score(c) /\ pc'[c] = "failed"
  <2>1. dec = [dec EXCEPT ![c] = dec[c]]
    BY <1>1
  <2>2. QED
    BY <2>1 DEF Step, Frontier, Authority, Expiry, Score, Coherence, Decision,
                Evaluate, Return, Goto, Steps
<1>3. ASSUME NEW p \in Steps, NEW d,
             pc' = [pc EXCEPT ![c] = p], dec' = [dec EXCEPT ![c] = d]
      PROVE  UNCHANGED K!kernelVars
  BY <1>1, <1>3, HiddenMove DEF IInv, K!kernelVars, phaseMap, verdictMap
<1>4. QED
  BY <1>1, <1>2, <1>3, ReturnIsAnswer, FailureIsFail

LEMMA CallMapped ==
  ASSUME IInv, NEW c \in Callers, NEW x \in Exchanges, Call(c, x)
  PROVE  K!Ask(c, x)
<1>1. dec' = [dec EXCEPT ![c] = dec[c]]
  BY DEF IInv, TypeOK, Call
<1>2. /\ TypeOK /\ PhaseOf("frontier") = "busy"
      /\ verdictMap[c] = VerdictOf("frontier", dec[c])
      /\ pc' = [pc EXCEPT ![c] = "frontier"]
  BY Phases DEF IInv, verdictMap, Steps, Call, Goto
<1>3. phaseMap' = [phaseMap EXCEPT ![c] = "busy"]
  BY <1>2, <1>1, MovedPhase
<1>4. verdictMap' = [verdictMap EXCEPT ![c] = verdictMap[c]]
  BY <1>2, <1>1, MovedVerdict
<1>5. phaseMap' = [phaseMap EXCEPT ![c] = "busy"] /\ verdictMap' = verdictMap
  BY <1>3, <1>4 DEF verdictMap
<1>6. phaseMap[c] = "idle"
  BY DEF Call, phaseMap, PhaseOf, Steps
<1>7. QED
  BY <1>5, <1>6 DEF Call, K!Ask, phaseMap, verdictMap

LEMMA TakeMapped ==
  ASSUME IInv, NEW c \in Callers, Take(c)
  PROVE  K!Leave(c)
<1>1. /\ TypeOK /\ PhaseOf("idle") = "idle"
      /\ K!NoVerdict = VerdictOf("idle", NoDecision)
      /\ pc' = [pc EXCEPT ![c] = "idle"]
      /\ dec' = [dec EXCEPT ![c] = NoDecision]
  BY Phases DEF IInv, Take, Goto
<1>2. phaseMap' = [phaseMap EXCEPT ![c] = "idle"]
  BY <1>1, MovedPhase
<1>3. verdictMap' = [verdictMap EXCEPT ![c] = K!NoVerdict]
  BY <1>1, MovedVerdict
<1>4. phaseMap[c] \in {"decided", "failed"}
  BY DEF Take, phaseMap, PhaseOf, Steps
<1>5. QED
  BY <1>2, <1>3, <1>4, SameExchange DEF Take, K!Leave, phaseMap, verdictMap

LEMMA NextMapped ==
  ASSUME IInv, IInv', [Next]_vars
  PROVE  [K!KNext]_(K!kernelVars)
<1>1. CASE UNCHANGED vars
  BY <1>1 DEF vars, K!kernelVars
<1>2. CASE Tick
  BY <1>2 DEF Tick, K!KTick, K!KNext
<1>3. ASSUME NEW c \in Callers, Step(c) PROVE [K!KNext]_(K!kernelVars)
  BY <1>3, StepMapped DEF K!KNext
<1>4. ASSUME NEW c \in Callers, NEW x \in Exchanges, Call(c, x)
      PROVE  [K!KNext]_(K!kernelVars)
  BY <1>4, CallMapped DEF K!KNext
<1>5. ASSUME NEW c \in Callers, Take(c) PROVE [K!KNext]_(K!kernelVars)
  BY <1>5, TakeMapped DEF K!KNext
<1>6. QED
  BY <1>1, <1>2, <1>3, <1>4, <1>5 DEF Next

\* Every execution of the dispatcher is one of the atomic kernel.
THEOREM Refinement == Spec => ImplementsKernel
<1>1. Init => K!KInit
  BY InitMapped
<1>2. IInv /\ IInv' /\ [Next]_vars => [K!KNext]_(K!kernelVars)
  BY NextMapped
<1>3. QED
  BY <1>1, <1>2, Inductive, PTL DEF Spec, ImplementsKernel, K!KSpec

-----------------------------------------------------------------------------
(* Labels.                                                                 *)

LEMMA EntryIsValid ==
  ASSUME NEW x \in Exchanges, NEW v, NEW answer \in Replies,
         ScoredEntry(x, v, answer, Limits).labeled # NotASample
  PROVE  IsValid(ScoredEntry(x, v, answer, Limits))
<1> DEFINE e == ScoredEntry(x, v, answer, Limits)
<1>1. e.id /\ e.sens \in 0..Scale /\ e.auth \in 0..Scale /\ e.inv \in 0..Scale
  BY AuthorityRange, SensRange, InvariantRange DEF ScoredEntry
<1>2. e.labeled \in Labels
  BY DEF ScoredEntry, LabelForDecision, NotASample, Labels
<1>3. QED
  BY <1>1, <1>2 DEF IsValid

\* The label of a decision that passed all guards is the one simulate gives.
LEMMA DispatchedLabel ==
  ASSUME NEW x, NEW v, NEW answer, v.regime # "Refus"
  PROVE  Simulate(ScoredEntry(x, v, answer, Limits), Limits)
           = ScoredEntry(x, v, answer, Limits).labeled
BY DEF Simulate, ScoredEntry, LabelForDecision

LEMMA RefusalLabel ==
  ASSUME NEW x, NEW v, NEW answer, v.regime = "Refus",
         \/ v.diagnostic = DiagVerrouOntologique /\ LockCloses(x, ScoreDAuthority(x))
         \/ /\ v.diagnostic = DiagIncoherenceI4
            /\ ~LockCloses(x, ScoreDAuthority(x))
            /\ IsIncoherent(ScoreDSens(x, answer), ScoreDInvariant(x), Limits)
         \/ v.diagnostic \in {DiagFrontiereFranchie, DiagPeremptionProfile}
  PROVE  LET e == ScoredEntry(x, v, answer, Limits)
         IN e.labeled = NotASample \/ Simulate(e, Limits) = e.labeled
<1> DEFINE e == ScoredEntry(x, v, answer, Limits)
<1>1. CASE v.diagnostic = DiagVerrouOntologique /\ LockCloses(x, ScoreDAuthority(x))
  <2>1. e.labeled = "refus_authority"
    BY <1>1, DiagnosticsDiffer DEF ScoredEntry, LabelForDecision
  <2>2. e.auth >= Limits.authBlock /\ ~e.attestation
    BY <1>1 DEF ScoredEntry, LockCloses
  <2>3. QED
    BY <2>1, <2>2 DEF Simulate
<1>2. CASE /\ v.diagnostic = DiagIncoherenceI4
           /\ ~LockCloses(x, ScoreDAuthority(x))
           /\ IsIncoherent(ScoreDSens(x, answer), ScoreDInvariant(x), Limits)
  <2>1. e.labeled = "refus_i4"
    BY <1>2, DiagnosticsDiffer DEF ScoredEntry, LabelForDecision
  <2>2. /\ ~(e.auth >= Limits.authBlock /\ ~e.attestation)
        /\ e.sens < Limits.sensCoherence /\ e.inv >= Limits.invCoherence
    BY <1>2 DEF ScoredEntry, LockCloses, IsIncoherent
  <2>3. QED
    BY <2>1, <2>2 DEF Simulate
<1>3. CASE v.diagnostic \in {DiagFrontiereFranchie, DiagPeremptionProfile}
  BY <1>3, DiagnosticsDiffer DEF ScoredEntry, LabelForDecision
<1>4. QED
  BY <1>1, <1>2, <1>3

\* A sample's label is what the grid search simulates at the same thresholds.
THEOREM LabelsAreSound == Spec => []LabelsAreGroundTruth
<1>1. ASSUME IInv, NEW c \in Callers, Returned(c), NEW answer \in Replies,
             sens[c] \in {NoScore, ScoreDSens(arg[c], answer)}
      PROVE  LET e == ScoredEntry(arg[c], dec[c], answer, Limits)
             IN e.labeled = NotASample \/ Simulate(e, Limits) = e.labeled
  <2>1. arg[c] \in Exchanges
    BY <1>1 DEF IInv, TypeOK
  <2>2. CASE RefusedOutside(arg[c], dec[c])
    BY <2>2, RefusalFields, RefusalLabel DEF RefusedOutside
  <2>3. CASE RefusedLocked(arg[c], dec[c])
    BY <2>3, RefusalFields, RefusalLabel DEF RefusedLocked
  <2>4. CASE RefusedExpired(arg[c], start[c], guardClock[c], now, dec[c])
    BY <2>4, RefusalFields, RefusalLabel DEF RefusedExpired
  <2>5. CASE RefusedIncoherent(arg[c], start[c], guardClock[c], now, auth[c], sens[c],
                               inv[c], dec[c])
    <3>1. sens[c] # NoScore
      BY <2>1, <2>5, ScoresComputed DEF RefusedIncoherent
    <3>2. /\ dec[c].regime = "Refus" /\ dec[c].diagnostic = DiagIncoherenceI4
          /\ ~LockCloses(arg[c], ScoreDAuthority(arg[c]))
          /\ IsIncoherent(ScoreDSens(arg[c], answer), ScoreDInvariant(arg[c]), Limits)
      BY <1>1, <2>5, <3>1, RefusalFields DEF RefusedIncoherent, ScoresOf
    <3>3. QED
      BY <3>2, RefusalLabel
  <2>6. CASE Dispatched(arg[c], start[c], guardClock[c], now, auth[c], sens[c], inv[c],
                        dec[c])
    BY <2>6, ObservedFields, DispatchedLabel DEF Dispatched
  <2>7. QED
    BY <1>1, <2>2, <2>3, <2>4, <2>5, <2>6, ReturnedOutcome
<1>2. ASSUME IInv, NEW c \in Callers, Returned(c), NEW e \in EntriesOf(c),
             e.labeled # NotASample
      PROVE  IsValid(e) /\ Simulate(e, Limits) = e.labeled
  <2>1. PICK answer \in Replies :
          /\ sens[c] \in {NoScore, ScoreDSens(arg[c], answer)}
          /\ e = ScoredEntry(arg[c], dec[c], answer, Limits)
    BY <1>2 DEF EntriesOf
  <2>2. arg[c] \in Exchanges
    BY <1>2 DEF IInv, TypeOK
  <2>3. QED
    BY <1>1, <1>2, <2>1, <2>2, EntryIsValid
<1>3. IInv => LabelsAreGroundTruth
  BY <1>2 DEF LabelsAreGroundTruth
<1>4. QED
  BY <1>3, Inductive, PTL

-----------------------------------------------------------------------------
(* The campaign.                                                           *)

\* Without the reasoner D-SENS is at most what it is with him.
LEMMA ReasonerLifts ==
  ASSUME NEW x \in Exchanges, NEW answer \in Replies
  PROVE  ScoreDSens(x, 0) \in 0..Scale /\ ScoreDSens(x, 0) <= ScoreDSens(x, answer)
<1> DEFINE w == 350000 * Probe(~x.contract) + 300000 * Probe(x.intent)
                + 200000 * Probe(Dynamic(x))
<1>1. w \in Nat
  BY DEF Probe
<1>2. answer \in 0..1000
  BY PolicyAssumption DEF Replies
<1>3. 150 * 0 = 0 /\ 150 * answer \in Nat
  BY <1>2, SMT
<1>4. w + 150 * 0 <= w + 150 * answer
  <2> HIDE DEF w
  <2>1. QED
    BY <1>1, <1>3
<1>5. ASSUME NEW u \in Nat, NEW v \in Nat, u <= v PROVE Clamp01(u) <= Clamp01(v)
  BY <1>5, ScaleIsNat DEF Clamp01
<1>6. w + 150 * 0 \in Nat /\ w + 150 * answer \in Nat
  <2> HIDE DEF w
  <2>1. QED
    BY <1>1, <1>3
<1>7. Clamp01(w + 150 * 0) <= Clamp01(w + 150 * answer)
  BY <1>4, <1>5, <1>6
<1>8. Clamp01(w + 150 * 0) \in 0..Scale
  BY <1>6, ClampRange
<1>9. QED
  BY <1>7, <1>8 DEF ScoreDSens

\* The class of a returned decision.
LEMMA ClassOfReturned ==
  ASSUME IInv, NEW c \in Callers, Returned(c)
  PROVE  LET incoherent == IsIncoherent(ScoreDSens(arg[c], 0), ScoreDInvariant(arg[c]), Limits)
         IN /\ ClassifyI4(ToEmpiricalDecision(c)) # "FalsePositive"
            /\ ClassifyI4(ToEmpiricalDecision(c)) = "FalseNegative"
                 <=> /\ ~Refused(c) /\ incoherent
                     /\ sens[c] >= Limits.sensCoherence
<1> DEFINE d == ToEmpiricalDecision(c)
           incoherent == IsIncoherent(ScoreDSens(arg[c], 0), ScoreDInvariant(arg[c]), Limits)
<1>1. /\ d.regime = dec[c].regime /\ d.diagnostic = dec[c].diagnostic
      /\ (d.inv >= d.invCoherence /\ d.sens < d.sensCoherence) <=> incoherent
  BY DEF ToEmpiricalDecision, IsIncoherent
<1>2. arg[c] \in Exchanges
  BY DEF IInv, TypeOK
<1>3. CASE /\ dec[c].regime = "Refus"
           /\ dec[c].diagnostic # DiagIncoherenceI4
  BY <1>1, <1>3 DEF ClassifyI4, Refused
<1>4. CASE RefusedIncoherent(arg[c], start[c], guardClock[c], now, auth[c], sens[c],
                             inv[c], dec[c])
  <2>1. incoherent
    <3>1. PICK answer \in Replies : sens[c] = ScoreDSens(arg[c], answer)
      BY <1>4 DEF RefusedIncoherent, ScoresOf
    <3>2. /\ ScoreDSens(arg[c], answer) < Limits.sensCoherence
          /\ ScoreDInvariant(arg[c]) >= Limits.invCoherence
      BY <1>4, <3>1 DEF RefusedIncoherent, ScoresOf, IsIncoherent
    <3>3. ScoreDSens(arg[c], 0) <= ScoreDSens(arg[c], answer)
      BY <1>2, ReasonerLifts
    <3>4. ScoreDSens(arg[c], answer) \in 0..Scale
      BY <1>2, SensRange
    <3>5. ScoreDSens(arg[c], 0) \in Int
      BY <1>2, ReasonerLifts, ScaleIsNat
    <3>6. Limits.sensCoherence \in 0..Scale
      BY PolicyAssumption DEF Thresholds
    <3>7. QED
      BY <3>2, <3>3, <3>4, <3>5, <3>6, ScaleIsNat DEF IsIncoherent
  <2>2. dec[c].regime = "Refus" /\ dec[c].diagnostic = DiagIncoherenceI4
    BY <1>4, RefusalFields DEF RefusedIncoherent
  <2>3. QED
    BY <1>1, <2>1, <2>2 DEF ClassifyI4, Refused
<1>5. CASE Dispatched(arg[c], start[c], guardClock[c], now, auth[c], sens[c], inv[c], dec[c])
  <2>1. dec[c].regime # "Refus"
    BY <1>5, ObservedFields DEF Dispatched
  <2>2. incoherent => sens[c] >= Limits.sensCoherence
    <3>1. ~(ScoreDInvariant(arg[c]) >= Limits.invCoherence /\ sens[c] < Limits.sensCoherence)
      BY <1>5 DEF Dispatched, ScoresOf, IsIncoherent
    <3>2. sens[c] \in 0..Scale /\ Limits.sensCoherence \in 0..Scale
      BY <1>2, <1>5, ScoresComputed, PolicyAssumption DEF Dispatched, Thresholds
    <3>3. QED
      BY <3>1, <3>2, ScaleIsNat DEF IsIncoherent
  <2>3. QED
    BY <1>1, <2>1, <2>2 DEF ClassifyI4, Refused
<1>6. QED
  BY <1>3, <1>4, <1>5, ReturnedOutcome, RefusalFields, DiagnosticsDiffer
     DEF RefusedOutside, RefusedLocked, RefusedExpired

LEMMA CountsAgree ==
  ASSUME IInv PROVE ClassifierAgrees
<1> DEFINE returned == {c \in Callers : Returned(c)}
           decisions == [c \in returned |-> ToEmpiricalDecision(c)]
           Lifted(c) == /\ ~Refused(c)
                        /\ IsIncoherent(ScoreDSens(arg[c], 0), ScoreDInvariant(arg[c]), Limits)
                        /\ sens[c] >= Limits.sensCoherence
<1>1. {k \in DOMAIN decisions : ClassifyI4(decisions[k]) = "FalsePositive"} = {}
  BY ClassOfReturned
<1>2. {k \in DOMAIN decisions : ClassifyI4(decisions[k]) = "FalseNegative"}
        = {c \in returned : Lifted(c)}
  BY ClassOfReturned
<1>3. /\ EmpiricalI4Summary(decisions)["FalsePositive"] = 0
      /\ EmpiricalI4Summary(decisions)["FalseNegative"]
           = Cardinality({c \in returned : Lifted(c)})
  <2>1. "FalsePositive" \in I4Classes /\ "FalseNegative" \in I4Classes
    BY DEF I4Classes
  <2>2. Cardinality({}) = 0
    BY FS_EmptySet
  <2> HIDE DEF decisions, returned, Lifted
  <2>3. QED
    BY <1>1, <1>2, <2>1, <2>2 DEF EmpiricalI4Summary
<1>4. QED
  BY <1>3 DEF ClassifierAgrees

\* The campaign counts no false positive, and no false negative but the
\* decisions the reasoner lifted over the threshold.
THEOREM CampaignIsClean == Spec => []ClassifierAgrees
<1>1. QED
  BY CountsAgree, Inductive, PTL
=============================================================================
