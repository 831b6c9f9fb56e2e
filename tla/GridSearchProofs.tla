-------------------------- MODULE GridSearchProofs --------------------------
(***************************************************************************)
(* Proof that Calibrate returns the first optimum of its grid, for every   *)
(* corpus and every input profile, and that it never loses agreement       *)
(* against the default thresholds.                                         *)
(***************************************************************************)
EXTENDS GridSearch, FiniteSetTheorems, TLAPS

\* An agreement is a number of entries of the corpus.
LEMMA AgreementRange ==
  ASSUME corpus \in Corpora, NEW t
  PROVE  CountAgreement(corpus, t) \in 0..Len(corpus)
<1>1. corpus \in Seq(Entries) /\ Len(corpus) \in Nat /\ DOMAIN corpus = 1..Len(corpus)
  BY GridAssumption
<1>2. IsFiniteSet(1..Len(corpus)) /\ Cardinality(1..Len(corpus)) = Len(corpus)
  BY <1>1, FS_Interval
<1>3. Agreeing(corpus, t) \subseteq 1..Len(corpus)
  BY <1>1 DEF Agreeing
<1>4. /\ IsFiniteSet(Agreeing(corpus, t))
      /\ Cardinality(Agreeing(corpus, t)) <= Cardinality(1..Len(corpus))
  BY <1>2, <1>3, FS_Subset
<1>5. Cardinality(Agreeing(corpus, t)) \in Nat
  BY <1>4, FS_CardinalityType
<1>6. QED
  BY <1>1, <1>2, <1>4, <1>5 DEF CountAgreement

-----------------------------------------------------------------------------
(* The loops.                                                              *)

Counters(c) == /\ c.d \in 2..18
               /\ c.g \in 1..4
               /\ c.a \in 14..19
               /\ c.s \in 6..14

LEMMA LoopsAreCounters == ASSUME NEW c \in Loops PROVE Counters(c)
BY DEF Loops, Counters

LEMMA SameCounters ==
  ASSUME NEW x \in Loops, NEW y \in Loops,
         x.d = y.d, x.g = y.g, x.a = y.a, x.s = y.s
  PROVE  x = y
BY DEF Loops

LEMMA FirstIsALoop == First \in Loops /\ ~Skipped(First)
BY DEF First, Loops, Skipped

\* The points the search has considered.
Visited(x) == pc = "returned" \/ Before(x, at)

\* Nothing is before the first point.
LEMMA NothingBeforeFirst == ASSUME NEW x \in Loops PROVE ~Before(x, First)
BY LoopsAreCounters DEF Counters, Before, First

\* The pairs up to the one the search is at.
UpToPair(x) == \/ x.d < at.d
               \/ x.d = at.d /\ x.g <= at.g

\* A step of the two outer loops visits every point up to the pair it leaves.
LEMMA NextPairMoves ==
  ASSUME pc = "search", at \in Loops, NextPair
  PROVE  /\ at' \in Loops /\ pc' \in {"search", "returned"}
         /\ \A x \in Loops : Visited(x)' <=> UpToPair(x)
<1>1. Counters(at)
  BY LoopsAreCounters
<1>2. CASE at.g < 4
  <2>1. at' = [d |-> at.d, g |-> at.g + 1, a |-> 14, s |-> 6] /\ pc' = "search"
    BY <1>2 DEF NextPair, First
  <2>2. at' \in Loops
    BY <1>1, <1>2, <2>1 DEF Loops, Counters
  <2>3. ASSUME NEW x \in Loops
        PROVE  Before(x, at') <=> UpToPair(x)
    <3>1. Counters(x)
      BY LoopsAreCounters
    <3>2. QED
      BY <1>1, <1>2, <2>1, <3>1, SMT DEF Before, Counters, UpToPair
  <2>4. QED
    BY <2>1, <2>2, <2>3 DEF Visited
<1>3. CASE at.g >= 4 /\ at.d < 18
  <2>1. at' = [d |-> at.d + 1, g |-> 1, a |-> 14, s |-> 6] /\ pc' = "search"
    BY <1>1, <1>3 DEF NextPair, First, Counters
  <2>2. at' \in Loops
    BY <1>1, <1>3, <2>1 DEF Loops, Counters
  <2>3. ASSUME NEW x \in Loops
        PROVE  Before(x, at') <=> UpToPair(x)
    <3>1. Counters(x)
      BY LoopsAreCounters
    <3>2. QED
      BY <1>1, <1>3, <2>1, <3>1, SMT DEF Before, Counters, UpToPair
  <2>4. QED
    BY <2>1, <2>2, <2>3 DEF Visited
<1>4. CASE at.g >= 4 /\ at.d >= 18
  <2>1. at' = at /\ pc' = "returned"
    BY <1>1, <1>4 DEF NextPair, Counters
  <2>2. ASSUME NEW x \in Loops
        PROVE  UpToPair(x)
    <3>1. Counters(x)
      BY LoopsAreCounters
    <3>2. QED
      BY <1>1, <1>4, <3>1, SMT DEF Counters, UpToPair
  <2>3. QED
    BY <2>1, <2>2 DEF Visited
<1>5. QED
  BY <1>1, <1>2, <1>3, <1>4, SMT DEF Counters

\* continue leaves the rest of a pair that holds no point of the grid.
LEMMA NextPairVisits ==
  ASSUME pc = "search", at \in Loops, Skipped(at), NextPair
  PROVE  \A x \in Grid : Visited(x)' <=> Visited(x)
<1>1. Counters(at)
  BY LoopsAreCounters
<1>2. SUFFICES ASSUME NEW x \in Grid PROVE Visited(x)' <=> Visited(x)
  OBVIOUS
<1>3. x \in Loops /\ Counters(x) /\ ~Skipped(x)
  BY LoopsAreCounters DEF Grid
<1>4. Visited(x)' <=> UpToPair(x)
  BY <1>3, NextPairMoves
<1>5. Before(x, at) <=> UpToPair(x)
  BY <1>1, <1>3, SMT DEF Before, Counters, Skipped, UpToPair
<1>6. QED
  BY <1>4, <1>5 DEF Visited

\* An iteration visits the point it is at and no other.
LEMMA NextPointVisits ==
  ASSUME pc = "search", at \in Loops, NextPoint
  PROVE  /\ at' \in Loops /\ pc' \in {"search", "returned"}
         /\ \A x \in Loops : Visited(x)' <=> (Visited(x) \/ x = at)
<1>1. Counters(at)
  BY LoopsAreCounters
<1>2. ASSUME NEW x \in Loops
      PROVE  (x = at) <=> x.d = at.d /\ x.g = at.g /\ x.a = at.a /\ x.s = at.s
  BY SameCounters
<1>3. CASE at.s < 14
  <2>1. at' = [d |-> at.d, g |-> at.g, a |-> at.a, s |-> at.s + 1] /\ pc' = "search"
    BY <1>3 DEF NextPoint, Loops
  <2>2. at' \in Loops
    BY <1>1, <1>3, <2>1 DEF Loops, Counters
  <2>3. ASSUME NEW x \in Loops PROVE Before(x, at') <=> (Before(x, at) \/ x = at)
    <3>1. Counters(x)
      BY LoopsAreCounters
    <3>2. QED
      BY <1>1, <1>2, <1>3, <2>1, <3>1, SMT DEF Before, Counters, UpToPair
  <2>4. QED
    BY <2>1, <2>2, <2>3 DEF Visited
<1>4. CASE at.s >= 14 /\ at.a < 19
  <2>0. at' = [at EXCEPT !.s = 6, !.a = @ + 1] /\ UNCHANGED pc
    BY <1>1, <1>4, SMT DEF NextPoint, Counters
  <2>1. at' = [d |-> at.d, g |-> at.g, a |-> at.a + 1, s |-> 6] /\ pc' = "search"
    BY <2>0 DEF Loops
  <2>2. at' \in Loops
    BY <1>1, <1>4, <2>1 DEF Loops, Counters
  <2>3. ASSUME NEW x \in Loops PROVE Before(x, at') <=> (Before(x, at) \/ x = at)
    <3>1. Counters(x)
      BY LoopsAreCounters
    <3>2. QED
      BY <1>1, <1>2, <1>4, <2>1, <3>1, SMT DEF Before, Counters, UpToPair
  <2>4. QED
    BY <2>1, <2>2, <2>3 DEF Visited
<1>5. CASE at.s >= 14 /\ at.a >= 19
  <2>1. NextPair
    BY <1>1, <1>5, SMT DEF NextPoint, Counters
  <2>2. ASSUME NEW x \in Loops
        PROVE  UpToPair(x) <=> (Before(x, at) \/ x = at)
    <3>1. Counters(x)
      BY LoopsAreCounters
    <3>2. QED
      BY <1>1, <1>2, <1>5, <3>1, SMT DEF Before, Counters, UpToPair
  <2>3. QED
    BY <2>1, <2>2, NextPairMoves DEF Visited
<1>6. QED
  BY <1>1, <1>3, <1>4, <1>5, SMT DEF Counters

-----------------------------------------------------------------------------
(* The invariant of the search.                                            *)

Agreement(c) == CountAgreement(corpus, ThresholdsAt(c))

\* c is the first of the visited points with the most agreement.
Leads(c) ==
  \A x \in Grid : Visited(x) =>
    /\ Agreement(x) <= Agreement(c)
    /\ Before(x, c) => Agreement(x) < Agreement(c)

\* Nothing is visited yet, or bestT is the point that leads.
Progress ==
  \/ best = -1 /\ bestT = in /\ \A x \in Grid : ~Visited(x)
  \/ \E c \in Grid : /\ Visited(c) /\ Leads(c)
                     /\ bestT = ThresholdsAt(c) /\ best = Agreement(c)

GInv == TypeOK /\ Progress

LEMMA AgreementType ==
  ASSUME TypeOK, NEW c PROVE Agreement(c) \in 0..Len(corpus)
BY AgreementRange DEF Agreement, TypeOK

LEMMA LenIsNat == ASSUME TypeOK PROVE Len(corpus) \in Nat
BY GridAssumption DEF TypeOK

LEMMA BeforeIsStrict ==
  ASSUME NEW x \in Loops, NEW y \in Loops, Before(x, y) PROVE ~Before(y, x)
<1>1. Counters(x) /\ Counters(y)
  BY LoopsAreCounters
<1>2. QED
  BY <1>1, SMT DEF Before, Counters

LEMMA StepsAreScores == ASSUME NEW k \in 0..20 PROVE k * Step50 \in 0..Scale
<1>1. k * Step50 \in Int /\ 0 <= k * Step50 /\ k * Step50 <= 1000000
  BY SMT DEF Step50
<1>2. Scale \in Int /\ 1000000 <= Scale
  BY SMT DEF Scale
<1>3. k * Step50 <= Scale
  BY <1>1, <1>2, SMT
<1>4. QED
  BY <1>1, <1>2, <1>3

\* A point of the grid holds thresholds.
LEMMA PointsAreThresholds ==
  ASSUME NEW c \in Grid PROVE ThresholdsAt(c) \in Thresholds
<1>0. Counters(c) /\ ~(c.d + c.g > 19)
  BY LoopsAreCounters DEF Grid, Skipped
<1>1. Counters(c) /\ c.d + c.g <= 19
  BY <1>0, SMT DEF Counters
<1>2. /\ c.d \in 0..20 /\ c.g \in 0..20 /\ c.a \in 0..20 /\ c.s \in 0..20
      /\ c.d + c.g \in 0..20
  BY <1>1, SMT DEF Counters
<1>3. /\ c.d * Step50 \in 0..Scale /\ c.g * Step50 \in 0..Scale
      /\ c.a * Step50 \in 0..Scale /\ c.s * Step50 \in 0..Scale
      /\ (c.d + c.g) * Step50 \in 0..Scale
  BY <1>2, StepsAreScores
<1>4. QED
  BY <1>3, Zenon DEF ThresholdsAt, Thresholds

LEMMA InitGInv == Init => GInv
<1>1. SUFFICES ASSUME Init PROVE GInv
  OBVIOUS
<1>2. bestT \in Thresholds /\ corpus \in Corpora /\ in \in Ins
  BY <1>1, GridAssumption DEF Init
<1>3. Len(corpus) \in Nat
  BY <1>2, GridAssumption
<1>4. TypeOK
  BY <1>1, <1>2, <1>3, FirstIsALoop DEF Init, TypeOK
<1>5. Progress
  BY <1>1, NothingBeforeFirst DEF Init, Progress, Visited, Grid
<1>6. QED
  BY <1>4, <1>5 DEF GInv

\* The agreements do not move while the corpus does not.
LEMMA SameAgreement ==
  ASSUME UNCHANGED corpus, NEW c PROVE Agreement(c)' = Agreement(c)
BY DEF Agreement

LEMMA SkipGInv == ASSUME GInv, Skip PROVE GInv'
<1>1. at' \in Loops /\ pc' \in {"search", "returned"}
  BY NextPairMoves DEF GInv, TypeOK, Skip
<1>2. \A x \in Grid : Visited(x)' <=> Visited(x)
  BY NextPairVisits DEF GInv, TypeOK, Skip
<1>3. UNCHANGED <<corpus, in, best, bestT>>
  BY DEF Skip
<1>4. TypeOK'
  BY <1>1, <1>3 DEF GInv, TypeOK
<1>5. \A x \in Grid : Agreement(x)' = Agreement(x)
  BY <1>3, SameAgreement
<1>6. Progress'
  BY <1>2, <1>3, <1>5 DEF GInv, Progress, Leads
<1>7. QED
  BY <1>4, <1>6 DEF GInv

LEMMA KeepGInv == ASSUME GInv, Keep PROVE GInv'
<1>1. /\ at' \in Loops /\ pc' \in {"search", "returned"}
      /\ \A x \in Loops : Visited(x)' <=> (Visited(x) \/ x = at)
  BY NextPointVisits DEF GInv, TypeOK, Keep
<1>2. UNCHANGED <<corpus, in, best, bestT>>
  BY DEF Keep
<1>3. TypeOK'
  BY <1>1, <1>2 DEF GInv, TypeOK
<1>4. \A x \in Grid : Agreement(x)' = Agreement(x) /\ Agreement(x) \in Int
  BY <1>2, SameAgreement, AgreementType, LenIsNat DEF GInv
<1>5. at \in Grid /\ pc = "search"
  BY DEF Keep, GInv, TypeOK, Grid
<1>6. Agreement(at) <= best /\ best # -1
  <2>1. ~(Agreement(at) > best)
    BY DEF Keep, Improves, Agreement
  <2>2. Agreement(at) \in 0..Len(corpus) /\ Len(corpus) \in Nat /\ best \in -1..Len(corpus)
    BY AgreementType, LenIsNat DEF GInv, TypeOK
  <2>3. QED
    BY <2>1, <2>2
<1>7. PICK c \in Grid : /\ Visited(c) /\ Leads(c)
                        /\ bestT = ThresholdsAt(c) /\ best = Agreement(c)
  BY <1>6 DEF GInv, Progress
<1>8. ~Before(at, c)
  BY <1>5, <1>7, BeforeIsStrict DEF Visited, Grid
<1>9. Leads(c)'
  <2>1. SUFFICES ASSUME NEW x \in Grid, Visited(x)'
                 PROVE  /\ Agreement(x) <= Agreement(c)
                        /\ Before(x, c) => Agreement(x) < Agreement(c)
    BY <1>4 DEF Leads
  <2>2. CASE x = at
    BY <2>2, <1>6, <1>7, <1>8
  <2>3. CASE x # at
    BY <2>1, <2>3, <1>1, <1>7 DEF Leads, Grid
  <2>4. QED
    BY <2>2, <2>3
<1>10. Visited(c)' /\ bestT' = ThresholdsAt(c) /\ best' = Agreement(c)'
  BY <1>1, <1>2, <1>4, <1>7 DEF Grid
<1>11. Progress'
  BY <1>9, <1>10 DEF Progress
<1>12. QED
  BY <1>3, <1>11 DEF GInv

LEMMA ImproveGInv == ASSUME GInv, Improve PROVE GInv'
<1>1. /\ at' \in Loops /\ pc' \in {"search", "returned"}
      /\ \A x \in Loops : Visited(x)' <=> (Visited(x) \/ x = at)
  BY NextPointVisits DEF GInv, TypeOK, Improve
<1>2. UNCHANGED <<corpus, in>>
  BY DEF Improve
<1>3. PICK c \in Grid : c = at
  BY DEF Improve, GInv, TypeOK, Grid
<1>4. Agreement(c) > best /\ best' = Agreement(c) /\ bestT' = ThresholdsAt(c)
  BY <1>3 DEF Improve, Improves, Agreement
<1>5. TypeOK'
  <2>1. best' \in -1..Len(corpus)
    BY <1>4, AgreementType, LenIsNat DEF GInv
  <2>2. QED
    BY <1>1, <1>2, <1>4, <2>1, PointsAreThresholds DEF GInv, TypeOK
<1>6. \A x \in Grid : Agreement(x)' = Agreement(x) /\ Agreement(x) \in Int
  BY <1>2, SameAgreement, AgreementType, LenIsNat DEF GInv
<1>7. best \in Int
  BY LenIsNat DEF GInv, TypeOK
<1>8. ASSUME NEW x \in Grid, Visited(x) PROVE Agreement(x) <= best
  BY <1>8 DEF GInv, Progress, Leads
<1>9. ~Before(c, c)
  BY BeforeIsStrict DEF Grid
<1>10. Leads(c)'
  <2>1. SUFFICES ASSUME NEW x \in Grid, Visited(x)'
                 PROVE  /\ Agreement(x) <= Agreement(c)
                        /\ Before(x, c) => Agreement(x) < Agreement(c)
    BY <1>6 DEF Leads
  <2>2. CASE x = c
    BY <2>2, <1>6, <1>9
  <2>3. CASE x # c
    <3>1. Agreement(x) <= best
      BY <2>1, <2>3, <1>1, <1>3, <1>8 DEF Grid
    <3>2. QED
      BY <3>1, <1>4, <1>6, <1>7
  <2>4. QED
    BY <2>2, <2>3
<1>11. Visited(c)' /\ best' = Agreement(c)'
  BY <1>1, <1>3, <1>4, <1>6 DEF Grid
<1>12. Progress'
  BY <1>4, <1>10, <1>11 DEF Progress
<1>13. QED
  BY <1>5, <1>12 DEF GInv

\* The invariant holds throughout.
THEOREM Invariance == Spec => []GInv
<1>1. GInv /\ [Next]_vars => GInv'
  <2>1. SUFFICES ASSUME GInv, [Next]_vars PROVE GInv'
    OBVIOUS
  <2>2. CASE Skip
    BY <2>1, <2>2, SkipGInv
  <2>3. CASE Improve
    BY <2>1, <2>3, ImproveGInv
  <2>4. CASE Keep
    BY <2>1, <2>4, KeepGInv
  <2>5. CASE UNCHANGED vars
    <3>1. UNCHANGED <<pc, corpus, in, at, best, bestT>>
      BY <2>5 DEF vars
    <3>2. \A x : Agreement(x)' = Agreement(x) /\ (Visited(x)' <=> Visited(x))
      BY <3>1 DEF Agreement, Visited
    <3>3. TypeOK'
      BY <2>1, <3>1 DEF GInv, TypeOK
    <3>4. Progress'
      BY <2>1, <3>1, <3>2 DEF GInv, Progress, Leads
    <3>5. QED
      BY <3>3, <3>4 DEF GInv
  <2>6. QED
    BY <2>1, <2>2, <2>3, <2>4, <2>5 DEF Next
<1>2. QED
  BY InitGInv, <1>1, PTL DEF Spec

-----------------------------------------------------------------------------
(* Theorems.                                                               *)

\* The counters stay on the loops, the count within the corpus and the
\* thresholds in [0, 1].
THEOREM TypeCorrect == Spec => []TypeOK
<1>1. GInv => TypeOK
  BY DEF GInv
<1>2. QED
  BY <1>1, Invariance, PTL

\* At the return every point is visited, and the first point is one.
LEMMA ReturnedLeads ==
  ASSUME GInv, pc = "returned"
  PROVE  \E c \in Grid : Leads(c) /\ bestT = ThresholdsAt(c)
<1>1. First \in Grid /\ Visited(First)
  BY FirstIsALoop DEF Grid, Visited
<1>2. QED
  BY <1>1 DEF GInv, Progress

\* Whatever the corpus and the input profile, Calibrate returns thresholds
\* of the grid with the most agreement, the first such in the documented order.
THEOREM FirstOptimum == Spec => []ReturnsTheFirstOptimum
<1>1. GInv => ReturnsTheFirstOptimum
  <2>1. SUFFICES ASSUME GInv, pc = "returned"
                 PROVE  \E c \in Grid : bestT = ThresholdsAt(c) /\ IsOptimal(c)
    BY DEF ReturnsTheFirstOptimum
  <2>2. PICK c \in Grid : Leads(c) /\ bestT = ThresholdsAt(c)
    BY <2>1, ReturnedLeads
  <2>3. IsOptimal(c)
    BY <2>1, <2>2 DEF IsOptimal, Leads, Visited, Agreement
  <2>4. QED
    BY <2>2, <2>3
<1>2. QED
  BY <1>1, Invariance, PTL

\* The point of the grid that simulates as the default thresholds.
LikeDefault == [d |-> 9, g |-> 4, a |-> 17, s |-> 10]

LEMMA DefaultSimulates ==
  /\ LikeDefault \in Grid
  /\ CountAgreement(corpus, ThresholdsAt(LikeDefault))
       = CountAgreement(corpus, DefaultThresholds)
<1>1. LikeDefault \in Grid
  BY SMT DEF LikeDefault, Grid, Loops, Skipped
<1>2. /\ ThresholdsAt(LikeDefault).probabiliste = DefaultThresholds.probabiliste
      /\ ThresholdsAt(LikeDefault).authBlock = DefaultThresholds.authBlock
      /\ ThresholdsAt(LikeDefault).sensCoherence = DefaultThresholds.sensCoherence
      /\ ThresholdsAt(LikeDefault).invCoherence = DefaultThresholds.invCoherence
  BY SMT DEF LikeDefault, ThresholdsAt, DefaultThresholds, Step50
<1>3. \A e : Simulate(e, ThresholdsAt(LikeDefault)) = Simulate(e, DefaultThresholds)
  BY <1>2 DEF Simulate
<1>4. QED
  BY <1>1, <1>3 DEF CountAgreement, Agreeing

\* Calibrating never loses agreement against the default thresholds.
THEOREM NoLossAgainstDefault == Spec => []NoWorseThanDefault
<1>1. GInv => NoWorseThanDefault
  <2>1. SUFFICES ASSUME GInv, pc = "returned"
                 PROVE  CountAgreement(corpus, bestT)
                          >= CountAgreement(corpus, DefaultThresholds)
    BY DEF NoWorseThanDefault
  <2>2. PICK c \in Grid : Leads(c) /\ bestT = ThresholdsAt(c)
    BY <2>1, ReturnedLeads
  <2>3. Agreement(LikeDefault) <= Agreement(c)
    BY <2>1, <2>2, DefaultSimulates DEF Leads, Visited
  <2>4. /\ Agreement(LikeDefault) \in 0..Len(corpus)
        /\ Agreement(c) \in 0..Len(corpus) /\ Len(corpus) \in Nat
    BY <2>1, AgreementType, LenIsNat DEF GInv
  <2>5. QED
    BY <2>2, <2>3, <2>4, DefaultSimulates DEF Agreement
<1>2. QED
  BY <1>1, Invariance, PTL

\* Points with the same sum simulate alike, so of those the tie-break takes
\* the lowest Deterministe.
THEOREM TieBreak == Spec => []TieBreakSplitsTheSum
<1>1. GInv => TieBreakSplitsTheSum
  <2>1. SUFFICES ASSUME GInv, pc = "returned"
                 PROVE  \/ bestT.deterministe = 2 * Step50
                        \/ bestT.hysteresisGap = 4 * Step50
    BY DEF TieBreakSplitsTheSum
  <2>2. PICK c \in Grid : Leads(c) /\ bestT = ThresholdsAt(c)
    BY <2>1, ReturnedLeads
  <2>3. Counters(c) /\ c \in Loops /\ ~Skipped(c)
    BY LoopsAreCounters DEF Grid
  <2>4. bestT.deterministe = c.d * Step50 /\ bestT.hysteresisGap = c.g * Step50
    BY <2>2 DEF ThresholdsAt
  <2>5. ASSUME c.d # 2, c.g # 4 PROVE FALSE
    <3> DEFINE x == [d |-> c.d - 1, g |-> c.g + 1, a |-> c.a, s |-> c.s]
    <3>1. x \in Grid
      BY <2>3, <2>5, SMT DEF Counters, Grid, Loops, Skipped
    <3>2. Before(x, c)
      BY <2>3, SMT DEF Before, Counters
    <3>3. /\ ThresholdsAt(x).probabiliste = ThresholdsAt(c).probabiliste
          /\ ThresholdsAt(x).authBlock = ThresholdsAt(c).authBlock
          /\ ThresholdsAt(x).sensCoherence = ThresholdsAt(c).sensCoherence
          /\ ThresholdsAt(x).invCoherence = ThresholdsAt(c).invCoherence
      <4>1. (c.d - 1) + (c.g + 1) = c.d + c.g
        BY <2>3, SMT DEF Counters
      <4>2. QED
        BY <4>1 DEF ThresholdsAt
    <3>4. \A e : Simulate(e, ThresholdsAt(x)) = Simulate(e, ThresholdsAt(c))
      BY <3>3 DEF Simulate
    <3>5. Agreement(x) = Agreement(c)
      BY <3>4 DEF Agreement, CountAgreement, Agreeing
    <3>6. Agreement(x) < Agreement(c)
      BY <2>1, <2>2, <3>1, <3>2 DEF Leads, Visited
    <3>7. Agreement(c) \in 0..Len(corpus) /\ Len(corpus) \in Nat
      BY <2>1, AgreementType, LenIsNat DEF GInv
    <3>8. QED
      BY <3>5, <3>6, <3>7
  <2>6. QED
    BY <2>4, <2>5
<1>2. QED
  BY <1>1, Invariance, PTL
-----------------------------------------------------------------------------
(* The search ends.                                                        *)

\* The number of an iteration in the four loops taken as one.
Numbered(d, g, a, s) == ((d - 2) * 4 + (g - 1)) * 54 + (a - 14) * 9 + (s - 6)
Index(c) == Numbered(c.d, c.g, c.a, c.s)

\* The last iteration is (18, 4, 19, 14).
LastIndex == 3671

MovesOn ==
  /\ pc = "search" /\ Index(at) \in 0..LastIndex
  /\ \/ pc' = "search" /\ Index(at') > Index(at)
     \/ pc' = "returned"

LEMMA IndexRange == ASSUME NEW c \in Loops PROVE Index(c) \in 0..LastIndex
<1> DEFINE pair  == (c.d - 2) * 4 + (c.g - 1)
           point == (c.a - 14) * 9 + (c.s - 6)
<1>1. Counters(c)
  BY LoopsAreCounters
<1>2. pair \in 0..67
  BY <1>1, SMT DEF Counters
<1>3. point \in 0..53
  BY <1>1, SMT DEF Counters
<1>4. Index(c) = pair * 54 + point
  BY <1>1, SMT DEF Counters, Index, Numbered
<1> HIDE DEF pair, point
<1>5. QED
  BY <1>2, <1>3, <1>4, SMT DEF LastIndex

LEMMA NumbersGrow ==
  ASSUME NEW d \in 2..18, NEW g \in 1..4, NEW a \in 14..19, NEW s \in 6..14
  PROVE  /\ Numbered(d, g, a, s + 1) > Numbered(d, g, a, s)
         /\ Numbered(d, g, a + 1, 6) > Numbered(d, g, a, s)
         /\ Numbered(d, g + 1, 14, 6) > Numbered(d, g, a, s)
         /\ Numbered(d + 1, 1, 14, 6) > Numbered(d, g, a, s)
<1>1. Numbered(d, g, a, s + 1) > Numbered(d, g, a, s)
  BY SMT DEF Numbered
<1>2. Numbered(d, g, a + 1, 6) > Numbered(d, g, a, s)
  BY SMT DEF Numbered
<1>3. Numbered(d, g + 1, 14, 6) > Numbered(d, g, a, s)
  BY SMT DEF Numbered
<1>4. Numbered(d + 1, 1, 14, 6) > Numbered(d, g, a, s)
  BY SMT DEF Numbered
<1>5. QED
  BY <1>1, <1>2, <1>3, <1>4

LEMMA NextPairMovesOn ==
  ASSUME pc = "search", at \in Loops, NextPair
  PROVE  (pc' = "search" /\ Index(at') > Index(at)) \/ pc' = "returned"
<1>1. Counters(at)
  BY LoopsAreCounters
<1>2. CASE at.g < 4
  <2>1. at' = [d |-> at.d, g |-> at.g + 1, a |-> 14, s |-> 6] /\ pc' = "search"
    BY <1>2 DEF NextPair, First
  <2>2. /\ Index(at') = Numbered(at'.d, at'.g, at'.a, at'.s)
        /\ Index(at) = Numbered(at.d, at.g, at.a, at.s)
    BY DEF Index
  <2>3. Index(at') > Index(at)
    BY <1>1, <2>1, <2>2, NumbersGrow DEF Counters
  <2>4. QED
    BY <2>1, <2>3
<1>3. CASE at.g >= 4 /\ at.d < 18
  <2>1. at' = [d |-> at.d + 1, g |-> 1, a |-> 14, s |-> 6] /\ pc' = "search"
    BY <1>1, <1>3 DEF NextPair, First, Counters
  <2>2. /\ Index(at') = Numbered(at'.d, at'.g, at'.a, at'.s)
        /\ Index(at) = Numbered(at.d, at.g, at.a, at.s)
    BY DEF Index
  <2>3. Index(at') > Index(at)
    BY <1>1, <2>1, <2>2, NumbersGrow DEF Counters
  <2>4. QED
    BY <2>1, <2>3
<1>4. CASE at.g >= 4 /\ at.d >= 18
  BY <1>1, <1>4 DEF NextPair, Counters
<1>5. QED
  BY <1>1, <1>2, <1>3, <1>4, SMT DEF Counters

LEMMA NextPointMovesOn ==
  ASSUME pc = "search", at \in Loops, NextPoint
  PROVE  (pc' = "search" /\ Index(at') > Index(at)) \/ pc' = "returned"
<1>1. Counters(at)
  BY LoopsAreCounters
<1>2. CASE at.s < 14
  <2>1. at' = [d |-> at.d, g |-> at.g, a |-> at.a, s |-> at.s + 1] /\ pc' = "search"
    BY <1>2 DEF NextPoint, Loops
  <2>2. /\ Index(at') = Numbered(at'.d, at'.g, at'.a, at'.s)
        /\ Index(at) = Numbered(at.d, at.g, at.a, at.s)
    BY DEF Index
  <2>3. Index(at') > Index(at)
    BY <1>1, <2>1, <2>2, NumbersGrow DEF Counters
  <2>4. QED
    BY <2>1, <2>3
<1>3. CASE at.s >= 14 /\ at.a < 19
  <2>0. at' = [at EXCEPT !.s = 6, !.a = @ + 1] /\ UNCHANGED pc
    BY <1>1, <1>3, SMT DEF NextPoint, Counters
  <2>1. at' = [d |-> at.d, g |-> at.g, a |-> at.a + 1, s |-> 6] /\ pc' = "search"
    BY <2>0 DEF Loops
  <2>2. /\ Index(at') = Numbered(at'.d, at'.g, at'.a, at'.s)
        /\ Index(at) = Numbered(at.d, at.g, at.a, at.s)
    BY DEF Index
  <2>3. Index(at') > Index(at)
    BY <1>1, <2>1, <2>2, NumbersGrow DEF Counters
  <2>4. QED
    BY <2>1, <2>3
<1>4. CASE at.s >= 14 /\ at.a >= 19
  <2>1. NextPair
    BY <1>1, <1>4, SMT DEF NextPoint, Counters
  <2>2. QED
    BY <2>1, NextPairMovesOn
<1>5. QED
  BY <1>1, <1>2, <1>3, <1>4, SMT DEF Counters

\* Calibrate returns: every iteration goes on to a later one of the four loops,
\* or to the return, and there are 3672 of them; nothing runs after the return.
THEOREM SearchEnds == Spec => [][MovesOn]_vars
<1>1. TypeOK /\ [Next]_vars => [MovesOn]_vars
  <2>1. SUFFICES ASSUME TypeOK, Next PROVE MovesOn
    BY DEF vars
  <2>2. pc = "search" /\ at \in Loops /\ Index(at) \in 0..LastIndex
    BY <2>1, IndexRange DEF Next, Skip, Improve, Keep, TypeOK
  <2>3. NextPair \/ NextPoint
    BY <2>1 DEF Next, Skip, Improve, Keep
  <2>4. QED
    BY <2>2, <2>3, NextPairMovesOn, NextPointMovesOn DEF MovesOn
<1>2. QED
  BY <1>1, TypeCorrect, PTL DEF Spec

-----------------------------------------------------------------------------
(* What is returned depends on the labelled entries alone.                 *)

\* IsOptimal, of any corpus.
OptimalFor(lines, c) ==
  \A x \in Grid :
    /\ CountAgreement(lines, ThresholdsAt(x)) <= CountAgreement(lines, ThresholdsAt(c))
    /\ Before(x, c) =>
         CountAgreement(lines, ThresholdsAt(x)) < CountAgreement(lines, ThresholdsAt(c))

\* The thresholds Calibrate computes from a corpus.
ResultOf(lines) == ThresholdsAt(CHOOSE c \in Grid : OptimalFor(lines, c))

ReturnsTheResult == pc = "returned" => bestT = ResultOf(corpus)

LEMMA BeforeIsTotal ==
  ASSUME NEW x \in Loops, NEW y \in Loops
  PROVE  x = y \/ Before(x, y) \/ Before(y, x)
<1>1. Counters(x) /\ Counters(y)
  BY LoopsAreCounters
<1>2. (x.d = y.d /\ x.g = y.g /\ x.a = y.a /\ x.s = y.s) \/ Before(x, y) \/ Before(y, x)
  BY <1>1, SMT DEF Before, Counters
<1>3. QED
  BY <1>2, SameCounters

LEMMA CountRange ==
  ASSUME NEW lines \in Seq(Entries), NEW t
  PROVE  CountAgreement(lines, t) \in Nat
<1>1. Len(lines) \in Nat /\ DOMAIN lines = 1..Len(lines)
  OBVIOUS
<1>2. IsFiniteSet(1..Len(lines))
  BY <1>1, FS_Interval
<1>3. IsFiniteSet(Agreeing(lines, t))
  BY <1>1, <1>2, FS_Subset DEF Agreeing
<1>4. QED
  BY <1>3, FS_CardinalityType DEF CountAgreement

\* The documented order leaves one optimum.
LEMMA OneOptimum ==
  ASSUME NEW lines \in Seq(Entries), NEW c \in Grid, NEW e \in Grid,
         OptimalFor(lines, c), OptimalFor(lines, e)
  PROVE  c = e
<1> DEFINE n(x) == CountAgreement(lines, ThresholdsAt(x))
<1>1. n(c) \in Nat /\ n(e) \in Nat
  BY CountRange
<1>2. n(c) <= n(e) /\ n(e) <= n(c)
  BY DEF OptimalFor
<1>3. (Before(c, e) => n(c) < n(e)) /\ (Before(e, c) => n(e) < n(c))
  BY DEF OptimalFor
<1> HIDE DEF n
<1>4. ~Before(c, e) /\ ~Before(e, c)
  BY <1>1, <1>2, <1>3
<1>5. QED
  BY <1>4, BeforeIsTotal DEF Grid

\* Calibrate is a function of the corpus: neither the input profile nor the way
\* the search went shows in the thresholds it returns, so two calibrations of
\* the same corpus agree (e2e calibration_determinism_test.go).
THEOREM CalibrationIsDeterministic == Spec => []ReturnsTheResult
<1>1. GInv /\ ReturnsTheFirstOptimum => ReturnsTheResult
  <2>1. SUFFICES ASSUME GInv, ReturnsTheFirstOptimum, pc = "returned"
                 PROVE  bestT = ResultOf(corpus)
    BY DEF ReturnsTheResult
  <2>2. PICK c \in Grid : bestT = ThresholdsAt(c) /\ IsOptimal(c)
    BY <2>1 DEF ReturnsTheFirstOptimum
  <2>3. corpus \in Seq(Entries)
    BY <2>1, GridAssumption DEF GInv, TypeOK
  <2>4. OptimalFor(corpus, c)
    BY <2>2 DEF IsOptimal, OptimalFor
  <2>5. c = CHOOSE e \in Grid : OptimalFor(corpus, e)
    BY <2>3, <2>4, OneOptimum
  <2>6. QED
    BY <2>2, <2>5 DEF ResultOf
<1>2. QED
  BY <1>1, Invariance, FirstOptimum, PTL

\* Entries in another order agree as often.
LEMMA SameCount ==
  ASSUME NEW lines \in Seq(Entries), NEW other \in Seq(Entries), NEW t,
         NEW p \in Bijection(DOMAIN other, DOMAIN lines),
         \A i \in DOMAIN other : other[i] = lines[p[i]]
  PROVE  CountAgreement(other, t) = CountAgreement(lines, t)
<1> DEFINE A == Agreeing(other, t)
           B == Agreeing(lines, t)
           q == [i \in A |-> p[i]]
<1>1. Len(other) \in Nat /\ DOMAIN other = 1..Len(other)
  OBVIOUS
<1>2. IsFiniteSet(A)
  <2>1. IsFiniteSet(1..Len(other))
    BY <1>1, FS_Interval
  <2>2. A \subseteq 1..Len(other)
    BY <1>1 DEF Agreeing
  <2>3. QED
    BY <2>1, <2>2, FS_Subset
<1>3. /\ p \in [DOMAIN other -> DOMAIN lines]
      /\ \A i, j \in DOMAIN other : p[i] = p[j] => i = j
      /\ \A k \in DOMAIN lines : \E i \in DOMAIN other : p[i] = k
  BY DEF Bijection, Injection, Surjection, IsInjective
<1>4. A \subseteq DOMAIN other /\ B \subseteq DOMAIN lines
  BY DEF Agreeing
<1>5. \A i \in DOMAIN other : i \in A <=> p[i] \in B
  BY <1>3 DEF Agreeing
<1>6. q \in Bijection(A, B)
  <2>1. q \in [A -> B]
    BY <1>4, <1>5
  <2>2. \A i, j \in A : q[i] = q[j] => i = j
    BY <1>3, <1>4
  <2>3. \A k \in B : \E i \in A : q[i] = k
    BY <1>3, <1>4, <1>5
  <2>4. QED
    BY <2>1, <2>2, <2>3 DEF Bijection, Injection, Surjection, IsInjective
<1> HIDE DEF A, B, q
<1>7. Cardinality(A) = Cardinality(B)
  <2>1. ExistsBijection(A, B)
    BY <1>6 DEF ExistsBijection
  <2>2. QED
    BY <1>2, <2>1, FS_Bijection
<1>8. QED
  BY <1>7 DEF A, B, CountAgreement

\* The order of the lines of the corpus file does not count: two files with the
\* same entries, each as often, calibrate to the same thresholds.
THEOREM LineOrderDoesNotCount ==
  ASSUME NEW lines \in Seq(Entries), NEW other \in Seq(Entries),
         NEW p \in Bijection(DOMAIN other, DOMAIN lines),
         \A i \in DOMAIN other : other[i] = lines[p[i]]
  PROVE  ResultOf(other) = ResultOf(lines)
<1>1. \A t : CountAgreement(other, t) = CountAgreement(lines, t)
  BY SameCount
<1>2. \A c : OptimalFor(other, c) <=> OptimalFor(lines, c)
  BY <1>1 DEF OptimalFor
<1>3. QED
  BY <1>2 DEF ResultOf

-----------------------------------------------------------------------------
(* What is returned can be given to NewDispatcher.                         *)

\* The soft zone is as wide as the hysteresis asks, and inside [0, 0.95].
Usable ==
  pc = "returned" =>
    /\ Ordered(bestT)
    /\ bestT.probabiliste = bestT.deterministe + bestT.hysteresisGap
    /\ bestT.hysteresisGap >= Step50
    /\ bestT.probabiliste <= 19 * Step50

\* NewDispatcher and SetTuning panic on thresholds out of order; those that
\* Calibrate returns never are, whatever the input profile holds.
THEOREM ResultIsUsable == Spec => []Usable
<1>1. GInv => Usable
  <2>1. SUFFICES ASSUME GInv, pc = "returned"
                 PROVE  /\ Ordered(bestT)
                        /\ bestT.probabiliste = bestT.deterministe + bestT.hysteresisGap
                        /\ bestT.hysteresisGap >= Step50
                        /\ bestT.probabiliste <= 19 * Step50
    BY DEF Usable
  <2>2. PICK c \in Grid : Leads(c) /\ bestT = ThresholdsAt(c)
    BY <2>1, ReturnedLeads
  <2>3. Counters(c) /\ ~(c.d + c.g > 19)
    BY LoopsAreCounters DEF Grid, Skipped
  <2>4. /\ bestT.deterministe = c.d * Step50 /\ bestT.hysteresisGap = c.g * Step50
        /\ bestT.probabiliste = (c.d + c.g) * Step50
    BY <2>2 DEF ThresholdsAt
  <2>5. QED
    BY <2>3, <2>4, SMT DEF Counters, Ordered, Step50
<1>2. QED
  BY <1>1, Invariance, PTL
=============================================================================
