----------------------------- MODULE GridSearch -----------------------------
(***************************************************************************)
(* calibration.Calibrate: the four nested loops over the grid, one action  *)
(* per kind of iteration.  `at` holds the loop counters, best and bestT    *)
(* are the locals of the same names.                                       *)
(***************************************************************************)
EXTENDS Calibration

CONSTANTS Corpora,  \* the corpora Calibrate may be given
          Ins       \* the thresholds its input profile may hold

Entries == [id : BOOLEAN, sens : 0..Scale, auth : 0..Scale, inv : 0..Scale,
            attestation : BOOLEAN, labeled : Labels, expected : STRING]

ASSUME GridAssumption ==
  /\ Corpora \subseteq Seq(Entries)   \* LoadCorpus validated them
  /\ Ins \subseteq Thresholds

VARIABLES pc, corpus, in, at, best, bestT

vars == <<pc, corpus, in, at, best, bestT>>

First == [d |-> 2, g |-> 1, a |-> 14, s |-> 6]

Init ==
  /\ pc = "search"
  /\ corpus \in Corpora
  /\ in \in Ins
  /\ at = First
  /\ best = -1
  /\ bestT = in

-----------------------------------------------------------------------------
\* The two outer loops go on, with the inner ones from their start; the last
\* iteration leads to the return.
NextPair ==
  IF at.g < 4 THEN at' = [First EXCEPT !.d = at.d, !.g = at.g + 1] /\ UNCHANGED pc
  ELSE IF at.d < 18 THEN at' = [First EXCEPT !.d = at.d + 1] /\ UNCHANGED pc
  ELSE pc' = "returned" /\ UNCHANGED at

NextPoint ==
  IF at.s < 14 THEN at' = [at EXCEPT !.s = @ + 1] /\ UNCHANGED pc
  ELSE IF at.a < 19 THEN at' = [at EXCEPT !.s = 6, !.a = @ + 1] /\ UNCHANGED pc
  ELSE NextPair

\* continue
Skip ==
  /\ pc = "search"
  /\ Skipped(at)
  /\ NextPair
  /\ UNCHANGED <<corpus, in, best, bestT>>

\* Mutant: a tie replaces the best point so far.
ImprovesTies(score) == score >= best

Improves(score) == score > best

Improve ==
  /\ pc = "search"
  /\ ~Skipped(at)
  /\ Improves(CountAgreement(corpus, ThresholdsAt(at)))
  /\ best' = CountAgreement(corpus, ThresholdsAt(at))
  /\ bestT' = ThresholdsAt(at)
  /\ NextPoint
  /\ UNCHANGED <<corpus, in>>

Keep ==
  /\ pc = "search"
  /\ ~Skipped(at)
  /\ ~Improves(CountAgreement(corpus, ThresholdsAt(at)))
  /\ NextPoint
  /\ UNCHANGED <<corpus, in, best, bestT>>

Next == Skip \/ Improve \/ Keep

Spec == Init /\ [][Next]_vars

-----------------------------------------------------------------------------
TypeOK ==
  /\ pc \in {"search", "returned"}
  /\ corpus \in Corpora
  /\ in \in Ins
  /\ at \in Loops
  /\ best \in -1..Len(corpus)
  /\ bestT \in Thresholds

Grid == {c \in Loops : ~Skipped(c)}

\* The order of the doc comment of Calibrate: (Deterministe, HysteresisGap,
\* AuthBlock, SensCoherence).
Before(x, y) ==
  \/ x.d < y.d
  \/ x.d = y.d /\ x.g < y.g
  \/ x.d = y.d /\ x.g = y.g /\ x.a < y.a
  \/ x.d = y.d /\ x.g = y.g /\ x.a = y.a /\ x.s < y.s

\* What Calibrate promises, whatever way it searches: thresholds of the grid
\* that agree with the most labels, and of those the first in that order.
IsOptimal(c) ==
  \A x \in Grid :
    /\ CountAgreement(corpus, ThresholdsAt(x)) <= CountAgreement(corpus, ThresholdsAt(c))
    /\ Before(x, c) =>
         CountAgreement(corpus, ThresholdsAt(x)) < CountAgreement(corpus, ThresholdsAt(c))

ReturnsTheFirstOptimum ==
  pc = "returned" => \E c \in Grid : bestT = ThresholdsAt(c) /\ IsOptimal(c)

\* Calibrating never loses agreement (TestCalibrate_ImprovesOrMaintainsAgreement):
\* the default thresholds are not on the grid, but a point with their sum is.
NoWorseThanDefault ==
  pc = "returned" =>
    CountAgreement(corpus, bestT) >= CountAgreement(corpus, DefaultThresholds)

\* Only the sum of Deterministe and HysteresisGap reaches the objective, so
\* the tie-break alone splits it: the lowest Deterministe, else the widest gap.
TieBreakSplitsTheSum ==
  pc = "returned" =>
    bestT.deterministe = 2 * Step50 \/ bestT.hysteresisGap = 4 * Step50
=============================================================================
