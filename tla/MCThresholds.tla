---------------------------- MODULE MCThresholds ----------------------------
(***************************************************************************)
(* Instances of AtomicThresholds for TLC.                                  *)
(***************************************************************************)
EXTENDS AtomicThresholds

Tuning(det, prob, other) ==
  [deterministe |-> det, probabiliste |-> prob, authBlock |-> other,
   sensCoherence |-> other, invCoherence |-> other, hysteresisGap |-> other]

\* DefaultThresholds, with one value for the four fields of no order.
MCInitial == Tuning(350000, 650000, 500000)

\* Moves on both sides of 0.5, down to equality, and not whole numbers of
\* thousandths.
MCSeparated == {Tuning(500000, 500999, 500000), Tuning(100999, 900000, 300001)}

\* Up and down moves that leave no separating value.
MCMoving == {Tuning(700000, 900000, 850000), Tuning(100999, 200000, 300001)}
=============================================================================
