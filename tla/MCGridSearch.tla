--------------------------- MODULE MCGridSearch ---------------------------
(***************************************************************************)
(* Instances of GridSearch for TLC: the full grid, short corpora.          *)
(***************************************************************************)
EXTENDS GridSearch

Entry(sens, auth, inv, attestation, label) ==
  [id |-> TRUE, sens |-> sens, auth |-> auth, inv |-> inv,
   attestation |-> attestation, labeled |-> label, expected |-> ""]

\* Scores on a point of the grid, between two, and outside it, under labels
\* that pull each threshold up or down; some pairs no
\* point can satisfy together.
Pool ==
  {Entry(650000, 250000, 250000, TRUE, "deterministe"),
   Entry(800000, 875000, 450000, FALSE, "refus_authority"),
   Entry(450000, 500000, 500000, TRUE, "refus_i4"),
   Entry(350000, 810000, 650000, FALSE, "probabiliste"),
   Entry(650000, 250000, 250000, TRUE, "probabiliste"),
   Entry(980000, 950000, 100000, FALSE, "deterministe"),
   Entry(120000, 625000, 300000, TRUE, "deterministe"),
   Entry(620000, 250000, 250000, TRUE, "probabiliste")}

\* Nothing, every pair, and every three entries in one order.
MCCorpora ==
  {<<>>} \cup {<<x, y>> : x, y \in Pool}
  \cup {<<Entry(700000, 750000, 550000, FALSE, "probabiliste"), x,
          Entry(400000, 250000, 400000, TRUE, "refus_i4")>> : x \in Pool}

MCIns == {DefaultThresholds, [DefaultThresholds EXCEPT !.invCoherence = 900000]}
=============================================================================
