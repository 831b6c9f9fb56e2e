-------------------------- MODULE AtomicThresholds --------------------------
(***************************************************************************)
(* calibration.AtomicThresholds (internal/calibration/                     *)
(* thresholds_atomic.go): six independent atomic cells in thousandths,     *)
(* written by SetTuning one Store after the other and read by Snapshot one *)
(* Load after the other, without a lock.                                   *)
(***************************************************************************)
EXTENDS Tau, Sequences

CONSTANTS Writers,  \* the goroutines that call SetTuning
          Readers,  \* the goroutines that call Snapshot
          Initial,  \* the argument of NewAtomicThresholds
          Tunings   \* the arguments of SetTuning that do not make it panic

ASSUME TuningsAssumption ==
  /\ {Initial} \cup Tunings \subseteq Thresholds
  /\ \A t \in {Initial} \cup Tunings : Ordered(t)

\* The order of the Stores of SetTuning and of the Loads of Snapshot.
Order == <<"deterministe", "probabiliste", "authBlock",
           "sensCoherence", "invCoherence", "hysteresisGap">>
Fields == {"deterministe", "probabiliste", "authBlock",
           "sensCoherence", "invCoherence", "hysteresisGap"}

\* Mutant: cells in ten-thousandths.
TenThousandths(v) == v \div 100

\* millis truncates towards zero; fromMillis is exact.
Millis(v)     == v \div 1000
FromMillis(m) == m * 1000

\* What a Snapshot of the cells set to t returns.
Quantised(t) == [f \in Fields |-> FromMillis(Millis(t[f]))]

VARIABLES cell,     \* the six cells
          storing,  \* storing[w]: the next Store of w's SetTuning, 0 outside of it
          tuning,   \* tuning[w]: its argument
          loading,  \* loading[r]: the next Load of r's Snapshot, 0 before, 7 after
          copy,     \* copy[r]: the fields loaded so far
          last,     \* history: the argument of the last SetTuning to return
          solo,     \* history: no SetTuning overlaps, or overlapped, the last to begin
          alone     \* history: alone[r]: no SetTuning ran during r's Snapshot

vars == <<cell, storing, tuning, loading, copy, last, solo, alone>>

Quiet == \A w \in Writers : storing[w] = 0

Init ==
  /\ cell = [f \in Fields |-> Millis(Initial[f])]
  /\ storing = [w \in Writers |-> 0]
  /\ tuning = [w \in Writers |-> Initial]
  /\ loading = [r \in Readers |-> 0]
  /\ copy = [r \in Readers |-> Quantised(Initial)]
  /\ last = Initial
  /\ solo = TRUE
  /\ alone = [r \in Readers |-> TRUE]

\* SetTuning(t) is entered and does not panic.
SetTuning(w, t) ==
  /\ storing[w] = 0
  /\ storing' = [storing EXCEPT ![w] = 1]
  /\ tuning' = [tuning EXCEPT ![w] = t]
  /\ solo' = Quiet
  /\ alone' = [r \in Readers |-> alone[r] /\ loading[r] = 0]
  /\ UNCHANGED <<cell, loading, copy, last>>

\* Mutant: the last Store is forgotten.
StoreFiveFields(w) ==
  LET k == storing[w]
      f == Order[k]
  IN /\ k \in 1..6
     /\ cell' = [cell EXCEPT ![f] = Millis(tuning[w][f])]
     /\ storing' = [storing EXCEPT ![w] = IF k = 5 THEN 0 ELSE k + 1]
     /\ last' = IF k = 5 THEN tuning[w] ELSE last
     /\ tuning' = IF k = 5 THEN [tuning EXCEPT ![w] = Initial] ELSE tuning
     /\ UNCHANGED <<loading, copy, solo, alone>>

\* One Store of SetTuning; the sixth returns and forgets the argument.
Store(w) ==
  LET k == storing[w]
      f == Order[k]
  IN /\ k \in 1..6
     /\ cell' = [cell EXCEPT ![f] = Millis(tuning[w][f])]
     /\ storing' = [storing EXCEPT ![w] = IF k = 6 THEN 0 ELSE k + 1]
     /\ last' = IF k = 6 THEN tuning[w] ELSE last
     /\ tuning' = IF k = 6 THEN [tuning EXCEPT ![w] = Initial] ELSE tuning
     /\ UNCHANGED <<loading, copy, solo, alone>>

\* Snapshot is entered.
Snapshot(r) ==
  /\ loading[r] = 0
  /\ loading' = [loading EXCEPT ![r] = 1]
  /\ alone' = [alone EXCEPT ![r] = Quiet]
  /\ UNCHANGED <<cell, storing, tuning, copy, last, solo>>

\* Mutants: the first Load reads the second cell, and the last is forgotten.
LoadWrongCell(r) ==
  LET k == loading[r]
  IN /\ k \in 1..6
     /\ copy' = [copy EXCEPT ![r] =
                   [@ EXCEPT ![Order[k]] = FromMillis(cell[Order[IF k = 1 THEN 2 ELSE k]])]]
     /\ loading' = [loading EXCEPT ![r] = k + 1]
     /\ UNCHANGED <<cell, storing, tuning, last, solo, alone>>

LoadFiveFields(r) ==
  LET k == loading[r]
  IN /\ k \in 1..6
     /\ copy' = IF k = 6 THEN copy
                ELSE [copy EXCEPT ![r] = [@ EXCEPT ![Order[k]] = FromMillis(cell[Order[k]])]]
     /\ loading' = [loading EXCEPT ![r] = k + 1]
     /\ UNCHANGED <<cell, storing, tuning, last, solo, alone>>

\* One Load of Snapshot; after the sixth it has returned copy[r].
Load(r) ==
  LET k == loading[r]
      f == Order[k]
  IN /\ k \in 1..6
     /\ copy' = [copy EXCEPT ![r] = [@ EXCEPT ![f] = FromMillis(cell[f])]]
     /\ loading' = [loading EXCEPT ![r] = k + 1]
     /\ UNCHANGED <<cell, storing, tuning, last, solo, alone>>

\* The reader is done with the copy.
Drop(r) ==
  /\ loading[r] = 7
  /\ loading' = [loading EXCEPT ![r] = 0]
  /\ copy' = [copy EXCEPT ![r] = Quantised(Initial)]
  /\ alone' = [alone EXCEPT ![r] = TRUE]
  /\ UNCHANGED <<cell, storing, tuning, last, solo>>

Next ==
  \/ \E w \in Writers : \/ \E t \in Tunings : SetTuning(w, t)
                        \/ Store(w)
  \/ \E r \in Readers : Snapshot(r) \/ Load(r) \/ Drop(r)

Spec == Init /\ [][Next]_vars

-----------------------------------------------------------------------------
\* The type invariant: cells stay in [0, 1000], copies in [0, 1].
TypeOK ==
  /\ cell \in [Fields -> 0..1000]
  /\ storing \in [Writers -> 0..6]
  /\ tuning \in [Writers -> {Initial} \cup Tunings]
  /\ loading \in [Readers -> 0..7]
  /\ copy \in [Readers -> [Fields -> 0..Scale]]
  /\ last \in {Initial} \cup Tunings
  /\ solo \in BOOLEAN
  /\ alone \in [Readers -> BOOLEAN]

Returned(r) == loading[r] = 7

\* When every SetTuning has returned and the last one ran without overlap, the
\* cells hold it whole, whatever overlapping ones left there before.
QuietIsLastTuning ==
  Quiet /\ solo => \A f \in Fields : FromMillis(cell[f]) = Quantised(last)[f]

\* A Snapshot that no SetTuning overlaps then is that tuning: the docstring
\* of SetTuning restricts torn reads to concurrent Snapshots.
UndisturbedSnapshotIsOneTuning ==
  [][\A r \in Readers :
       loading[r] = 6 /\ loading'[r] = 7 /\ alone[r] /\ solo => copy'[r] = Quantised(last)]_vars

\* When some threshold separates Deterministe from Probabiliste in every
\* tuning, no Snapshot is ever disordered, however many writers and readers
\* interleave.
Separated ==
  \E sep \in 0..Scale : \A t \in {Initial} \cup Tunings :
    t.deterministe <= sep /\ sep <= t.probabiliste

SeparatedTuningsStayOrdered ==
  Separated => \A r \in Readers : Returned(r) => Ordered(copy[r])

-----------------------------------------------------------------------------
(* A statement of the documentation that the code does not keep.           *)

\* thresholds_atomic.go:89: SetTuning panics "if the ordering invariant
\* Deterministe <= Probabiliste would be violated": when every SetTuning has
\* returned and none has panicked, the cells are in order.
OrderedWhenQuiet ==
  Quiet => cell["deterministe"] <= cell["probabiliste"]
=============================================================================
