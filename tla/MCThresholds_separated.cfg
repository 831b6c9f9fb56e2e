\* Two writers, one reader, tunings on both sides of a separating value.
SPECIFICATION Spec
CONSTANTS
  Writers = {w1, w2}
  Readers = {r1}
  Initial <- MCInitial
  Tunings <- MCSeparated
INVARIANTS
  TypeOK
  QuietIsLastTuning
  SeparatedTuningsStayOrdered
PROPERTIES
  UndisturbedSnapshotIsOneTuning
