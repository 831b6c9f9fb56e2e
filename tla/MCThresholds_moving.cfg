\* Two writers whose tunings cross, against the docstring of SetTuning.
SPECIFICATION Spec
CONSTANTS
  Writers = {w1, w2}
  Readers = {}
  Initial <- MCInitial
  Tunings <- MCMoving
INVARIANTS
  OrderedWhenQuiet
