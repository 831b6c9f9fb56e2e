\* The full grid, corpora of up to three entries.
SPECIFICATION Spec
CHECK_DEADLOCK FALSE
CONSTANTS
  Corpora <- MCCorpora
  Ins <- MCIns
INVARIANTS
  TypeOK
  ReturnsTheFirstOptimum
  NoWorseThanDefault
  TieBreakSplitsTheSum
