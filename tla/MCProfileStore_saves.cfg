\* Three Saves, one at a time or two at once, that may fail or crash.  The
\* calls are exhausted at the end.
SPECIFICATION Spec
CHECK_DEADLOCK FALSE
CONSTANTS
  Saves = {c1, c2, c3}
  Versions = {v1, v2}
  Profiles <- MCProfiles
  Nothing = Nothing
  Empty = Empty
  Torn = Torn
  Faults = {"io", "remove"}
  MaxRunning = 2
SYMMETRY MCSymmetry
INVARIANTS
  TypeOK
  CompletedVersionsSurvive
  CompletedSaveIsCurrent
  SidecarNamesTheCopy
  CompletedSavesLeaveACurrent
