\* The same, without faults, against the layout in the comment of Store.
SPECIFICATION Spec
CHECK_DEADLOCK FALSE
CONSTANTS
  Saves = {c1, c2}
  Versions = {v1, v2}
  Profiles <- MCProfiles
  Nothing = Nothing
  Empty = Empty
  Torn = Torn
  Faults = {}
  MaxRunning = 2
SYMMETRY MCSymmetry
INVARIANTS
  VersionedFilesHoldTheirVersion
