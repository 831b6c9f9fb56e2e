\* Two streams and two Closes, against the docstring of Close.
SPECIFICATION ASpec
CHECK_DEADLOCK FALSE
CONSTANTS
  A = A
  Topics <- MCTopics
  Blank = Blank
  Bad = Bad
  TooLong = TooLong
  Missing = Missing
  NoStream = NoStream
  Requests <- MCRequests
  Streams = {s1, s2}
  Closers = {c1, c2}
  Files <- MCFiles
  ErrCap = 1
INVARIANTS
  CloseCancelsAnyActiveStream
