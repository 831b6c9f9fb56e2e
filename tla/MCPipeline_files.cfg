\* One stream, its converter and its consumer, one Close.  The pipeline waits
\* forever for a consumer that has left.
SPECIFICATION FairSpec
CHECK_DEADLOCK FALSE
CONSTANTS
  A = A
  B = B
  Topics <- MCTopics
  Blank = Blank
  Bad = Bad
  TooLong = TooLong
  Missing = Missing
  NoStream = NoStream
  Requests <- MCRequests
  Streams = {s1}
  Closers = {c1}
  Files <- MCFiles
  ErrCap = 2
INVARIANTS
  TypeOK
  ErrorsKeepOrder
  FewErrorsAreNotLost
  DrainedBeforeReturn
  AtMostTwoLate
PROPERTIES
  ImplementsOrderedStream
  OutIsOrderedStream
  CancelledStreamEnds
  CancelledPipelineEnds
  ReadPipelineEnds
