\* A run of the generator, before, around or after each read of one calibrate, the
\* default profile expiring.
SPECIFICATION Spec
CHECK_DEADLOCK FALSE
CONSTANTS
  Callers = {generator}
  Exchanges <- MCExchanges
  Answers <- MCAnswers
  LLMError = LLMError
  Limits <- DefaultThresholds
  Profile <- MCProfile
  NoProfile = NoProfile
  MaxTime = 3
  Seeds <- MCSeeds
  Count = 5
  Distribution <- MCDistribution
  Shuffle <- MCShuffle
  StubAnswer <- MCStubAnswer
  MaxGenerations = 1
  CalibratedUntil = 3
  EarlierCorpora <- MCEarlierCorpora
  ReadSizes = {2}
  Mixtures <- MCMixtures
INVARIANTS
  TypeOK
  ScoredCorpusIsSound
  ReproducibleUntilDrift
  EntrancesAgree
  
  DriftSeesTheCorpusMove
