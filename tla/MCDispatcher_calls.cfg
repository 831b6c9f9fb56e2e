\* Two callers, an exchange of each kind, the revision date passing.
SPECIFICATION Spec
CONSTANTS
  Callers = {c1, c2}
  Exchanges <- FewExchanges
  Answers <- MCAnswersFew
  LLMError = LLMError
  Limits <- MCLimitsLifted
  Profile <- MCProfile
  NoProfile = NoProfile
  MaxTime = 3
INVARIANTS
  ExpiredAtCallIsRefused
  AttestationOnlyLiftsTheLock
  ClassifierAgrees
PROPERTIES
  ImplementsKernel
