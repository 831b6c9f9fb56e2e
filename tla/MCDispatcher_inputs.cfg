\* One caller, every combination of inputs, the revision date passing.
SPECIFICATION Spec
CONSTANTS
  Callers = {c1}
  Exchanges <- AllExchanges
  Answers <- MCAnswers
  LLMError = LLMError
  Limits <- MCLimits
  Profile <- MCProfile
  NoProfile = NoProfile
  MaxTime = 4
INVARIANTS
  TypeOK
  TraceSupportsVerdict
  ObservationsOnlyFromLateExpiry
  LabelsAreGroundTruth
PROPERTIES
  ReasonerConsultedLast
