SPECIFICATION FairSpec
CONSTANTS
  Names <- MCNames
  NoName = ""
  Canonical <- MCCanonical
  DefaultModel = "Kimi"
  DefaultFallback <- MCDefaultFallback
  MaxConfigured = 3
  MaxDeltas = 2
INVARIANTS
  AnswerFromOneModel
  AttemptsAsConfigured
PROPERTIES
  RequestEnds
