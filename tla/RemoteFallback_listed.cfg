SPECIFICATION Spec
CONSTANTS
  Names <- MCNames
  NoName = ""
  Canonical <- MCCanonical
  DefaultModel = "Kimi"
  DefaultFallback <- MCDefaultFallback
  MaxConfigured = 0
  MaxDeltas = 1
INVARIANTS
  FallbackListed
