SPECIFICATION Spec
CONSTANTS
  Callers = {c1, c2}
  Urls = {"default", "gateway/path", "gateway"}
  Models = {"kmodel", "coder"}
  Hints <- MCHints
  Score <- MCScore
  Normal <- MCNormal
  DefaultUrl = "default"
  Explicit = "gateway/path"
  Configs <- MCConfigs
  Probeable = {"kmodel"}
  AvailableTTL = 2
  UnavailableTTL = 1
  None = none
SYMMETRY Symmetry
INVARIANTS
  CacheHonest
PROPERTIES
  AloneSettles
  FreshVerdict
