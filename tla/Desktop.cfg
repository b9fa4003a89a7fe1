SPECIFICATION Spec
CONSTANTS
  Calls = {k1, k2}
  Configs = {1, 2, 3}
  PortOf <- MCPortOf
  Cases <- MCCases
SYMMETRY Symmetry
INVARIANTS
  StatusHonest
  ChangeScheduled
  QuitSaves
