SPECIFICATION Spec
CONSTANTS
  Requests = {r1, r2, r3}
  Models = {m1, m2}
  Configs <- MCConfigs
  MaxConns = 2
  NoModel = noModel
  Free = free
SYMMETRY Symmetry
INVARIANTS
  TypeOK
  AnswerStartsOnce
  PrivateSessions
PROPERTIES
  PromptOnOwnConnection
  PromptRunsWithItsModel
  SharedSpec
