SPECIFICATION FairSpec
CONSTANTS
  Requests = {r1, r2}
  Models = {m1}
  Configs <- LiveConfigs
  MaxConns = 2
  NoModel = noModel
  Free = free
PROPERTIES
  RequestEnds
