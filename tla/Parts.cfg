SPECIFICATION PartsSpec
CONSTANTS
  MaxDeltas = 4
  MaxCalls = 2
  Held = 1
  MaxTurns = 3
  MaxCallsPerTurn = 2
  Words = {"a", "b"}
  Ports = {1}
  Seconds <- MCSeconds
  Lists <- MCLists
  MaxFrames = 2
  Bodies <- MCBodies
  StreamCalls = {0, 1}
  ArgumentPieces = 2
  MaxText = 2
  Exporters = {e1, e2}
  Logins <- MCLogins
  Inodes = {1, 2, 3, 4}
  NoFile = 0
INVARIANTS
  BlockProtocol
  ShownInOrder
  CompletedMatchesItems
  NothingLost
  FormatsAgree
  ResultsFollowCalls
  SavedSurvives
  Precedence
  FramesAsSent
  AnswerAsStreamed
  CredentialWhole
CHECK_DEADLOCK FALSE
