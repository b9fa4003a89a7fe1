SPECIFICATION Spec
CONSTANTS
  Callers = {c1, c2}
  Subscribers = {s1, s2}
  Closers = {k1}
  SubCap = 1
  MaxNotes = 2
  ReadLoop = readLoop
SYMMETRY Symmetry
\* With SubCap < MaxNotes the connection can wedge: IpcClient_wedge shows it.
CHECK_DEADLOCK FALSE
INVARIANTS
  TypeOK
  NoPanic
  EveryNoteInOrder
  NoStrandedSubscriber
  PendingTidy
