CONSTANTS
  c1 = c1  t1 = t1  t2 = t2
  Connections = {c1}
  Tasks = {t1, t2}
  SessionOf <- OneConnection
  Closers = {h1, h2}
  NoTask = NoTask
  MaxNotes = 2
SPECIFICATION Spec
INVARIANTS SlabExact MetadataSet NotesArePrefix StatsBalanced
PROPERTIES TasksEndWithSession CloseEndsServer
CHECK_DEADLOCK FALSE
