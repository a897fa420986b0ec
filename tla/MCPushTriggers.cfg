SPECIFICATION MCSpec
CONSTANTS
  Request = {q1, q2}
  MaxCommit = 3
  Tries = 2
  Dir <- MCDir
  Files <- MCFiles
  Faults = {"storage", "embedder"}
INVARIANTS
  TypeOK
  AuditedOnce
  QueuedInOrder
  QueuedRunsAreOrdered
  RunsItsCommit
PROPERTIES
  PushIsBuilt
CHECK_DEADLOCK FALSE
