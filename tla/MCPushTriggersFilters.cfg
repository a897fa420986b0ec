SPECIFICATION MCSpec
CONSTANTS
  Request = {q1, q2}
  MaxCommit = 3
  Tries = 0
  Dir <- MCDir
  Files <- MCFiles
  Faults = {}
INVARIANTS
  PushedRefMatches
CHECK_DEADLOCK FALSE
