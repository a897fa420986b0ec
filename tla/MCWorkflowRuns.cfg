SPECIFICATION MCFairSpec
CONSTANTS
  Run = {r1, r2}
  JobCount = 1
  User = {u1}
  NoGroup = NoGroup
  NoRun = NoRun
  Group <- MCGroup
  Supersedes = {r1, r2}
  Faults = {"submit", "prepare", "job", "handler", "crash"}
INVARIANTS
  TypeOK
  OneRunAtATime
  NoLostWakeup
  AnnouncedOnce
  CleanRunLeavesNothing
PROPERTIES
  CancelledBeforeStart
  EveryPushedRunEnds
CHECK_DEADLOCK FALSE
