SPECIFICATION Spec
CONSTANTS
  Run = {r1}
  JobCount = 1
  User = {u1}
  NoGroup = NoGroup
  NoRun = NoRun
  Group <- MCGroup
  Supersedes = {}
  Faults = {}
PROPERTIES
  CancelledStaysCancelled
CHECK_DEADLOCK FALSE
