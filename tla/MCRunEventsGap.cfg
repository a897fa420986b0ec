SPECIFICATION FairSpec
CONSTANTS
  Emission = {accepted, final}
  Accepted = accepted
  Final = final
  Early = {}
  Socket = {s1}
  MayRestart = FALSE
INVARIANTS
  CaughtUp
CHECK_DEADLOCK FALSE
