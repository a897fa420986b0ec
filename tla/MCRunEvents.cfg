SPECIFICATION FairSpec
CONSTANTS
  Emission = {accepted, request, final}
  Accepted = accepted
  Final = final
  Early = {request}
  Socket = {s1, s2}
  MayRestart = TRUE
INVARIANTS
  TypeOK
  UniqueSequences
  StaysReachable
PROPERTIES
  LiveSocketIsReleased
CHECK_DEADLOCK FALSE
