SPECIFICATION MCSpec
CONSTANTS
  Call = {c1, c2}
  Asked <- MCAsked
  Start <- MCStart
  Faults = {"git", "storage", "embedder", "signal"}
  Normalizes = TRUE
  Nobody = Nobody
SYMMETRY Callers
INVARIANTS
  TypeOK
  ForkRowMeansReady
  LockIsFor
PROPERTIES
  OnlyForksDisturb
  SuccessKeepsPromise
  AssetsStay
CHECK_DEADLOCK FALSE
