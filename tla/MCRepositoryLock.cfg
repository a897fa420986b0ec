SPECIFICATION FairSpec
CONSTANTS
  Call = {c1, c2, c3, c4}
  RepositoryId = {"app", " app ", "lib", " "}
  Key = {"app", "lib"}
  NoKey = NoKey
  NoCall = NoCall
  KeyOf <- MCKeyOf
INVARIANTS
  TypeOK
  MutualExclusion
  TailIsLastPending
  StuckNeedsNesting
PROPERTIES
  EveryCallIsAdmitted
  ServesInOrder
CHECK_DEADLOCK FALSE
