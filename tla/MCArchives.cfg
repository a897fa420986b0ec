SPECIFICATION MCSpec
CONSTANTS
  Reader = {r1}
  MaxCommit = 2
  Request = {q1, q2}
  Root = {"plain", "custom"}
  Faults = {"fail", "kill"}
  NoFile = NoFile
SYMMETRY Requests
INVARIANTS
  TypeOK
  AnswerIsOfItsCommit
  UnbornWasUnborn
  ArchivesAreMade
  LengthFits
CHECK_DEADLOCK FALSE
