SPECIFICATION FairSpec
CONSTANTS
  JobCount = 4
  StepCount = 3
  JobId = {"deploy", "build", "report"}
  IdOf <- MCIdOf
  Needs <- MCNeeds
  HasIf = {"report"}
  Uses = {2}
  Uploads = {"build"}
  Downloads = {"report"}
  Tempers = {"brief", "hang", "stubborn"}
  HasTimeout = TRUE
INVARIANTS
  TypeOK
  DownloadIsWhole
  OneStepAfterCancel
  VerdictBorneOut
PROPERTIES
  NeedsHonoured
  EveryRunEnds
CHECK_DEADLOCK FALSE
