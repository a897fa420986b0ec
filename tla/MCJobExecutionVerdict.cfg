SPECIFICATION FairSpec
CONSTANTS
  JobCount = 4
  StepCount = 3
  JobId = {"deploy", "build", "report"}
  IdOf <- MCIdOf
  Needs <- MCNeeds
  HasIf = {"report"}
  Uses = {2}
  Uploads = {"build"}
  Downloads = {"report"}
  Tempers = {"brief"}
  HasTimeout = TRUE
INVARIANTS
  CancelledRunIsNoSuccess
CHECK_DEADLOCK FALSE
