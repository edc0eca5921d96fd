SPECIFICATION Spec
CONSTANTS
  api = api  worker = worker
  Definitions <- Suspension
  Runners <- TwoRunners
  Starter = api
  UndoMayFail = TRUE
  MayCancel = FALSE
  MaxCrashes = 0
  MaxResumes = 1
INVARIANTS TypeOK 
CHECK_DEADLOCK FALSE
