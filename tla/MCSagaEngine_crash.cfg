SPECIFICATION FairSpec
CONSTANTS
  api = api  worker = worker
  Definitions <- AllWorkflows
  Runners <- OneRunner
  Starter = api
  UndoMayFail = TRUE
  MayCancel = TRUE
  MaxCrashes = 2
  MaxResumes = 1
INVARIANTS CompensatedMeansUndone CompletedOrderHasCompletedSaga
  
CHECK_DEADLOCK FALSE
