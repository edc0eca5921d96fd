SPECIFICATION Spec
CONSTANTS
  api = api  worker = worker
  Definitions <- NewConnection
  Runners <- OneRunner
  Starter = api
  UndoMayFail = FALSE
  MayCancel = FALSE
  MaxCrashes = 1
  MaxResumes = 0
INVARIANTS CompletedMeansAllDone
CHECK_DEADLOCK FALSE
