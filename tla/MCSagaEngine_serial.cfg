SPECIFICATION Spec
CONSTANTS
  api = api  worker = worker
  Definitions <- AtomicWorkflows
  Runners <- OneRunner
  Starter = api
  UndoMayFail = FALSE
  MayCancel = FALSE
  MaxCrashes = 0
  MaxResumes = 2
INVARIANTS  OrderFollowsSaga
PROPERTIES  SagaMovesAreLegal
CHECK_DEADLOCK FALSE
