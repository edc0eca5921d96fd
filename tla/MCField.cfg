SPECIFICATION MCSpec
CONSTANTS
  d1 = d1
  d2 = d2
  h1 = h1
  h2 = h2
  alice = alice
  bob = bob
  j1 = j1
  j2 = j2
  j3 = j3
  caller = caller
  Never = Never
  NoJob = NoJob
  Version = Version
  Raw = Raw
  Nothing = Nothing
  Handlers <- TwoHandlers
  StageCount = 3
  Deployments <- TwoDevices
  SuccessPercent = 95
  FailurePercent = 60
  Intents <- TwoDevices
  Users <- TwoUsers
  Limit = 1
  Budget = 1
  Threshold = 2
  Cooldown = 1
  Hour = 1
  MaxTime = 2
  MaxAttempts = 2
  Jobs <- ThreeJobs
  MaxTasks = 3
  Callers <- OneCaller
  PauseStates <- TwoPauseStates
SYMMETRY Symmetry
INVARIANTS
  FieldTypeOK
  
  ExecutionWithinLimits
  ClockFollowsTicket
  
\* Rollouts, intents and tickets end.
CHECK_DEADLOCK FALSE
