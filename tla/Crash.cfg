\* A goal and a task that a client adds to the mission, which depends on it; one
\* executor loop, two crashes, two checkpoints of the goal.
CONSTANTS
  t1 = t1
  t2 = t2
  l1 = l1
  Task = {t1, t2}
  Added = {t2}
  DependsOn <- Chain
  MultiStep = {}
  Steps = 1
  Loop = {l1}
  MaxRetries = 2
  ClientTaskOp = {}
  ClientMissionOp = {}
  MaxCalls = 1
  NoTask = NoTask
  MaxCrashes = 2
  Checkpointed = {t1}
  MaxCheckpoints = 2
SPECIFICATION RecoveryFairSpec
INVARIANTS
  RecoveryTypeOK
  RepeatedFromCheckpoint
  NewestIsLatest
  RecordedDependencyHolds
  FailedMissionHasCause
PROPERTIES
  CompletedSurvivesCrash
  CrashCostsOneRetry
  ReadySurvivesCrash
CHECK_DEADLOCK FALSE
