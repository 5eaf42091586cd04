\* One goal, one executor loop, a crash, a checkpoint.
CONSTANTS
  t1 = t1
  t2 = t2
  l1 = l1
  Task = {t1}
  Added = {}
  DependsOn = {}
  MultiStep = {}
  Steps = 1
  Loop = {l1}
  MaxRetries = 1
  ClientTaskOp = {}
  ClientMissionOp = {}
  MaxCalls = 0
  NoTask = NoTask
  MaxCrashes = 1
  Checkpointed = {t1}
  MaxCheckpoints = 1
SPECIFICATION RecoveryFairSpec
PROPERTIES
  RunningTaskRecovered
CHECK_DEADLOCK FALSE
