\* One goal, one executor loop, a crash, no checkpoints.
CONSTANTS
  t1 = t1
  t2 = t2
  l1 = l1
  Task = {t1}
  Added = {}
  DependsOn = {}
  MultiStep = {}
  Steps = 1
  Loop = {l1}
  MaxRetries = 3
  ClientTaskOp = {}
  ClientMissionOp = {}
  MaxCalls = 0
  NoTask = NoTask
  MaxCrashes = 1
  Checkpointed = {}
  MaxCheckpoints = 0
SPECIFICATION RecoverySpec
PROPERTIES
  RecoveredFailureCounted
CHECK_DEADLOCK FALSE
