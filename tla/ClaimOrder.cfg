\* Two goals, the second depending on the first, one executor loop.
CONSTANTS
  t1 = t1
  t2 = t2
  t3 = t3
  l1 = l1
  l2 = l2
  Task = {t1, t2}
  Added = {}
  DependsOn <- Chain
  MultiStep = {}
  Steps = 1
  Loop = {l1}
  MaxRetries = 1
  ClientTaskOp = {}
  ClientMissionOp = {}
  MaxCalls = 0
  NoTask = NoTask
SPECIFICATION Spec
INVARIANTS
  ClaimedAfterDependencies
CHECK_DEADLOCK FALSE
