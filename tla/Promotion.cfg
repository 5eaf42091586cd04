\* A goal and a task that a client adds to the mission, which depends on it; one
\* executor loop.
CONSTANTS
  t1 = t1
  t2 = t2
  t3 = t3
  l1 = l1
  l2 = l2
  Task = {t1, t2}
  Added = {t2}
  DependsOn <- Chain
  MultiStep = {}
  Steps = 1
  Loop = {l1}
  MaxRetries = 1
  ClientTaskOp = {}
  ClientMissionOp = {}
  MaxCalls = 1
  NoTask = NoTask
SPECIFICATION FairSpec
PROPERTIES
  DependentsPromoted
CHECK_DEADLOCK FALSE
