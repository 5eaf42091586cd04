\* Two goals, the second depending on the first, two executor loops, and a client
\* that calls any one operation of the managers, or adds a task that depends on
\* the first goal.
CONSTANTS
  t1 = t1
  t2 = t2
  t3 = t3
  l1 = l1
  l2 = l2
  Task = {t1, t2, t3}
  Added = {t3}
  DependsOn <- Fork
  MultiStep = {t1}
  Steps = 1
  Loop = {l1, l2}
  MaxRetries = 2
  ClientTaskOp = {"scheduled", "running", "paused", "cancelled", "retrying"}
  ClientMissionOp = {"running", "paused", "cancelled"}
  MaxCalls = 1
  NoTask = NoTask
SYMMETRY LoopSymmetry
SPECIFICATION Spec
INVARIANTS
  TypeOK
  ExclusiveWork
  ReadyIsIdle
  WorkersHaveLoops
  NothingIsSatisfied
PROPERTY ImplementsQueue
CHECK_DEADLOCK FALSE
