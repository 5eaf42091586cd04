\* Two independent goals, one of them with an execution plan of two steps, one
\* executor loop and a client that retries, twice.
CONSTANTS
  t1 = t1
  t2 = t2
  t3 = t3
  l1 = l1
  l2 = l2
  Task = {t1, t2}
  Added = {}
  DependsOn = {}
  MultiStep = {t2}
  Steps = 2
  Loop = {l1}
  MaxRetries = 2
  ClientTaskOp = {"retrying"}
  ClientMissionOp = {}
  MaxCalls = 2
  NoTask = NoTask
SPECIFICATION FairSpec
INVARIANTS
  CompletedWorkIsRecorded
  ReportIsFinal
  AttemptsBounded
PROPERTIES
  EndedTaskStays
  
  ReadyTaskEnds
  MissionResolves
  WaiterIsWoken
CHECK_DEADLOCK FALSE
