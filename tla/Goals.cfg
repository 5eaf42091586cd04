\* Three goals whose tools write in one workspace, one of them after another, a
\* goal that asks nobody, and a synthesis of the four; two goals at a time.
CONSTANTS
  g1 = g1
  g2 = g2
  g3 = g3
  o1 = o1
  s1 = s1
  write = write
  work = work
  m1 = m1
  m2 = m2
  Task = {g1, g2, g3, o1, s1}
  Call = {g1, g2, g3}
  NoCall = NoCall
  Key = {write}
  KeyOf <- OneKey
  Workspace = {work}
  WorkspaceOf <- OneWorkspace
  Within <- Apart
  Chat = {s1}
  Model = {m1, m2}
  Remembered = m1
  Chain <- Models
  DependsOn <- Fork
  Synthesis = {s1}
  Limit = 2
SPECIFICATION GoalFairSpec
INVARIANTS
  GoalTypeOK
  OnePrompt
  RefusedByUser
  RunsAfterDependencies
  ResultsAreTrue
  LimitRespected
  WrittenWithConsent
  NoModelLeftOut
  AttemptsRespected
PROPERTIES
  ImplementsOrder
  RequestAnswered
CHECK_DEADLOCK FALSE
