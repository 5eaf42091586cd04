\* Does a synthesis run whatever has become of its dependencies?
CONSTANTS
  g1 = g1
  g2 = g2
  g3 = g3
  o1 = o1
  s1 = s1
  write = write
  work = work
  m1 = m1
  m2 = m2
  Task = {g1, g2, g3, o1, s1}
  Call = {g1, g2, g3}
  NoCall = NoCall
  Key = {write}
  KeyOf <- OneKey
  Workspace = {work}
  WorkspaceOf <- OneWorkspace
  Within <- Apart
  Chat = {s1}
  Model = {m1, m2}
  Remembered = m1
  Chain <- Models
  DependsOn <- Fork
  Synthesis = {s1}
  Limit = 2
SPECIFICATION GoalSpec
INVARIANT
  SynthesisExecutes
CHECK_DEADLOCK FALSE
