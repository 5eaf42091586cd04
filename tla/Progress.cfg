\* Three executions at once, or two of one tool, with a console and without.
CONSTANTS
  e1 = e1
  e2 = e2
  e3 = e3
  coding = coding
  system = system
  none = none
  Thread = {e1, e2, e3}
  Tool = {coding, system}
  Reporter = {coding}
  NoTool = none
  Uses <- TwoOrThree
  Channel = {"started", "completed", "failed"}
  Audience <- Consoles
SPECIFICATION GuardSpec
SYMMETRY Executions
INVARIANTS
  GuardTypeOK
  ListenersHear
  InvokedOnce
  UnsubscribeReturns
  CleanupIsOwn
  ClosedUnlessDisturbed
CHECK_DEADLOCK FALSE
