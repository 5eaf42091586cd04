\* Two executions of one tool at once, with a console.
CONSTANTS
  e1 = e1
  e2 = e2
  e3 = e3
  coding = coding
  system = system
  none = none
  Thread = {e1, e2, e3}
  Tool = {coding, system}
  Reporter = {coding}
  NoTool = none
  Uses <- Two
  Channel = {"started", "completed", "failed"}
  Audience <- Console
SPECIFICATION GuardSpec
PROPERTIES
  NeverTouchedAgain
CHECK_DEADLOCK FALSE
