CONSTANTS
  a = a
  b = b
  c = c
  w1 = w1
  w2 = w2
  Tasks = {a, b, c}
  Requires <- MCRequires
  Workflows = {w1, w2}
  Operations <- OverlappingOperations
  Pump = Pump
  Requests = {}
  MaxCrashes = 1
  NoTask = NoTask
  NoWorkflow = NoWorkflow
  NoDriver = NoDriver
SPECIFICATION Spec
CONSTRAINT CrashesApart
CHECK_DEADLOCK FALSE
INVARIANTS
  OneWorker
  NothingForgotten
PROPERTIES
  NoStartAfterCancel
  WorkflowsEnd
