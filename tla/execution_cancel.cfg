CONSTANTS
  a = a
  b = b
  c = c
  w1 = w1
  w2 = w2
  Tasks = {a, b}
  Requires <- MCRequires
  Workflows = {w1}
  Operations <- SingleOperations
  Pump = Pump
  Requests = {r1}
  MaxCrashes = 0
  NoTask = NoTask
  NoWorkflow = NoWorkflow
  NoDriver = NoDriver
SPECIFICATION Spec
CHECK_DEADLOCK FALSE
PROPERTIES
  NoStartAfterCancel
