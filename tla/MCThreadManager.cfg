SPECIFICATION Spec
CONSTANTS
  Handlers = {h1, h2}
  MaxRuns = 3
  Capacity = 1
  MaxSignals = 2
INVARIANTS TypeOK OneExecution
CHECK_DEADLOCK FALSE
