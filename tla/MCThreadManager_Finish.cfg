SPECIFICATION FairSpec
CONSTANTS
  Handlers = {h1, h2}
  MaxRuns = 2
  Capacity = 1
  MaxSignals = 2
PROPERTY RunsFinish
CHECK_DEADLOCK FALSE
