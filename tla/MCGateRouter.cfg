SPECIFICATION RSpec
CONSTANTS
  k1 = k1
  r1 = r1
  r2 = r2
  chan = chan
  None = None
  Requests = {r1, r2}
  Keys = {k1}
  Channels = {chan}
  Trusted = {}
  KeyOf <- OneThread
  ChannelOf <- OneChannel
  FileErrors = 1
SYMMETRY Interchangeable
INVARIANTS RTypeOK ActionRunsOnce GateHasWaitingThread
CHECK_DEADLOCK FALSE
