SPECIFICATION FairSpec
CONSTANTS
  MaxHandlers = 2
  QueueLimit = 1
  MaxRequests = 1
INVARIANTS TypeOK RunsOnce RefusedNeverRuns QueueBounded
PROPERTIES ProcessingEnds LoopReturns
