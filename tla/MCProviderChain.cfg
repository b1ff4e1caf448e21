SPECIFICATION FairSpec
CONSTANTS
  Calls = {c1, c2}
  NumProviders = 2
  MaxRetries = 1
  Threshold = 2
  Recovery = 1
  Needed = 2
  CoolThreshold = 2
  Cooldown = 1
INVARIANTS TypeOK CallsBounded BreakerConsistent
PROPERTY Recovers
