\* Four actions, two workers, the third action unconfigured, fair goroutines.
SPECIFICATION FairSpec
CONSTANTS
  w1 = w1
  w2 = w2
  Count = 4
  Workers <- TwoWorkers
  Configured <- AllButThird
INVARIANTS
  Ownership
  CloseOrder
  Tally
  NothingLost
PROPERTIES
  ImplementsSettlement
  Returns
\* Apply is a call that ends.
CHECK_DEADLOCK FALSE
