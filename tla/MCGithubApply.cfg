\* A call with two attempts per request while another worker meets an action
\* without a provider and cancels, fair goroutines.
SPECIFICATION FairSpec
CONSTANTS
  w1 = w1
  w2 = w2
  Count = 2
  Workers <- TwoWorkers
  Configured <- OneAction
  Attempts = 2
INVARIANTS
  DeletedWereErased
  DriftedAreKept
  SkippedOnlyAfterRetry
PROPERTIES
  ImplementsApply
\* Apply is a call that ends.
CHECK_DEADLOCK FALSE
