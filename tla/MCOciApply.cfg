\* Two actions, two workers, one write by another client, fair goroutines.
SPECIFICATION FairSpec
CONSTANTS
  w1 = w1
  w2 = w2
  t1 = t1
  t2 = t2
  t3 = t3
  Count = 2
  Workers <- TwoWorkers
  Configured <- TwoActions
  Others <- Pushed
  Tags <- ThreeTags
  Planned <- PlannedTags
  FirstTag <- FirstTags
  MaxDrift = 1
INVARIANTS
  ErasedAreReported
  DeletedWereErased
  MovedAreKept
PROPERTIES
  ImplementsApply
\* Apply is a call that ends.
CHECK_DEADLOCK FALSE
