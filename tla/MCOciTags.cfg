\* One worker and one write by another client are enough.
SPECIFICATION Spec
CONSTANTS
  w1 = w1
  w2 = w2
  t1 = t1
  t2 = t2
  t3 = t3
  Count = 2
  Workers <- OneWorker
  Configured <- TwoActions
  Others <- Pushed
  Tags <- ThreeTags
  Planned <- PlannedTags
  FirstTag <- FirstTags
  MaxDrift = 1
INVARIANT
  ChangedAreKept
\* Apply is a call that ends.
CHECK_DEADLOCK FALSE
