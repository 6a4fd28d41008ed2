\* Two policies whose targets overlap, two changes of a registry.
SPECIFICATION Spec
CONSTANTS
  k1 = k1
  k2 = k2
  k3 = k3
  k4 = k4
  k5 = k5
  x = x
  y = y
  Keys <- AllKeys
  RepositoryOf <- Repositories
  AppOf <- Apps
  Policies <- TwoPolicies
  Evaluations <- Overlapping
  MaxDrift = 2
INVARIANTS
  ProtectionWins
  LatestPreconditions
  FloorSurvivesMerge
  LimitsHold
\* Plan is a call that ends.
CHECK_DEADLOCK FALSE
