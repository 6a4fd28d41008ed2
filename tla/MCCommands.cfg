\* Two configurations, one of them with apply: true; plans that live for one tick.
SPECIFICATION Spec
CONSTANTS
  p1 = p1
  p2 = p2
  c1 = c1
  c2 = c2
  None = None
  Procs <- TwoProcs
  Mutating <- JustC1
  Configs <- TwoConfigs
  TTL = 1
  MaxTime = 2
SYMMETRY Interchangeable
INVARIANTS
  WholePlan
  CodesAreTrue
\* Commands end.
CHECK_DEADLOCK FALSE
