\* Two occurrences in a row and a pause, a run on start, fair to ListenAndServe.
SPECIFICATION FairSpec
CONSTANTS
  Period = 3
  Due <- InARow
  RunOnStart = TRUE
  Horizon = 9
INVARIANTS
  OncePerOccurrence
  OverlapsCounted
  CleanReturn
PROPERTIES
  Stops
\* ListenAndServe is a call that ends.
CHECK_DEADLOCK FALSE
