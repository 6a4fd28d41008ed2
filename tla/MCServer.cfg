\* Two artifacts, one of them there at the start, one write by another client.
SPECIFICATION FairSpec
CONSTANTS
  r1 = r1
  r2 = r2
  r3 = r3
  a1 = a1
  a2 = a2
  Requests <- AllRequests
  Presented <- Tokens
  Settings <- AllSettings
  Artifacts = {a1, a2}
  Stored = {a1}
  MaxWrites = 1
INVARIANTS
  PlansStayFresh
  MetricsTrue
PROPERTIES
  RefusedOnlyWhenBusy
  Answered
\* The process exits.
CHECK_DEADLOCK FALSE
