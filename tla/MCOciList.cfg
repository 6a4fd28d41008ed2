\* Pages of two entries, two writes by other clients.
SPECIFICATION ListFairSpec
CONSTANTS
  Configurations <- AllConfigurations
  Includes <- TheIncludes
  Excludes <- TheExcludes
  Stored <- TheRegistry
  Kinds <- AllKinds
  Attached <- TheReferrers
  Pushes <- ThePushes
  PageSize = 2
  MaxWrites = 2
INVARIANTS
  CompleteSteady
  Truthful
  ReferrersProtect
PROPERTIES
  Ends
\* List is a call that ends.
CHECK_DEADLOCK FALSE
