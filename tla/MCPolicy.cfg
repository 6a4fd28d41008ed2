\* Every listing order, mixed groups and repeated entries included.
SPECIFICATION Spec
CONSTANTS
  Listings <- AllListings
  Rules <- AllRules
  Versions <- AllVersions
  Now <- Evaluation
INVARIANTS
  FloorPerGroup
  NeverEmptied
  NewestFirst
  
CHECK_DEADLOCK FALSE
