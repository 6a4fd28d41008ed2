\* An app-less version beside an artifact with no recognised tag.
SPECIFICATION Spec
CONSTANTS
  Listings <- PairListings
  Rules <- DefaultRules
  Versions <- AllVersions
  Now <- Evaluation
INVARIANT
  OnlyVersionKept
CHECK_DEADLOCK FALSE
