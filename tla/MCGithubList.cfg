\* Pages of two, three writes by other clients.
SPECIFICATION ListSpec
CONSTANTS
  p1 = p1
  p2 = p2
  p3 = p3
  p4 = p4
  Packages <- AllPackages
  Selected <- Chosen
  Site <- TheSite
  Stored <- TheVersions
  PerPage = 2
  MaxWrites = 3
INVARIANTS
  CompleteWithoutDeletes
  RepeatsBounded
\* List is a call that ends.
CHECK_DEADLOCK FALSE
