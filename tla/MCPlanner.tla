------------------------------ MODULE MCPlanner -----------------------------
(* Small instances of Planner for TLC.                                     *)
EXTENDS Planner, TLC

CONSTANTS k1, k2, k3, k4, k5, x, y

AllKeys == {k1, k2, k3, k4, k5}

\* Three artifacts of one repository, two of another.
Repositories == [k \in AllKeys |-> IF k \in {k4, k5} THEN y ELSE x]
Apps == [k \in AllKeys |-> IF k = k3 THEN "api" ELSE "web"]

\* A percentage that only rounding lets one of three meet, and a policy whose
\* only effective limit is the count, its percentage being NaN.
TwoPolicies ==
  "app" :> [keepAtLeast |-> 1, byApp |-> TRUE, maxCount |-> 2, maxPercent |-> {3333}]
  @@ "base" :> [keepAtLeast |-> 1, byApp |-> FALSE, maxCount |-> 1, maxPercent |-> {}]

\* The targets of the two policies overlap; base has two, one listed in pages,
\* and may delete from both.
Overlapping ==
  << [policy |-> "app",  keys |-> {k1, k2, k3, k4}, paged |-> FALSE],
     [policy |-> "base", keys |-> {k1, k2, k3}, paged |-> FALSE],
     [policy |-> "base", keys |-> {k4, k5}, paged |-> TRUE] >>
=============================================================================
