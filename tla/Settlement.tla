----------------------------- MODULE Settlement -----------------------------
(***************************************************************************)
(* What applying a plan promises its caller, with no worker, channel or    *)
(* context in sight: every action of the plan gets at most one verdict and *)
(* keeps it, an apply either closes with a verdict for every action and a  *)
(* tally that counts exactly those verdicts, or rejects the plan before    *)
(* any verdict is given.                                                   *)
(*                                                                         *)
(* Module Apply is the implementation (internal/engine/engine.go, Apply);  *)
(* it is checked and proved to implement Spec of this module.              *)
(***************************************************************************)
EXTENDS Naturals, FiniteSets

CONSTANT Count                  \* len(proposal.Actions)

Actions  == 1..Count
Verdicts == {"deleted", "skipped", "failed"}
NoTally  == [deleted |-> 0, skipped |-> 0, failed |-> 0]

VARIABLES
  verdict,     \* the verdict of each action, "pending" until it has one
  phase,       \* "open", then "closed" or "rejected"
  tally        \* the counts the caller reads

settlementVars == <<verdict, phase, tally>>

With(v, s) == {a \in Actions : v[a] = s}

\* The counts that describe the verdicts v.
TallyOf(v) == [deleted |-> Cardinality(With(v, "deleted")),
               skipped |-> Cardinality(With(v, "skipped")),
               failed  |-> Cardinality(With(v, "failed"))]

\* Actions that were never attempted end up skipped.
SkipPending(v) == [a \in Actions |-> IF v[a] = "pending" THEN "skipped" ELSE v[a]]

Init ==
  /\ verdict = [a \in Actions |-> "pending"]
  /\ phase = "open"
  /\ tally = NoTally

Settle(a, v) ==
  /\ phase = "open"
  /\ verdict[a] = "pending"
  /\ verdict' = [verdict EXCEPT ![a] = v]
  /\ UNCHANGED <<phase, tally>>

Close ==
  /\ phase = "open"
  /\ verdict' = SkipPending(verdict)
  /\ phase' = "closed"
  /\ tally' = TallyOf(verdict')

Reject ==
  /\ phase = "open"
  /\ \A a \in Actions : verdict[a] = "pending"
  /\ phase' = "rejected"
  /\ UNCHANGED <<verdict, tally>>

Next ==
  \/ \E a \in Actions, v \in Verdicts : Settle(a, v)
  \/ Close
  \/ Reject

Spec == Init /\ [][Next]_settlementVars

=============================================================================
