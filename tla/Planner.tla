------------------------------- MODULE Planner ------------------------------
(***************************************************************************)
(* engine.Plan (internal/engine/engine.go): every target of every policy,  *)
(* policies in name order, is listed, evaluated and merged into one set of *)
(* actions; protection by any evaluation removes an artifact, and the      *)
(* safety limits of each evaluation are validated at the end.              *)
(*                                                                         *)
(* The registries change while Plan runs: two policies that target one     *)
(* artifact list it at two moments.  One listing is one step, since pages  *)
(* read while an artifact changes are pages read before or after, but for  *)
(* the entry that a change moves over the edge of a page: it is listed     *)
(* twice or not at all.                                                    *)
(*                                                                         *)
(* Evaluate is represented by what module Policy checks of it,             *)
(* FloorPerGroup: of each group it keeps keepAtLeast artifacts, less one   *)
(* for each repeated entry, or all of them, and it may delete any other.   *)
(*                                                                         *)
(* An artifact is its artifactKey; rev stands for everything a plan        *)
(* records of it as a precondition (digest, tags, UpdatedAt).              *)
(***************************************************************************)
EXTENDS Integers, Sequences, FiniteSets, Functions

CONSTANTS
  Keys,          \* the artifacts: registry, repository and ID
  RepositoryOf,  \* the repository of each
  AppOf,         \* the group of each under group_by: app
  Policies,      \* policy name -> the fields of its rule
  Evaluations,   \* the loop's iterations: [policy, keys the target selects, paged]
  MaxDrift       \* bound: changes by other clients

ASSUME PlannerAssumption ==
  /\ MaxDrift \in Nat
  /\ IsFiniteSet(Keys)
  /\ \A p \in DOMAIN Policies :
       Policies[p] \in [keepAtLeast : Int, byApp : BOOLEAN, maxCount : Int,
                        maxPercent : SUBSET Int]
  /\ Evaluations \in Seq([policy : DOMAIN Policies, keys : SUBSET Keys, paged : BOOLEAN])

VARIABLES
  rev,           \* the registries: each artifact's revision, 0 when absent
  drift,         \* changes other clients have made
  decided,       \* the decisions of each evaluation so far
  pending,       \* decisions of the last one not merged yet
  discovered, protected,  \* sets of keys
  actions,       \* key -> [policy, rev]
  outcome        \* "planning", then "planned", "safety" or "failed"

vars == <<rev, drift, decided, pending, discovered, protected, actions, outcome>>

Absent == 0

RuleOf(e) == Policies[Evaluations[e].policy]
GroupIn(e, k) == IF RuleOf(e).byApp THEN AppOf[k] ELSE "_default"
AtMost(m, n) == IF m < n THEN m ELSE n

Without(f, S) == Restrict(f, DOMAIN f \ S)

Chosen(D)  == {d \in D : d.delete}
KeysOf(D)  == {d.key : d \in D}

\* How many of the entries D repeat another one.
Repeats(D) == Cardinality(D) - Cardinality(KeysOf(D))

\* The contract of policy.Evaluate on the entries D of evaluation e.
KeepsFloor(e, D) ==
  \A g \in {GroupIn(e, d.key) : d \in D} :
    LET members == {d \in D : GroupIn(e, d.key) = g}
    IN  Cardinality(KeysOf(members \ Chosen(members)))
          >= AtMost(RuleOf(e).keepAtLeast - Repeats(members), Cardinality(KeysOf(members)))

\* What client.List may return: everything present, and from a provider that
\* pages through a moving list possibly one artifact twice, or one too few.
Listings(e) ==
  LET present == {k \in Evaluations[e].keys : rev[k] # Absent}
      once    == {<<k, 1>> : k \in present}
  IN  {once} \cup (IF Evaluations[e].paged
                   THEN UNION {{once \cup {<<k, 2>>}, once \ {<<k, 1>>}} : k \in present}
                   ELSE {})

-----------------------------------------------------------------------------
(* safetyLimit.validate.  Percentages are in hundredths of a percent, the  *)
(* resolution math.Round leaves; maxPercent is the set of the number, as   *)
(* in Config: nothing exceeds a NaN.                                       *)

Percent(part, total) ==
  IF total = 0 THEN 0 ELSE (2 * part * 10000 + total) \div (2 * total)

In(D, r) == {d \in D : RepositoryOf[d.key] = r}

Exceeds(rule, D) ==
  \/ Cardinality(Chosen(D)) > rule.maxCount
  \/ \E p \in rule.maxPercent : Percent(Cardinality(Chosen(D)), Cardinality(D)) > p

\* Mutant: only the whole target is validated.
ValidateTargetOnly(e) == ~Exceeds(RuleOf(e), decided[e])

Validate(e) ==
  /\ ~Exceeds(RuleOf(e), decided[e])
  /\ \A r \in {RepositoryOf[d.key] : d \in Chosen(decided[e])} :
       ~Exceeds(RuleOf(e), In(decided[e], r))

-----------------------------------------------------------------------------

Init ==
  /\ rev \in [Keys -> {Absent, 1}]
  /\ drift = 0
  /\ decided = <<>>
  /\ pending = {}
  /\ discovered = {} /\ protected = {}
  /\ actions = [k \in {} |-> [policy |-> "", rev |-> Absent]]
  /\ outcome = "planning"

\* Another client pushes, retags or deletes an artifact.
Change(k) ==
  /\ outcome = "planning"
  /\ drift < MaxDrift
  /\ drift' = drift + 1
  /\ \/ rev' = [rev EXCEPT ![k] = @ + 1]
     \/ rev[k] # Absent /\ rev' = [rev EXCEPT ![k] = Absent]
  /\ UNCHANGED <<decided, pending, discovered, protected, actions, outcome>>

\* client.List fails, or the rule or the tags cannot be parsed: no plan.
Fail ==
  /\ outcome = "planning"
  /\ pending = {}
  /\ Len(decided) < Len(Evaluations)
  /\ outcome' = "failed"
  /\ UNCHANGED <<rev, drift, decided, pending, discovered, protected, actions>>

\* client.List and policy.Evaluate for the next target; an empty listing is
\* refused as incomplete.
Evaluate ==
  LET e == Len(decided) + 1 IN
  /\ outcome = "planning"
  /\ pending = {}
  /\ e <= Len(Evaluations)
  /\ \E listing \in Listings(e) :
       \/ /\ listing = {}
          /\ outcome' = "failed"
          /\ UNCHANGED <<decided, pending, discovered>>
       \/ /\ listing # {}
          /\ \E deleted \in SUBSET listing :
               LET D == {[key |-> x[1], copy |-> x[2], rev |-> rev[x[1]],
                          delete |-> x \in deleted] : x \in listing}
               IN  /\ KeepsFloor(e, D)
                   /\ decided' = Append(decided, D)
                   /\ pending' = D
                   /\ discovered' = discovered \cup KeysOf(D)
          /\ UNCHANGED outcome
  /\ UNCHANGED <<rev, drift, protected, actions>>

\* actions[key] = keyed{...}
With(f, d) ==
  [k \in DOMAIN f \cup {d.key} |->
     IF k = d.key THEN [policy |-> Evaluations[Len(decided)].policy, rev |-> d.rev]
                  ELSE f[k]]

\* Mutant: an action already planned by an earlier policy is kept as it was.
MergeKeepingFirst(d) ==
  /\ d \in pending
  /\ pending' = pending \ {d}
  /\ IF d.delete
     THEN /\ actions' = IF d.key \in DOMAIN actions THEN actions ELSE With(actions, d)
          /\ UNCHANGED protected
     ELSE /\ protected' = protected \cup {d.key}
          /\ actions' = Without(actions, {d.key})
  /\ UNCHANGED <<rev, drift, decided, discovered, outcome>>

\* Mutant: the last policy decides, its deletion lifts an earlier protection.
MergeLastWins(d) ==
  /\ d \in pending
  /\ pending' = pending \ {d}
  /\ IF d.delete
     THEN /\ actions' = With(actions, d)
          /\ protected' = protected \ {d.key}
     ELSE /\ protected' = protected \cup {d.key}
          /\ actions' = Without(actions, {d.key})
  /\ UNCHANGED <<rev, drift, decided, discovered, outcome>>

\* The inner loop takes one decision, in whatever order the listing had.
Merge(d) ==
  /\ d \in pending
  /\ pending' = pending \ {d}
  /\ IF d.delete
     THEN /\ actions' = With(actions, d)
          /\ UNCHANGED protected
     ELSE /\ protected' = protected \cup {d.key}
          /\ actions' = Without(actions, {d.key})
  /\ UNCHANGED <<rev, drift, decided, discovered, outcome>>

\* Mutant: protections are applied only as they are met.
ConcludeAsMerged ==
  /\ outcome = "planning"
  /\ pending = {}
  /\ Len(decided) = Len(Evaluations)
  /\ outcome' = IF \A e \in DOMAIN Evaluations : Validate(e) THEN "planned" ELSE "safety"
  /\ UNCHANGED <<rev, drift, decided, pending, discovered, protected, actions>>

\* After the loops: protected artifacts leave the plan, then the limits.
Conclude ==
  /\ outcome = "planning"
  /\ pending = {}
  /\ Len(decided) = Len(Evaluations)
  /\ actions' = Without(actions, protected)
  /\ outcome' = IF \A e \in DOMAIN Evaluations : Validate(e) THEN "planned" ELSE "safety"
  /\ UNCHANGED <<rev, drift, decided, pending, discovered, protected>>

Next ==
  \/ \E k \in Keys : Change(k)
  \/ Fail
  \/ Evaluate
  \/ \E d \in pending : Merge(d)
  \/ Conclude

Spec == Init /\ [][Next]_vars

-----------------------------------------------------------------------------
(* Properties.                                                             *)

Decision == [key : Keys, copy : {1, 2}, rev : Nat, delete : BOOLEAN]

TypeOK ==
  /\ rev \in [Keys -> Nat]
  /\ drift \in 0..MaxDrift
  /\ decided \in Seq(SUBSET Decision) /\ Len(decided) <= Len(Evaluations)
  /\ pending \subseteq Decision
  /\ discovered \subseteq Keys /\ protected \subseteq Keys
  /\ DOMAIN actions \subseteq Keys
  /\ \A k \in DOMAIN actions : actions[k] \in [policy : DOMAIN Policies, rev : Nat]
  /\ outcome \in {"planning", "planned", "safety", "failed"}

Done == 1..Len(decided)
ListedBy(e) == KeysOf(decided[e])

\* "Protection always wins": an artifact in the plan was selected by every
\* evaluation that listed it, in whatever order policies and duplicate
\* entries were merged.
ProtectionWins ==
  outcome = "planned" =>
    \A k \in DOMAIN actions, e \in Done : \A d \in decided[e] : d.key = k => d.delete

\* The preconditions of an action are those of the last listing that had the
\* artifact, whatever changed between the listings.
LatestPreconditions ==
  outcome = "planned" =>
    \A k \in DOMAIN actions :
      LET last == CHOOSE e \in Done : /\ k \in ListedBy(e)
                                      /\ \A f \in Done : k \in ListedBy(f) => f <= e
      IN  /\ \E d \in decided[last] : d.key = k /\ d.rev = actions[k].rev
          /\ actions[k].policy = Evaluations[last].policy

\* The floor of every evaluation survives the merge: from what one listing held
\* of a group, the whole plan leaves keepAtLeast artifacts, less one for each
\* repeated entry, or all, even those another policy wanted to delete.
FloorSurvivesMerge ==
  outcome = "planned" =>
    \A e \in Done : \A g \in {GroupIn(e, k) : k \in ListedBy(e)} :
      LET entries == {d \in decided[e] : GroupIn(e, d.key) = g}
      IN  Cardinality(KeysOf(entries) \ DOMAIN actions)
            >= AtMost(RuleOf(e).keepAtLeast - Repeats(entries), Cardinality(KeysOf(entries)))

\* No plan deletes more of one target, or of one repository of it, than the
\* policy allows: at most maxCount, and a share that exceeds maxPercent by
\* less than the rounding error of half a hundredth of a percent, unless that
\* is a NaN.  A policy with several targets is allowed as much of each.
WithinLimits(e, D, n) ==
  /\ n <= RuleOf(e).maxCount
  /\ \A p \in RuleOf(e).maxPercent : 20000 * n < (2 * p + 1) * Cardinality(D)

LimitsHold ==
  outcome = "planned" =>
    \A e \in Done :
      LET planned == ListedBy(e) \cap DOMAIN actions
      IN  /\ WithinLimits(e, decided[e], Cardinality(planned))
          /\ \A r \in {RepositoryOf[k] : k \in ListedBy(e)} :
               WithinLimits(e, In(decided[e], r), Cardinality({k \in planned : RepositoryOf[k] = r}))
=============================================================================
