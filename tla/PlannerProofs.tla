---------------------------- MODULE PlannerProofs ---------------------------
(***************************************************************************)
(* Theorems about Planner for every set of artifacts, of policies and of   *)
(* targets, and every change of the registries between two listings:       *)
(* protection wins, preconditions are the latest, the floors and the       *)
(* limits of every evaluation hold of the merged plan.  The inductive      *)
(* invariant is Inv.                                                       *)
(***************************************************************************)
EXTENDS Planner, FiniteSetTheorems, TLAPS

\* The decisions of evaluation e that have been merged.
Merged(e) == IF e = Len(decided) THEN decided[e] \ pending ELSE decided[e]

Pending ==
  /\ pending # {} => outcome = "planning" /\ Len(decided) > 0
  /\ Len(decided) > 0 => pending \subseteq decided[Len(decided)]

\* Each evaluation has a finite listing, not empty, and keeps its floors.
Floors ==
  \A e \in Done : decided[e] # {} /\ IsFiniteSet(decided[e]) /\ KeepsFloor(e, decided[e])

\* What a merged decision protects is protected, until the plan leaves it out.
Protections ==
  /\ \A e \in Done : \A d \in Merged(e) : d.delete \/ d.key \in protected
  /\ outcome = "planned" => DOMAIN actions \cap protected = {}

\* An action comes from the last evaluation that has merged its artifact.
FromLatest(k) ==
  \E e \in Done :
    /\ \E d \in Merged(e) : d.key = k /\ d.rev = actions[k].rev
    /\ actions[k].policy = Evaluations[e].policy
    /\ \A f \in Done : \A d \in Merged(f) : d.key = k => f <= e

Origins == \A k \in DOMAIN actions : FromLatest(k)

Limits ==
  outcome = "planned" =>
    Len(decided) = Len(Evaluations) /\ \A e \in DOMAIN Evaluations : Validate(e)

Inv == TypeOK /\ Pending /\ Floors /\ Protections /\ Origins /\ Limits

-----------------------------------------------------------------------------
(* Counting decisions and their keys.                                      *)

\* There are no more keys than decisions about them.
LEMMA KeysBound ==
  ASSUME NEW D, IsFiniteSet(D), NEW K, \A k \in K : \E d \in D : d.key = k
  PROVE  IsFiniteSet(K) /\ Cardinality(K) <= Cardinality(D)
<1> DEFINE f == [k \in K |-> CHOOSE d \in D : d.key = k]
<1>1. \A k \in K : f[k] \in D /\ f[k].key = k
  OBVIOUS
<1>2. f \in Injection(K, D)
  <2>1. f \in [K -> D]
    BY <1>1
  <2>2. \A a, b \in K : f[a] = f[b] => a = b
    <3> SUFFICES ASSUME NEW a \in K, NEW b \in K, f[a] = f[b] PROVE a = b
      OBVIOUS
    <3>1. f[a].key = a /\ f[b].key = b
      BY <1>1
    <3> HIDE DEF f
    <3>2. QED BY <3>1
  <2>3. DOMAIN f = K
    OBVIOUS
  <2> HIDE DEF f
  <2>4. QED BY <2>1, <2>2, <2>3 DEF Injection, IsInjective
<1> HIDE DEF f
<1>3. QED BY <1>2, FS_Injection

LEMMA FiniteType ==
  ASSUME NEW S, IsFiniteSet(S), NEW T \in SUBSET S
  PROVE  IsFiniteSet(T) /\ Cardinality(T) \in Nat /\ Cardinality(T) <= Cardinality(S)
BY FS_Subset, FS_CardinalityType

\* A percentage within a limit, without the division.
LEMMA PercentBound ==
  ASSUME NEW part \in Nat, NEW total \in Nat \ {0}, NEW limit \in Int,
         Percent(part, total) <= limit
  PROVE  20000 * part < (2 * limit + 1) * total
<1> DEFINE n == 2 * part * 10000 + total
           q == n \div (2 * total)
           r == n % (2 * total)
<1>1. n \in Nat /\ 2 * total \in Nat \ {0}
  OBVIOUS
<1>2. q \in Nat /\ r \in 0..(2 * total - 1) /\ n = (q * (2 * total)) + r
  <2> HIDE DEF n
  <2> DEFINE m == 2 * total
  <2>1. m \in Nat \ {0}
    BY <1>1
  <2> HIDE DEF m
  <2>2. n \div m \in Nat /\ n % m \in 0..(m - 1) /\ n = ((n \div m) * m) + (n % m)
    BY <1>1, <2>1
  <2>3. QED BY <2>2 DEF m
<1>3. q <= limit
  BY DEF Percent
<1> HIDE DEF q, r
<1>4. q * total <= limit * total
  BY <1>2, <1>3
<1>5. q * (2 * total) = 2 * (q * total) /\ (2 * limit + 1) * total = 2 * (limit * total) + total
  BY <1>2
<1>6. q * total \in Int /\ limit * total \in Int
  BY <1>2
<1>7. QED BY <1>2, <1>4, <1>5, <1>6

LEMMA PercentType ==
  ASSUME NEW part \in Nat, NEW total \in Nat
  PROVE  Percent(part, total) \in Nat
<1>1. CASE total = 0
  BY <1>1 DEF Percent
<1>2. CASE total # 0
  <2>1. 2 * part * 10000 + total \in Nat /\ 2 * total \in Nat \ {0}
    BY <1>2
  <2>2. (2 * part * 10000 + total) \div (2 * total) \in Nat
    <3> DEFINE n == 2 * part * 10000 + total
               m == 2 * total
    <3> HIDE DEF n, m
    <3>1. n \div m \in Nat
      BY <2>1 DEF n, m
    <3>2. QED BY <3>1 DEF n, m
  <2>3. QED BY <1>2, <2>2 DEF Percent
<1>3. QED BY <1>1, <1>2

-----------------------------------------------------------------------------
(* The inductive invariant.                                                *)

LEMMA EvaluationType ==
  ASSUME NEW e \in DOMAIN Evaluations
  PROVE  /\ e \in Nat \ {0} /\ e <= Len(Evaluations) /\ Len(Evaluations) \in Nat
         /\ Evaluations[e].policy \in DOMAIN Policies
         /\ Evaluations[e].keys \subseteq Keys
         /\ RuleOf(e) \in [keepAtLeast : Int, byApp : BOOLEAN, maxCount : Int,
                          maxPercent : SUBSET Int]
<1> DEFINE Type == [policy : DOMAIN Policies, keys : SUBSET Keys, paged : BOOLEAN]
<1>1. Evaluations \in Seq(Type)
  BY PlannerAssumption
<1>2. /\ Evaluations[e] \in Type /\ Len(Evaluations) \in Nat
      /\ e \in Nat \ {0} /\ e <= Len(Evaluations)
  <2> HIDE DEF Type
  <2> QED BY <1>1
<1>3. QED BY PlannerAssumption, <1>2 DEF RuleOf

LEMMA InitInv == Init => Inv
<1> SUFFICES ASSUME Init PROVE Inv
  OBVIOUS
<1> USE PlannerAssumption
<1>1. decided \in Seq(SUBSET Decision) /\ Len(decided) = 0 /\ Done = {}
  BY DEF Init, Done
<1>2. DOMAIN actions = {}
  BY DEF Init
<1>3. TypeOK
  BY <1>1, <1>2 DEF Init, TypeOK, Absent
<1>4. Pending /\ Floors /\ Protections /\ Origins /\ Limits
  BY <1>1, <1>2 DEF Init, Pending, Floors, Protections, Origins, Limits
<1>5. QED BY <1>3, <1>4 DEF Inv

\* What other clients do between two listings does not touch the plan.
LEMMA ChangeInv ==
  ASSUME Inv, NEW k \in Keys, Change(k)
  PROVE  Inv'
<1> USE DEF Inv
<1>1. UNCHANGED <<decided, pending, discovered, protected, actions, outcome>>
  BY DEF Change
<1>2. TypeOK'
  <2>1. rev' \in [Keys -> Nat] /\ drift' \in 0..MaxDrift
    <3>1. rev \in [Keys -> Nat] /\ drift \in 0..MaxDrift /\ MaxDrift \in Nat
      BY PlannerAssumption DEF TypeOK
    <3>2. /\ drift < MaxDrift /\ drift' = drift + 1
          /\ rev' = [rev EXCEPT ![k] = @ + 1] \/ rev' = [rev EXCEPT ![k] = 0]
      BY DEF Change, Absent
    <3>3. QED BY <3>1, <3>2
  <2>2. QED BY <1>1, <2>1 DEF TypeOK
<1>3. Pending' /\ Floors' /\ Limits'
  BY <1>1 DEF Pending, Floors, Done, Limits, Validate
<1>4. Protections' /\ Origins'
  BY <1>1 DEF Protections, Origins, FromLatest, Merged, Done
<1>5. QED BY <1>2, <1>3, <1>4

LEMMA FailInv ==
  ASSUME Inv, Fail \/ UNCHANGED vars
  PROVE  Inv'
<1> USE PlannerAssumption DEF Inv
<1>1. /\ UNCHANGED <<rev, drift, decided, pending, discovered, protected, actions>>
      /\ \/ outcome' = "failed" /\ pending = {}
         \/ outcome' = outcome
  BY DEF Fail, vars
<1>2. TypeOK'
  BY <1>1 DEF TypeOK
<1>3. Pending' /\ Floors' /\ Limits'
  BY <1>1 DEF Pending, Floors, Done, Limits, Validate
<1>4. Protections' /\ Origins'
  BY <1>1 DEF Protections, Origins, FromLatest, Merged, Done
<1>5. QED BY <1>2, <1>3, <1>4

\* The entries of a listing are finitely many artifacts and their copies.
LEMMA ListingFinite ==
  ASSUME TypeOK, NEW e \in DOMAIN Evaluations, NEW listing \in Listings(e)
  PROVE  listing \subseteq Keys \X {1, 2} /\ IsFiniteSet(listing)
<1>1. Evaluations[e].keys \subseteq Keys
  BY EvaluationType
<1>2. listing \subseteq Keys \X {1, 2}
  BY <1>1 DEF Listings
<1>3. IsFiniteSet({1, 2})
  <2>1. {1, 2} = 1..2
    OBVIOUS
  <2>2. IsFiniteSet(1..2)
    <3>1. 1 \in Int /\ 2 \in Int
      OBVIOUS
    <3>2. QED BY <3>1, FS_Interval
  <2>3. QED BY <2>1, <2>2
<1>4. QED BY PlannerAssumption, <1>2, <1>3, FS_Product, FS_Subset

\* The decisions of the next target are recorded; none is merged yet.
LEMMA EvaluateInv ==
  ASSUME Inv, Evaluate
  PROVE  Inv'
<1> USE DEF Inv
<1>0. Len(decided) \in Nat
  BY DEF TypeOK
<1> PICK e \in Nat : e = Len(decided) + 1
  BY <1>0
<1>1. /\ UNCHANGED <<rev, drift, protected, actions>>
      /\ outcome = "planning" /\ pending = {}
      /\ Len(decided) \in Nat /\ e \in DOMAIN Evaluations /\ e \in Nat
  BY PlannerAssumption, <1>0 DEF Evaluate
<1>2. CASE outcome' = "failed" /\ UNCHANGED <<decided, pending, discovered>>
  <2>1. Fail
    BY <1>1, <1>2 DEF Fail
  <2>2. QED BY <2>1, FailInv
<1>3. ASSUME NEW listing \in Listings(e), listing # {}, NEW deleted \in SUBSET listing, NEW D,
             D = {[key |-> x[1], copy |-> x[2], rev |-> rev[x[1]], delete |-> x \in deleted]
                    : x \in listing},
             KeepsFloor(e, D),
             decided' = Append(decided, D), pending' = D,
             discovered' = discovered \cup KeysOf(D), outcome' = outcome
      PROVE  Inv'
  <2>0. D # {}
    BY <1>3
  <2>1. listing \subseteq Keys \X {1, 2} /\ IsFiniteSet(listing)
    BY <1>1, ListingFinite
  <2>2. D \subseteq Decision
    <3> SUFFICES ASSUME NEW x \in listing
                 PROVE  [key |-> x[1], copy |-> x[2], rev |-> rev[x[1]], delete |-> x \in deleted]
                          \in Decision
      BY <1>3
    <3>1. x[1] \in Keys /\ x[2] \in {1, 2} /\ rev[x[1]] \in Nat
      BY <2>1 DEF TypeOK
    <3>2. (x \in deleted) \in BOOLEAN
      OBVIOUS
    <3>3. QED BY <3>1, <3>2 DEF Decision
  <2>3. IsFiniteSet(D)
    <3> DEFINE x(d) == <<d.key, d.copy>>
               f == [d \in D |-> x(d)]
    <3>1. \A d \in D : x(d) \in listing /\ d.rev = rev[d.key] /\ d.delete = (x(d) \in deleted)
      BY <2>1, <1>3
    <3>2. f \in Injection(D, listing)
      <4>1. \A c, d \in D : x(c) = x(d) => c = d
        <5> SUFFICES ASSUME NEW c \in D, NEW d \in D, x(c) = x(d) PROVE c = d
          OBVIOUS
        <5>1. PICK v \in listing : c = [key |-> v[1], copy |-> v[2], rev |-> rev[v[1]],
                                        delete |-> v \in deleted]
          BY <1>3
        <5>2. PICK w \in listing : d = [key |-> w[1], copy |-> w[2], rev |-> rev[w[1]],
                                        delete |-> w \in deleted]
          BY <1>3
        <5>3. v[1] = w[1] /\ v[2] = w[2]
          BY <5>1, <5>2
        <5>4. v = w
          BY <2>1, <5>3
        <5>5. QED BY <5>1, <5>2, <5>4
      <4>2. f \in [D -> listing] /\ DOMAIN f = D
        BY <3>1
      <4>3. \A c \in D : f[c] = x(c)
        OBVIOUS
      <4> HIDE DEF f, x
      <4>4. QED BY <4>1, <4>2, <4>3 DEF Injection, IsInjective
    <3> HIDE DEF f
    <3>3. QED BY <2>1, <3>2, FS_Injection
  <2>4. /\ decided' \in Seq(SUBSET Decision) /\ Len(decided') = e /\ e <= Len(Evaluations)
        /\ decided'[e] = D /\ \A i \in Done : decided'[i] = decided[i]
    BY <1>1, <1>3, <2>2, EvaluationType DEF TypeOK, Done
  <2>5. Done' = Done \cup {e} /\ e \notin Done
    BY <1>1, <2>4 DEF Done
  <2>6. \A i \in Done : Merged(i)' = Merged(i)
    BY <1>1, <1>3, <2>4, <2>5 DEF Merged
  <2>7. Merged(e)' = {}
    BY <1>3, <2>4 DEF Merged
  <2>8. TypeOK'
    BY <1>1, <1>3, <2>2, <2>4 DEF TypeOK, KeysOf, Decision
  <2>9. Pending'
    BY <1>1, <1>3, <2>4 DEF Pending
  <2>10. Floors'
    BY <1>3, <2>0, <2>3, <2>4, <2>5 DEF Floors
  <2>11. Protections'
    BY <1>1, <1>3, <2>5, <2>6, <2>7 DEF Protections
  <2>12. Origins'
    BY <1>1, <2>5, <2>6, <2>7 DEF Origins, FromLatest
  <2>13. Limits'
    BY <1>1, <1>3 DEF Limits
  <2>14. QED BY <2>8, <2>9, <2>10, <2>11, <2>12, <2>13
<1>4. QED BY <1>2, <1>3 DEF Evaluate

\* A merged decision either protects its artifact, which leaves the plan, or
\* becomes its action, which then has the latest precondition.
LEMMA MergeInv ==
  ASSUME Inv, NEW d \in pending, Merge(d)
  PROVE  Inv'
<1> USE DEF Inv
<1>0. Len(decided) \in Nat
  BY DEF TypeOK
<1> PICK e \in Nat : e = Len(decided)
  BY <1>0
<1>1. /\ UNCHANGED <<rev, drift, decided, discovered, outcome>>
      /\ pending' = pending \ {d} /\ outcome = "planning"
      /\ \/ d.delete /\ actions' = With(actions, d) /\ protected' = protected
         \/ /\ ~d.delete
            /\ actions' = Without(actions, {d.key}) /\ protected' = protected \cup {d.key}
  BY DEF Merge, Pending
<1>2. e \in Nat \ {0} /\ e \in Done /\ d \in decided[e] /\ e \in DOMAIN Evaluations
  <2>1. Len(decided) \in Nat /\ Len(decided) <= Len(Evaluations)
    BY DEF TypeOK
  <2>2. QED BY <2>1, PlannerAssumption DEF Pending, Done
<1>3. d.key \in Keys /\ d.rev \in Nat /\ d.delete \in BOOLEAN
  BY DEF TypeOK, Decision
<1>4. Done' = Done /\ Merged(e)' = Merged(e) \cup {d}
      /\ \A i \in Done \ {e} : Merged(i)' = Merged(i)
  BY <1>1, <1>2 DEF Done, Merged
<1>5. \A k \in DOMAIN actions' \ {d.key} : k \in DOMAIN actions /\ actions'[k] = actions[k]
  BY <1>1 DEF With, Without, Restrict
<1>6. d.key \in DOMAIN actions' =>
        d.delete /\ actions'[d.key] = [policy |-> Evaluations[e].policy, rev |-> d.rev]
  BY <1>1 DEF With, Without, Restrict
<1>7. TypeOK'
  <2>1. DOMAIN actions' \subseteq Keys
    BY <1>3, <1>5 DEF TypeOK
  <2>2. \A k \in DOMAIN actions' : actions'[k] \in [policy : DOMAIN Policies, rev : Nat]
    BY <1>2, <1>3, <1>5, <1>6, EvaluationType DEF TypeOK
  <2>3. QED BY <1>1, <1>3, <2>1, <2>2 DEF TypeOK
<1>8. Pending' /\ Floors' /\ Limits'
  BY <1>1, <1>4 DEF Pending, Floors, Limits
<1>9. Protections'
  <2>1. \A i \in Done : \A c \in Merged(i)' : c.delete \/ c.key \in protected'
    BY <1>1, <1>4 DEF Protections
  <2>2. QED BY <1>1, <1>4, <2>1 DEF Protections
<1>10. Origins'
  <2> SUFFICES ASSUME NEW k \in DOMAIN actions' PROVE FromLatest(k)'
    BY DEF Origins
  <2>1. CASE k = d.key
    <3>1. d \in Merged(e)' /\ d.rev = actions'[k].rev /\ actions'[k].policy = Evaluations[e].policy
      BY <1>4, <1>6, <2>1
    <3>2. \A f \in Done : f <= e
      BY <1>2 DEF Done
    <3>3. QED BY <1>2, <1>4, <2>1, <3>1, <3>2 DEF FromLatest
  <2>2. CASE k # d.key
    <3>1. FromLatest(k) /\ actions'[k] = actions[k]
      BY <1>5, <2>2 DEF Origins
    <3>2. PICK i \in Done :
            /\ \E c \in Merged(i) : c.key = k /\ c.rev = actions[k].rev
            /\ actions[k].policy = Evaluations[i].policy
            /\ \A f \in Done : \A c \in Merged(f) : c.key = k => f <= i
      BY <3>1 DEF FromLatest
    <3>3. \E c \in Merged(i)' : c.key = k /\ c.rev = actions[k].rev
      BY <1>4, <3>2
    <3>4. \A f \in Done : \A c \in Merged(f)' : c.key = k => f <= i
      BY <1>4, <2>2, <3>2
    <3>5. QED BY <1>4, <3>1, <3>2, <3>3, <3>4 DEF FromLatest
  <2>3. QED BY <2>1, <2>2
<1>11. QED BY <1>7, <1>8, <1>9, <1>10

\* What is protected leaves the plan; a plan is one whose limits all hold.
LEMMA ConcludeInv ==
  ASSUME Inv, Conclude
  PROVE  Inv'
<1> USE DEF Inv
<1>1. /\ UNCHANGED <<rev, drift, decided, pending, discovered, protected>>
      /\ pending = {} /\ Len(decided) = Len(Evaluations)
      /\ outcome' = IF \A e \in DOMAIN Evaluations : Validate(e) THEN "planned" ELSE "safety"
  BY DEF Conclude
<1>2. /\ DOMAIN actions' = DOMAIN actions \ protected
      /\ \A k \in DOMAIN actions' : actions'[k] = actions[k]
  BY DEF Conclude, Without, Restrict
<1>3. TypeOK'
  BY <1>1, <1>2 DEF TypeOK
<1>4. Done' = Done /\ \A i \in Done : Merged(i)' = Merged(i)
  BY <1>1 DEF Done, Merged
<1>5. Pending' /\ Floors' /\ Limits'
  BY <1>1, <1>4 DEF Pending, Floors, Limits, Validate
<1>6. Protections'
  BY <1>1, <1>2, <1>4 DEF Protections
<1>7. Origins'
  BY <1>2, <1>4 DEF Origins, FromLatest
<1>8. QED BY <1>3, <1>5, <1>6, <1>7

\* The invariant holds in every state of every behaviour.
THEOREM Invariance == Spec => []Inv
<1>1. Inv /\ [Next]_vars => Inv'
  BY ChangeInv, FailInv, EvaluateInv, MergeInv, ConcludeInv DEF Next
<1>2. QED BY InitInv, <1>1, PTL DEF Spec

-----------------------------------------------------------------------------
(* What it says of the code.                                               *)

\* Every variable keeps its type: no artifact is planned that was not listed.
THEOREM PlannerTypeCorrect == Spec => []TypeOK
BY Invariance, PTL DEF Inv

\* A plan holds no artifact that an evaluation kept, in whatever order
\* policies and duplicate entries were merged.
LEMMA InvProtects == Inv => ProtectionWins
<1> SUFFICES ASSUME Inv, outcome = "planned",
                    NEW k \in DOMAIN actions, NEW e \in Done, NEW d \in decided[e], d.key = k
             PROVE  d.delete
  BY DEF ProtectionWins
<1>1. Merged(e) = decided[e] /\ k \notin protected
  BY DEF Inv, Pending, Protections, Merged
<1>2. QED BY <1>1 DEF Inv, Protections

THEOREM ProtectionAlwaysWins == Spec => []ProtectionWins
BY Invariance, InvProtects, PTL

\* The preconditions of an action are those of the last listing that had the
\* artifact.
THEOREM PreconditionsLatest == Spec => []LatestPreconditions
<1>1. Inv => LatestPreconditions
  <2> SUFFICES ASSUME Inv, outcome = "planned", NEW k \in DOMAIN actions
               PROVE  LET last == CHOOSE e \in Done : /\ k \in ListedBy(e)
                                                      /\ \A f \in Done : k \in ListedBy(f) => f <= e
                      IN  /\ \E d \in decided[last] : d.key = k /\ d.rev = actions[k].rev
                          /\ actions[k].policy = Evaluations[last].policy
    BY DEF LatestPreconditions
  <2> DEFINE Last(e) == k \in ListedBy(e) /\ \A f \in Done : k \in ListedBy(f) => f <= e
  <2>1. \A e \in Done : Merged(e) = decided[e]
    BY DEF Inv, Pending, Merged
  <2>2. PICK i \in Done :
          /\ \E d \in decided[i] : d.key = k /\ d.rev = actions[k].rev
          /\ actions[k].policy = Evaluations[i].policy
          /\ \A f \in Done : \A d \in decided[f] : d.key = k => f <= i
    BY <2>1 DEF Inv, Origins, FromLatest
  <2>3. \A e \in Done : k \in ListedBy(e) <=> \E d \in decided[e] : d.key = k
    BY DEF ListedBy, KeysOf
  <2>4. Last(i)
    BY <2>2, <2>3
  <2>5. \A e \in Done : Last(e) => e = i
    <3>1. Done \subseteq Nat
      BY DEF Done
    <3>2. QED BY <2>4, <3>1
  <2> HIDE DEF Last
  <2>6. (CHOOSE e \in Done : Last(e)) = i
    BY <2>4, <2>5
  <2>7. QED BY <2>2, <2>6 DEF Last
<1>2. QED BY Invariance, <1>1, PTL

\* Of every group of every listing the plan leaves keepAtLeast artifacts, less
\* one for each repeated entry, or all of them, whatever the other policies
\* delete.
THEOREM FloorOfThePlan == Spec => []FloorSurvivesMerge
<1>1. Inv => FloorSurvivesMerge
  <2> SUFFICES ASSUME Inv, outcome = "planned",
                      NEW e \in Done, NEW g \in {GroupIn(e, k) : k \in ListedBy(e)}
               PROVE  LET entries == {d \in decided[e] : GroupIn(e, d.key) = g}
                      IN  Cardinality(KeysOf(entries) \ DOMAIN actions)
                            >= AtMost(RuleOf(e).keepAtLeast - Repeats(entries),
                                      Cardinality(KeysOf(entries)))
    BY DEF FloorSurvivesMerge
  <2> DEFINE entries == {d \in decided[e] : GroupIn(e, d.key) = g}
             kept    == KeysOf(entries \ Chosen(entries))
             left    == KeysOf(entries) \ DOMAIN actions
             floor   == AtMost(RuleOf(e).keepAtLeast - Repeats(entries),
                               Cardinality(KeysOf(entries)))
  <2>1. IsFiniteSet(decided[e]) /\ KeepsFloor(e, decided[e])
    BY DEF Inv, Floors
  <2>2. e \in DOMAIN Evaluations
    BY PlannerAssumption DEF Inv, TypeOK, Done
  <2>3. Cardinality(kept) >= floor
    <3>1. g \in {GroupIn(e, d.key) : d \in decided[e]}
      BY DEF ListedBy, KeysOf
    <3>2. QED BY <2>1, <3>1 DEF KeepsFloor
  <2>4. kept \subseteq left
    BY InvProtects DEF ProtectionWins, KeysOf, Chosen
  <2>5. IsFiniteSet(entries) /\ Cardinality(entries) \in Nat
    BY <2>1, FiniteType
  <2>6. IsFiniteSet(KeysOf(entries)) /\ Cardinality(KeysOf(entries)) \in Nat
    <3> HIDE DEF entries
    <3>1. \A k \in KeysOf(entries) : \E d \in entries : d.key = k
      BY DEF KeysOf
    <3>2. QED BY <2>5, <3>1, KeysBound, FS_CardinalityType
  <2>7. left \in SUBSET KeysOf(entries)
    OBVIOUS
  <2> HIDE DEF entries, kept, left
  <2>8. IsFiniteSet(left) /\ Cardinality(left) \in Nat
    BY <2>6, <2>7, FiniteType
  <2>9. Cardinality(kept) \in Nat /\ Cardinality(kept) <= Cardinality(left)
    BY <2>4, <2>8, FiniteType
  <2>10. floor \in Int
    <3>1. RuleOf(e).keepAtLeast \in Int
      BY <2>2, EvaluationType
    <3>2. QED BY <2>5, <2>6, <3>1 DEF AtMost, Repeats
  <2> HIDE DEF floor
  <2>11. Cardinality(left) >= floor
    BY <2>3, <2>8, <2>9, <2>10
  <2>12. QED BY <2>11 DEF entries, left, floor
<1>2. QED BY Invariance, <1>1, PTL

\* Where the limits were validated, what is planned of the chosen is within.
LEMMA ValidatedWithin ==
  ASSUME NEW e \in DOMAIN Evaluations, NEW D, IsFiniteSet(D), D # {},
         ~Exceeds(RuleOf(e), D),
         NEW planned, \A k \in planned : \E d \in Chosen(D) : d.key = k
  PROVE  WithinLimits(e, D, Cardinality(planned))
<1> DEFINE chosen  == Chosen(D)
           count   == RuleOf(e).maxCount
           percents == RuleOf(e).maxPercent
           share   == Percent(Cardinality(chosen), Cardinality(D))
<1>1. count \in Int /\ percents \in SUBSET Int
  BY EvaluationType
<1>2. /\ IsFiniteSet(chosen) /\ Cardinality(chosen) \in Nat
      /\ Cardinality(D) \in Nat \ {0}
  BY FiniteType, FS_CardinalityType, FS_EmptySet DEF Chosen
<1>3. /\ ~(Cardinality(chosen) > count) /\ share \in Nat
      /\ \A percent \in percents : ~(share > percent)
  BY <1>2, PercentType DEF Exceeds
<1>4. Cardinality(planned) \in Nat /\ Cardinality(planned) <= Cardinality(chosen)
  <2> HIDE DEF chosen
  <2> QED BY <1>2, KeysBound, FS_CardinalityType DEF chosen
<1>5. Cardinality(chosen) <= count /\ Cardinality(planned) <= count
  <2> HIDE DEF chosen, count
  <2> QED BY <1>1, <1>2, <1>3, <1>4
<1>6. ASSUME NEW percent \in percents
      PROVE  20000 * Cardinality(planned) < (2 * percent + 1) * Cardinality(D)
  <2>1. percent \in Int /\ share <= percent
    <3> HIDE DEF share, percents
    <3> QED BY <1>1, <1>3
  <2>2. 20000 * Cardinality(chosen) < (2 * percent + 1) * Cardinality(D)
    <3> HIDE DEF chosen
    <3> QED BY <1>2, <2>1, PercentBound DEF share
  <2> DEFINE bound == (2 * percent + 1) * Cardinality(D)
  <2>3. bound \in Int /\ 20000 * Cardinality(chosen) < bound
    <3> HIDE DEF chosen
    <3> QED BY <1>2, <2>1, <2>2
  <2> HIDE DEF bound, chosen
  <2>4. 20000 * Cardinality(planned) < bound
    BY <1>2, <1>4, <2>3
  <2>5. QED BY <2>4 DEF bound
<1>7. QED BY <1>5, <1>6 DEF WithinLimits

\* A validated limit is not negative: it lets no deletion at all through.
LEMMA NothingWithin ==
  ASSUME NEW e \in DOMAIN Evaluations, NEW C, IsFiniteSet(C), ~Exceeds(RuleOf(e), C),
         NEW D, IsFiniteSet(D), D # {}
  PROVE  WithinLimits(e, D, 0)
<1> DEFINE chosen  == Cardinality(Chosen(C))
           share   == Percent(chosen, Cardinality(C))
           count   == RuleOf(e).maxCount
           percents == RuleOf(e).maxPercent
<1>1. count \in Int /\ percents \in SUBSET Int
  BY EvaluationType
<1>2. chosen \in Nat /\ Cardinality(C) \in Nat /\ Cardinality(D) \in Nat \ {0}
  BY FiniteType, FS_CardinalityType, FS_EmptySet DEF Chosen
<1>3. /\ ~(chosen > count) /\ share \in Nat
      /\ \A percent \in percents : ~(share > percent)
  BY <1>2, PercentType DEF Exceeds
<1>4. count >= 0 /\ \A percent \in percents : percent \in Int /\ percent >= 0
  <2> HIDE DEF chosen, share, count, percents
  <2> QED BY <1>1, <1>2, <1>3
<1>5. 0 <= count /\ \A percent \in percents : 20000 * 0 < (2 * percent + 1) * Cardinality(D)
  <2> HIDE DEF count, percents
  <2> QED BY <1>1, <1>2, <1>4
<1>6. QED BY <1>5 DEF WithinLimits

\* No plan deletes more of one target, nor of one repository of it, than
\* maxCount, nor a share that exceeds maxPercent by more than rounding hides.
THEOREM LimitsOfThePlan == Spec => []LimitsHold
<1>1. Inv => LimitsHold
  <2> SUFFICES ASSUME Inv, outcome = "planned", NEW e \in Done
               PROVE  LET planned == ListedBy(e) \cap DOMAIN actions
                      IN  /\ WithinLimits(e, decided[e], Cardinality(planned))
                          /\ \A r \in {RepositoryOf[k] : k \in ListedBy(e)} :
                               WithinLimits(e, In(decided[e], r),
                                            Cardinality({k \in planned : RepositoryOf[k] = r}))
    BY DEF LimitsHold
  <2> DEFINE planned == ListedBy(e) \cap DOMAIN actions
  <2>1. /\ e \in DOMAIN Evaluations /\ Validate(e)
        /\ IsFiniteSet(decided[e]) /\ decided[e] # {}
    <3>1. e \in DOMAIN Evaluations
      BY PlannerAssumption DEF Inv, TypeOK, Done
    <3>2. QED BY <3>1 DEF Inv, Limits, Floors
  <2>2. ~Exceeds(RuleOf(e), decided[e])
    BY <2>1 DEF Validate
  <2>3. WithinLimits(e, decided[e], Cardinality(planned))
    <3>1. \A k \in planned : \E d \in Chosen(decided[e]) : d.key = k
      BY InvProtects DEF ProtectionWins, ListedBy, KeysOf, Chosen
    <3> HIDE DEF planned
    <3>2. QED BY <2>1, <2>2, <3>1, ValidatedWithin
  <2>4. ASSUME NEW r \in {RepositoryOf[k] : k \in ListedBy(e)}
        PROVE  WithinLimits(e, In(decided[e], r), Cardinality({k \in planned : RepositoryOf[k] = r}))
    <3> DEFINE D == In(decided[e], r)
               K == {k \in planned : RepositoryOf[k] = r}
    <3>1. IsFiniteSet(D) /\ D # {}
      BY <2>1, FiniteType DEF In, ListedBy, KeysOf
    <3>2. \A k \in K : \E d \in Chosen(D) : d.key = k
      BY InvProtects DEF ProtectionWins, ListedBy, KeysOf, Chosen, In
    <3>3. CASE K = {}
      <4>1. Cardinality(K) = 0
        BY <3>3, FS_EmptySet
      <4>2. WithinLimits(e, D, 0)
        <5> HIDE DEF D
        <5> QED BY <2>1, <2>2, <3>1, NothingWithin
      <4>3. QED BY <4>1, <4>2
    <3>4. CASE K # {}
      <4>1. r \in {RepositoryOf[d.key] : d \in Chosen(decided[e])}
        BY <3>2, <3>4 DEF Chosen, In
      <4>2. ~Exceeds(RuleOf(e), D)
        BY <2>1, <4>1 DEF Validate
      <4> HIDE DEF D, K
      <4>3. WithinLimits(e, D, Cardinality(K))
        BY <2>1, <3>1, <3>2, <4>2, ValidatedWithin
      <4>4. QED BY <4>3 DEF D, K
    <3>5. QED BY <3>3, <3>4
  <2>5. QED BY <2>3, <2>4
<1>2. QED BY Invariance, <1>1, PTL
=============================================================================
