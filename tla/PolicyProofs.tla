---------------------------- MODULE PolicyProofs ----------------------------
(***************************************************************************)
(* Theorems about Policy for every listing, every rule and every order in  *)
(* which the groups are visited: the floor of every group holds, groups    *)
(* that can be ordered are kept newest first, and dates are respected in   *)
(* the listings of an OCI repository.  The inductive invariant is Inv.     *)
(***************************************************************************)
EXTENDS Policy, Config, FiniteSetTheorems, TLAPS

\* The groups are the indices read so far, each in listing order.
Grouped ==
  /\ DOMAIN groups = {GroupOf(artifacts[i]) : i \in 1..(next - 1)}
  /\ \A g \in DOMAIN groups :
       /\ \A k \in 1..Len(groups[g]) : GroupOf(artifacts[groups[g][k]]) = g
       /\ \A i \in 1..(next - 1) :
            GroupOf(artifacts[i]) = g => \E k \in 1..Len(groups[g]) : groups[g][k] = i
       /\ \A k, l \in 1..Len(groups[g]) : k < l => groups[g][k] < groups[g][l]

\* One group at a time is sorted, and none before all are complete.
Phases ==
  /\ next <= Len(artifacts) => current = {} /\ visited = {}
  /\ \A g, h \in current : g = h
  /\ current \cap visited = {}
  /\ current = {} => order = <<>>

\* Members of a group among which Newer is an order: any two of a homogeneous
\* group; any two parsed ones, when IDs ascend.
Comparable(g, i, j) ==
  \/ Homogeneous(g)
  \/ Ascending /\ Parsed(artifacts[i]) /\ Parsed(artifacts[j])

\* order is a permutation of the members placed so far, sorted where Newer is
\* an order.
SortedPart ==
  \A g \in current :
    /\ Len(order) <= Len(groups[g])
    /\ \A k \in 1..Len(order) : \E l \in 1..Len(order) : order[k] = groups[g][l]
    /\ \A l \in 1..Len(order) : \E k \in 1..Len(order) : order[k] = groups[g][l]
    /\ \A k, l \in 1..Len(order) : order[k] = order[l] => k = l
    /\ \A k, l \in 1..Len(order) :
         k < l /\ Comparable(g, order[k], order[l])
           => Newer(artifacts[order[k]], artifacts[order[l]])

\* What is settled of a group once it has been decided.
FloorOf(g) == Cardinality(Kept(g)) >= AtMost(rule.keepAtLeast, Cardinality(Group(g)))

AheadOf(g, i) == {j \in Group(g) : Newer(artifacts[j], artifacts[i])}

NewestOf(g) ==
  Homogeneous(g) =>
    \A i \in Group(g) : decisions[i] = Decision(artifacts[i], Cardinality(AheadOf(g, i)))

DatesOf(g) ==
  Ascending => \A i, j \in Group(g) :
    /\ Parsed(artifacts[i]) /\ Parsed(artifacts[j])
    /\ artifacts[j].versions[1].date > artifacts[i].versions[1].date
    => ~Outlives(i, j)

Decided == \A g \in visited : FloorOf(g) /\ NewestOf(g) /\ DatesOf(g)

Inputs == artifacts \in Seq(ParsedArtifact)

Inv == TypeOK /\ Inputs /\ Grouped /\ Phases /\ SortedPart /\ Decided

-----------------------------------------------------------------------------
(* Sequences and counting.                                                 *)

LEMMA Smallest ==
  ASSUME NEW T \in SUBSET Nat, T # {}
  PROVE  \E x \in T : \A y \in T : x <= y
<1> DEFINE Less == {p \in Nat \X Nat : p[1] < p[2]}
<1>1. Less = OpToRel(<, Nat)
  BY DEF OpToRel
<1>2. IsWellFoundedOn(Less, Nat)
  BY <1>1, NatLessThanWellFounded
<1>3. PICK x \in T : \A y \in T : ~(<<y, x>> \in Less)
  <2> HIDE DEF Less
  <2> QED BY <1>2, WFMin
<1>4. ASSUME NEW y \in T PROVE x <= y
  <2>1. <<y, x>> \in Nat \X Nat /\ <<y, x>>[1] = y /\ <<y, x>>[2] = x
    OBVIOUS
  <2>2. ~(y < x)
    BY <1>3, <2>1
  <2>3. QED BY <2>2
<1>5. QED BY <1>4

LEMMA MaxFacts ==
  ASSUME NEW n \in Nat, NEW A \in SUBSET (1..n)
  PROVE  /\ Max({0} \cup A) \in 0..n
         /\ Max({0} \cup A) # 0 => Max({0} \cup A) \in A
         /\ \A k \in A : k <= Max({0} \cup A)
<1> DEFINE S == {0} \cup A
           T == {n - k : k \in S}
<1>1. T \in SUBSET Nat /\ T # {}
  OBVIOUS
<1>2. PICK t \in T : \A y \in T : t <= y
  <2> HIDE DEF T
  <2> QED BY <1>1, Smallest
<1>3. PICK m \in S : t = n - m
  OBVIOUS
<1>4. \A k \in S : m >= k
  <2> TAKE k \in S
  <2>1. n - k \in T /\ k \in 0..n /\ m \in 0..n
    OBVIOUS
  <2>2. n - m <= n - k
    BY <1>2, <1>3, <2>1
  <2>3. QED BY <2>1, <2>2
<1>5. Max(S) \in S /\ \A k \in S : Max(S) >= k
  BY <1>4 DEF Max
<1>6. PICK v \in S : v = Max(S) /\ \A k \in S : v >= k
  BY <1>5
<1>7. v \in 0..n /\ (v # 0 => v \in A)
  OBVIOUS
<1>8. \A k \in A : k <= v
  <2> TAKE k \in A
  <2>1. k \in S /\ k \in Int /\ v \in Int
    BY <1>7
  <2>2. v >= k
    BY <1>6, <2>1
  <2>3. QED BY <2>1, <2>2
<1>9. QED BY <1>6, <1>7, <1>8

\* In t the element x has gone to position p of s and those from there on have
\* moved up.
Inserted(t, s, p, x) ==
  /\ Len(t) = Len(s) + 1
  /\ \A k \in 1..(Len(s) + 1) :
       t[k] = IF k < p THEN s[k] ELSE IF k = p THEN x ELSE s[k - 1]

LEMMA InsertFacts ==
  ASSUME NEW S, NEW s \in Seq(S), NEW x \in S, NEW p \in 1..(Len(s) + 1)
  PROVE  InsertAt(s, p, x) \in Seq(S) /\ Inserted(InsertAt(s, p, x), s, p, x)
<1> DEFINE a == SubSeq(s, 1, p - 1)
           b == SubSeq(s, p, Len(s))
<1>1. /\ a \in Seq(S) /\ Len(a) = p - 1
      /\ \A k \in 1..(p - 1) : a[k] = s[k]
  OBVIOUS
<1>2. /\ b \in Seq(S) /\ Len(b) = Len(s) - p + 1
      /\ \A k \in 1..(Len(s) - p + 1) : b[k] = s[p + k - 1]
  OBVIOUS
<1>3. InsertAt(s, p, x) = (a \o <<x>>) \o b
  BY DEF InsertAt
<1> HIDE DEF a, b
<1> DEFINE c == a \o <<x>>
<1>4. /\ c \in Seq(S) /\ Len(c) = p
      /\ \A k \in 1..p : c[k] = IF k < p THEN s[k] ELSE x
  BY <1>1
<1> HIDE DEF c
<1>5. c \o b \in Seq(S) /\ Len(c \o b) = Len(s) + 1
  <2>0. c \in Seq(S) /\ b \in Seq(S)
    BY <1>2, <1>4
  <2>1. c \o b \in Seq(S) /\ Len(c \o b) = Len(c) + Len(b)
    BY <2>0
  <2>2. p \in Nat /\ Len(s) \in Nat
    OBVIOUS
  <2>3. Len(c) + Len(b) = Len(s) + 1
    BY <1>2, <1>4, <2>2
  <2>4. QED BY <2>1, <2>3
<1>6. ASSUME NEW k \in 1..(Len(s) + 1)
      PROVE  (c \o b)[k] = IF k < p THEN s[k] ELSE IF k = p THEN x ELSE s[k - 1]
  <2>1. CASE k <= p
    BY <1>2, <1>4, <2>1
  <2>2. CASE k > p
    <3>1. (c \o b)[k] = b[k - p]
      BY <1>2, <1>4, <2>2
    <3>2. k - p \in 1..(Len(s) - p + 1) /\ p + (k - p) - 1 = k - 1
      BY <2>2
    <3>3. b[k - p] = s[k - 1]
      BY <1>2, <3>2
    <3>4. ~(k < p) /\ k # p
      BY <2>2
    <3>5. QED BY <3>1, <3>3, <3>4
  <2>3. k <= p \/ k > p
    OBVIOUS
  <2>4. QED BY <2>1, <2>2, <2>3
<1>7. QED BY <1>3, <1>5, <1>6 DEF c, Inserted

\* A listing without repetition of the elements of T counts them.
LEMMA ListingCounts ==
  ASSUME NEW n \in Nat, NEW s, NEW T,
         \A k \in 1..n : s[k] \in T,
         \A t \in T : \E k \in 1..n : s[k] = t,
         \A k, l \in 1..n : s[k] = s[l] => k = l
  PROVE  IsFiniteSet(T) /\ Cardinality(T) = n
<1> DEFINE f == [k \in 1..n |-> s[k]]
<1>1. f \in Bijection(1..n, T)
  <2>1. f \in [1..n -> T]
    OBVIOUS
  <2>2. \A a, b \in 1..n : f[a] = f[b] => a = b
    OBVIOUS
  <2>3. \A t \in T : \E k \in 1..n : f[k] = t
    OBVIOUS
  <2>4. DOMAIN f = 1..n
    OBVIOUS
  <2> HIDE DEF f
  <2>5. f \in Injection(1..n, T)
    BY <2>1, <2>2, <2>4 DEF Injection, IsInjective
  <2>6. f \in Surjection(1..n, T)
    BY <2>1, <2>3, <2>4 DEF Surjection
  <2>7. QED BY <2>5, <2>6 DEF Bijection
<1>2. IsFiniteSet(1..n) /\ Cardinality(1..n) = n
  <2>1. 1 \in Int /\ n \in Int
    OBVIOUS
  <2>2. IsFiniteSet(1..n) /\ Cardinality(1..n) = IF 1 > n THEN 0 ELSE n - 1 + 1
    BY <2>1, FS_Interval
  <2>3. QED BY <2>2
<1>3. ExistsBijection(1..n, T)
  BY <1>1 DEF ExistsBijection
<1>4. QED BY <1>2, <1>3, FS_Bijection

-----------------------------------------------------------------------------
(* Newer is an order on artifacts that are all parsed or all unparsed.     *)

LEMMA FirstVersion ==
  ASSUME NEW a \in ParsedArtifact, Parsed(a)
  PROVE  a.versions[1] \in Version
<1>1. a.versions \in Seq(Version) /\ a.versions # <<>>
  BY DEF ParsedArtifact, Parsed
<1>2. Len(a.versions) > 0
  BY <1>1
<1>3. QED BY <1>1, <1>2

LEMMA NewerTotal ==
  ASSUME NEW a \in ParsedArtifact, NEW b \in ParsedArtifact,
         Parsed(a) <=> Parsed(b), a.id # b.id
  PROVE  (~Newer(a, b)) <=> Newer(b, a)
<1>1. a.id \in Int /\ b.id \in Int
  BY DEF ParsedArtifact
<1>2. CASE ~Parsed(a)
  BY <1>1, <1>2 DEF Newer
<1>3. CASE Parsed(a)
  <2> DEFINE v == a.versions[1]
             u == b.versions[1]
  <2>1. v \in Version /\ u \in Version
    BY <1>3, FirstVersion
  <2> HIDE DEF v, u
  <2>2. /\ v.date \in Int /\ v.seq \in Int /\ v.tag \in Int
        /\ u.date \in Int /\ u.seq \in Int /\ u.tag \in Int
    BY <2>1 DEF Version
  <2>3. QED BY <1>1, <1>3, <2>2 DEF Newer, LaterVersion, v, u
<1>4. QED BY <1>2, <1>3

LEMMA NewerTransitive ==
  ASSUME NEW a \in ParsedArtifact, NEW b \in ParsedArtifact, NEW c \in ParsedArtifact,
         Parsed(a) <=> Parsed(b), Parsed(b) <=> Parsed(c), Newer(a, b), Newer(b, c)
  PROVE  Newer(a, c)
<1>1. a.id \in Int /\ b.id \in Int /\ c.id \in Int
  BY DEF ParsedArtifact
<1>2. CASE ~Parsed(a)
  BY <1>1, <1>2 DEF Newer
<1>3. CASE Parsed(a)
  <2> DEFINE v == a.versions[1]
             u == b.versions[1]
             w == c.versions[1]
  <2>1. v \in Version /\ u \in Version /\ w \in Version
    BY <1>3, FirstVersion
  <2> HIDE DEF v, u, w
  <2>2. /\ v.date \in Int /\ v.seq \in Int /\ v.tag \in Int
        /\ u.date \in Int /\ u.seq \in Int /\ u.tag \in Int
        /\ w.date \in Int /\ w.seq \in Int /\ w.tag \in Int
    BY <2>1 DEF Version
  <2>3. QED BY <1>1, <1>3, <2>2 DEF Newer, LaterVersion, v, u, w
<1>4. QED BY <1>2, <1>3

-----------------------------------------------------------------------------
(* What a decision depends on.                                             *)

\* The first ranks are protected, and only they for their rank.
LEMMA RanksProtect ==
  ASSUME NEW a, NEW rank
  PROVE  /\ Decision(a, rank).delete \in BOOLEAN
         /\ rank < rule.keepAtLeast \/ rank < rule.keepLatest => ~Decision(a, rank).delete
         /\ Decision(a, rank).reasons \cap {"protected.latest", "protected.minimum"} # {}
              => rank < rule.keepAtLeast \/ rank < rule.keepLatest
         /\ Decision(a, rank).group = GroupOf(a)
<1>1. rank < rule.keepAtLeast => "protected.minimum" \in Protections(a, rank)
  BY DEF Protections
<1>2. rank < rule.keepLatest => "protected.latest" \in Protections(a, rank)
  BY DEF Protections
<1>3. "protected.minimum" \in Protections(a, rank) => rank < rule.keepAtLeast
  BY DEF Protections
<1>4. "protected.latest" \in Protections(a, rank) => rank < rule.keepLatest
  BY DEF Protections
<1> DEFINE P == Protections(a, rank)
<1>5. /\ Decision(a, rank).delete = (P = {} /\ rule.deleteOlderThan > 0)
      /\ Decision(a, rank).reasons = IF P # {} THEN P
           ELSE IF P = {} /\ rule.deleteOlderThan > 0
                THEN {"eligible.older_than"} ELSE {"ignored.not_selected"}
      /\ Decision(a, rank).group = GroupOf(a)
  BY DEF Decision
<1> HIDE DEF P
<1>6. QED BY <1>1, <1>2, <1>3, <1>4, <1>5 DEF P

\* The fields of a decision.
DecisionType == [group : GroupNames \cup {Default}, delete : BOOLEAN, reasons : SUBSET Reasons]

LEMMA DecisionTyped ==
  ASSUME NEW i \in Indices, NEW rank
  PROVE  Decision(artifacts[i], rank) \in DecisionType
<1> DEFINE a == artifacts[i]
<1>1. Protections(a, rank) \in SUBSET Reasons
  BY DEF Protections, Reasons
<1>2. Decision(a, rank).reasons \in SUBSET Reasons
  <2>1. \/ Decision(a, rank).reasons = Protections(a, rank)
        \/ Decision(a, rank).reasons = {"eligible.older_than"}
        \/ Decision(a, rank).reasons = {"ignored.not_selected"}
    BY DEF Decision
  <2>2. QED BY <1>1, <2>1 DEF Reasons
<1>3. Decision(a, rank) = [group |-> GroupOf(a), delete |-> Decision(a, rank).delete,
                           reasons |-> Decision(a, rank).reasons]
  BY DEF Decision
<1>4. GroupOf(a) \in GroupNames
  BY DEF GroupNames
<1>5. Decision(a, rank).delete \in BOOLEAN
  BY RanksProtect
<1>6. QED BY <1>2, <1>3, <1>4, <1>5 DEF DecisionType

-----------------------------------------------------------------------------
(* The inductive invariant.                                                *)

\* Nothing that only the rule and the listing determine ever changes.
LEMMA Frame ==
  ASSUME UNCHANGED <<rule, artifacts>>
  PROVE  /\ Indices' = Indices
         /\ \A i : GroupOf(artifacts[i])' = GroupOf(artifacts[i])
         /\ \A g : Group(g)' = Group(g)
         /\ \A g : Homogeneous(g)' <=> Homogeneous(g)
         /\ Ascending' <=> Ascending
         /\ \A g, i, j : Comparable(g, i, j)' <=> Comparable(g, i, j)
         /\ \A i, j : Newer(artifacts[i], artifacts[j])' <=> Newer(artifacts[i], artifacts[j])
<1>1. Indices' = Indices
  BY DEF Indices
<1>2. \A i : GroupOf(artifacts[i])' = GroupOf(artifacts[i])
  BY DEF GroupOf
<1>3. \A g : Group(g)' = Group(g)
  BY <1>1, <1>2 DEF Group
<1>4. \A g : Homogeneous(g)' <=> Homogeneous(g)
  BY <1>3 DEF Homogeneous
<1>5. Ascending' <=> Ascending
  BY <1>1 DEF Ascending
<1>6. \A g, i, j : Comparable(g, i, j)' <=> Comparable(g, i, j)
  BY <1>4, <1>5 DEF Comparable
<1>7. \A i, j : Newer(artifacts[i], artifacts[j])' <=> Newer(artifacts[i], artifacts[j])
  OBVIOUS
<1>8. QED BY <1>1, <1>2, <1>3, <1>4, <1>5, <1>6, <1>7

\* A group whose decisions stay is settled as before.
LEMMA DecidedKept ==
  ASSUME UNCHANGED <<rule, artifacts>>, NEW g,
         \A i \in Group(g) : decisions'[i] = decisions[i],
         FloorOf(g), NewestOf(g), DatesOf(g)
  PROVE  FloorOf(g)' /\ NewestOf(g)' /\ DatesOf(g)'
<1>1. FloorOf(g)'
  <2>1. Group(g)' = Group(g)
    BY Frame
  <2>2. Kept(g)' = Kept(g)
    BY <2>1 DEF Kept
  <2>3. QED BY <2>1, <2>2 DEF FloorOf
<1>2. NewestOf(g)'
  <2>1. Group(g)' = Group(g) /\ (Homogeneous(g)' <=> Homogeneous(g))
    BY Frame
  <2>2. \A i : AheadOf(g, i)' = AheadOf(g, i)
    BY <2>1 DEF AheadOf
  <2>3. \A i, rank : Decision(artifacts[i], rank)' = Decision(artifacts[i], rank)
    BY DEF Decision, Protections, GroupOf, Age, ProtectedTag
  <2>4. QED BY <2>1, <2>2, <2>3 DEF NewestOf
<1>3. DatesOf(g)'
  <2>1. Group(g)' = Group(g) /\ (Ascending' <=> Ascending)
    BY Frame
  <2>2. \A i, j \in Group(g) : Outlives(i, j)' <=> Outlives(i, j)
    BY DEF Outlives
  <2>3. QED BY <2>1, <2>2 DEF DatesOf
<1>4. QED BY <1>1, <1>2, <1>3

LEMMA InitInv == Init => Inv
<1> SUFFICES ASSUME Init PROVE Inv
  OBVIOUS
<1>1. Inputs /\ Len(artifacts) \in Nat
  BY PolicyAssumption DEF Init, Inputs
<1>2. TypeOK
  <2>1. DOMAIN groups = {}
    BY DEF Init
  <2>2. NoDecision \in DecisionType
    BY DEF NoDecision, DecisionType
  <2>3. decisions \in [Indices -> DecisionType]
    BY <2>2 DEF Init
  <2>4. order \in Seq(Indices)
    BY DEF Init
  <2>5. next \in 1..(Len(artifacts) + 1)
    BY <1>1 DEF Init
  <2>6. QED BY <2>1, <2>3, <2>4, <2>5 DEF Init, TypeOK, DecisionType
<1>3. Grouped
  <2>1. DOMAIN groups = {} /\ 1..(next - 1) = {}
    BY DEF Init
  <2>2. QED BY <2>1 DEF Grouped
<1>4. Phases /\ SortedPart /\ Decided
  BY DEF Init, Phases, SortedPart, Decided
<1>5. QED BY <1>1, <1>2, <1>3, <1>4 DEF Inv

\* The next artifact joins the end of its group.
LEMMA ClassifyInv ==
  ASSUME Inv, Classify
  PROVE  Inv'
<1> USE DEF Inv
<1> DEFINE g == GroupOf(artifacts[next])
           members == IF g \in DOMAIN groups THEN groups[g] ELSE <<>>
<1>1. /\ UNCHANGED <<rule, artifacts, visited, current, order>>
      /\ next \in Indices /\ next' = next + 1
      /\ groups' = [h \in DOMAIN groups \cup {g} |->
                      IF h = g THEN Append(members, next) ELSE groups[h]]
      /\ decisions' = [decisions EXCEPT ![next].group = g]
  BY DEF Classify
<1>2. /\ Len(artifacts) \in Nat /\ next \in Nat /\ next >= 1 /\ next <= Len(artifacts)
      /\ visited = {} /\ current = {} /\ order = <<>>
  BY <1>1 DEF Inputs, Indices, Phases
<1>3. /\ members \in Seq(1..(next - 1)) /\ Len(members) \in Nat
      /\ \A k \in 1..Len(members) : GroupOf(artifacts[members[k]]) = g
      /\ \A i \in 1..(next - 1) :
           GroupOf(artifacts[i]) = g => \E k \in 1..Len(members) : members[k] = i
      /\ \A k, l \in 1..Len(members) : k < l => members[k] < members[l]
  <2>1. CASE g \in DOMAIN groups
    <3>1. members = groups[g]
      BY <2>1
    <3> HIDE DEF members, g
    <3>2. members \in Seq(1..(next - 1)) /\ Len(members) \in Nat
      BY <2>1, <3>1 DEF TypeOK
    <3>3. QED BY <2>1, <3>1, <3>2 DEF Grouped
  <2>2. CASE g \notin DOMAIN groups
    <3>1. members = <<>> /\ \A i \in 1..(next - 1) : GroupOf(artifacts[i]) # g
      BY <2>2 DEF Grouped
    <3> HIDE DEF members, g
    <3>2. QED BY <3>1
  <2>3. QED BY <2>1, <2>2
<1>4. \A k \in 1..Len(members) : members[k] \in 1..(next - 1)
  <2>1. members \in Seq(1..(next - 1))
    BY <1>3
  <2> HIDE DEF members
  <2> TAKE k \in 1..Len(members)
  <2>2. QED BY <1>2, <2>1
<1> DEFINE new == Append(members, next)
<1>5. /\ new \in Seq(1..next) /\ Len(new) = Len(members) + 1
      /\ \A k \in 1..Len(members) : new[k] = members[k]
      /\ new[Len(members) + 1] = next
  <2>1. members \in Seq(1..next)
    <3> HIDE DEF members
    <3> QED BY <1>2, <1>3, <1>4
  <2> HIDE DEF members
  <2>2. QED BY <1>2, <2>1
<1>6. next' - 1 = next
  BY <1>1, <1>2
<1>7. \A i : GroupOf(artifacts[i])' = GroupOf(artifacts[i])
  BY <1>1, Frame
<1>8. TypeOK'
  <2>1. DOMAIN groups' = DOMAIN groups \cup {g}
    BY <1>1
  <2>2. DOMAIN groups' \subseteq GroupNames'
    <3>1. GroupNames' = GroupNames
      BY <1>1, <1>7, Frame DEF GroupNames
    <3>2. g \in GroupNames
      BY <1>1 DEF GroupNames
    <3>3. QED BY <2>1, <3>1, <3>2 DEF TypeOK
  <2>3. ASSUME NEW h \in DOMAIN groups'
        PROVE  groups'[h] \in Seq(1..(next' - 1))
    <3>1. CASE h = g
      BY <1>1, <1>5, <1>6, <2>1, <3>1
    <3>2. CASE h # g
      <4>1. groups'[h] = groups[h] /\ groups[h] \in Seq(1..(next - 1))
        BY <1>1, <2>1, <3>2 DEF TypeOK
      <4>2. groups[h] \in Seq(1..next)
        BY <1>2, <4>1
      <4>3. QED BY <1>6, <4>1, <4>2
    <3>3. QED BY <3>1, <3>2
  <2>4. decisions' \in [Indices -> DecisionType]
    <3>1. g \in GroupNames
      BY <1>1 DEF GroupNames
    <3> HIDE DEF g
    <3>2. decisions \in [Indices -> DecisionType]
      BY DEF TypeOK, DecisionType
    <3>3. QED BY <1>1, <3>1, <3>2 DEF DecisionType
  <2>5. Indices' = Indices /\ GroupNames' = GroupNames
    BY <1>1, <1>7, Frame DEF GroupNames
  <2>6. next' \in 1..(Len(artifacts) + 1)
    BY <1>1, <1>2
  <2>7. visited' \subseteq DOMAIN groups' /\ current' \subseteq DOMAIN groups' /\ order' \in Seq(Indices)
    BY <1>1, <1>2
  <2>8. QED BY <1>1, <2>2, <2>3, <2>4, <2>5, <2>6, <2>7 DEF TypeOK, DecisionType
<1>9. Grouped'
  <2>1. DOMAIN groups' = {GroupOf(artifacts[i]) : i \in 1..next}
    <3>1. DOMAIN groups' = {GroupOf(artifacts[i]) : i \in 1..(next - 1)} \cup {GroupOf(artifacts[next])}
      BY <1>1 DEF Grouped
    <3>2. 1..next = 1..(next - 1) \cup {next}
      BY <1>2
    <3>3. QED BY <3>1, <3>2
  <2>2. ASSUME NEW h \in DOMAIN groups'
        PROVE  /\ \A k \in 1..Len(groups'[h]) : GroupOf(artifacts[groups'[h][k]]) = h
               /\ \A i \in 1..next :
                    GroupOf(artifacts[i]) = h => \E k \in 1..Len(groups'[h]) : groups'[h][k] = i
               /\ \A k, l \in 1..Len(groups'[h]) : k < l => groups'[h][k] < groups'[h][l]
    <3>1. CASE h = g
      <4>1. groups'[h] = new
        BY <1>1, <3>1
      <4> HIDE DEF new, members
      <4>2. \A k \in 1..Len(new) : GroupOf(artifacts[new[k]]) = h
        BY <1>3, <1>5, <3>1
      <4>3. \A i \in 1..next : GroupOf(artifacts[i]) = h => \E k \in 1..Len(new) : new[k] = i
        <5> TAKE i \in 1..next
        <5>1. CASE i = next
          <6>1. Len(members) + 1 \in 1..Len(new)
            BY <1>3, <1>5
          <6>2. QED BY <1>5, <5>1, <6>1
        <5>2. CASE i # next
          <6>1. i \in 1..(next - 1)
            BY <1>2, <5>2
          <6>2. GroupOf(artifacts[i]) = h => \E k \in 1..Len(members) : members[k] = i
            BY <1>3, <3>1, <6>1
          <6>3. \A k \in 1..Len(members) : k \in 1..Len(new)
            BY <1>3, <1>5
          <6>4. QED BY <1>5, <6>2, <6>3
        <5>3. QED BY <5>1, <5>2
      <4>4. \A k, l \in 1..Len(new) : k < l => new[k] < new[l]
        <5> SUFFICES ASSUME NEW k \in 1..Len(new), NEW l \in 1..Len(new), k < l
                     PROVE  new[k] < new[l]
          OBVIOUS
        <5>1. k \in 1..Len(members) /\ new[k] = members[k]
          BY <1>3, <1>5
        <5>2. CASE l = Len(members) + 1
          <6>1. members[k] \in 1..(next - 1) /\ new[l] = next
            BY <1>4, <1>5, <5>1, <5>2
          <6>2. QED BY <1>2, <5>1, <6>1
        <5>3. CASE l # Len(members) + 1
          <6>1. l \in 1..Len(members)
            BY <1>3, <1>5, <5>3
          <6>2. QED BY <1>3, <1>5, <5>1, <6>1
        <5>4. QED BY <5>2, <5>3
      <4>5. QED BY <4>1, <4>2, <4>3, <4>4
    <3>2. CASE h # g
      <4>1. h \in DOMAIN groups /\ groups'[h] = groups[h]
        BY <1>1, <3>2
      <4>2. \A i \in 1..next : GroupOf(artifacts[i]) = h => i \in 1..(next - 1)
        BY <1>2, <3>2
      <4>3. QED BY <4>1, <4>2 DEF Grouped
    <3>3. QED BY <3>1, <3>2
  <2>3. {GroupOf(artifacts[i]) : i \in 1..(next - 1)}' = {GroupOf(artifacts[i]) : i \in 1..next}
    BY <1>6, <1>7
  <2>4. ASSUME NEW h \in DOMAIN groups'
        PROVE  /\ \A k \in 1..Len(groups'[h]) : GroupOf(artifacts[groups[h][k]])' = h
               /\ \A i \in 1..(next' - 1) :
                    GroupOf(artifacts[i])' = h => \E k \in 1..Len(groups'[h]) : groups'[h][k] = i
               /\ \A k, l \in 1..Len(groups'[h]) : k < l => groups'[h][k] < groups'[h][l]
    BY <1>6, <1>7, <2>2
  <2>5. QED BY <2>1, <2>3, <2>4 DEF Grouped
<1>10. Phases' /\ SortedPart' /\ Decided'
  BY <1>1, <1>2 DEF Phases, SortedPart, Decided
<1>11. Inputs'
  BY <1>1 DEF Inputs
<1>12. QED BY <1>8, <1>9, <1>10, <1>11

\* The steps of the second loop leave the groups as they are.
LEMMA GroupedKept ==
  ASSUME Grouped, Inputs, UNCHANGED <<rule, artifacts, next, groups>>
  PROVE  Grouped' /\ Inputs'
<1>1. \A i : GroupOf(artifacts[i])' = GroupOf(artifacts[i])
  BY Frame
<1>2. QED BY <1>1 DEF Grouped, Inputs

LEMMA VisitInv ==
  ASSUME Inv, NEW g \in DOMAIN groups, Visit(g)
  PROVE  Inv'
<1> USE DEF Inv
<1>1. /\ UNCHANGED <<rule, artifacts, next, groups, visited, decisions>>
      /\ next = Len(artifacts) + 1 /\ current = {}
      /\ g \notin visited /\ current' = {g} /\ order' = <<>>
  BY DEF Visit
<1>2. TypeOK'
  <2>1. GroupNames' = GroupNames /\ Indices' = Indices
    BY <1>1, Frame DEF GroupNames
  <2>2. order' \in Seq(Indices)
    BY <1>1
  <2>3. QED BY <1>1, <2>1, <2>2 DEF TypeOK
<1>3. Grouped' /\ Inputs'
  BY <1>1, GroupedKept
<1>4. Phases'
  <2>1. Len(artifacts) \in Nat
    BY DEF Inputs
  <2>2. QED BY <1>1, <2>1 DEF Phases
<1>5. SortedPart'
  <2>1. Len(order') = 0 /\ Len(groups[g]) \in Nat
    BY <1>1 DEF TypeOK
  <2>2. QED BY <1>1, <2>1 DEF SortedPart
<1>6. Decided'
  BY <1>1, DecidedKept DEF Decided
<1>7. QED BY <1>2, <1>3, <1>4, <1>5, <1>6

\* The group being sorted, and what has been placed of it.
LEMMA CurrentFacts ==
  ASSUME Inv, NEW g \in current
  PROVE  /\ current = {g} /\ g \in DOMAIN groups /\ g \notin visited
         /\ Len(artifacts) \in Nat /\ next = Len(artifacts) + 1 /\ Indices = 1..(next - 1)
         /\ groups[g] \in Seq(Indices) /\ Len(groups[g]) \in Nat
         /\ order \in Seq(Indices) /\ Len(order) \in Nat
         /\ \A l \in 1..Len(groups[g]) : groups[g][l] \in Group(g)
         /\ \A k \in 1..Len(order) : order[k] \in Group(g)
         /\ Group(g) \subseteq Indices
<1>1. current = {g} /\ g \in DOMAIN groups /\ g \notin visited
  BY DEF Inv, Phases, TypeOK
<1>2. Len(artifacts) \in Nat /\ next = Len(artifacts) + 1 /\ Indices = 1..(next - 1)
  BY DEF Inv, Inputs, Phases, TypeOK, Indices
<1>3. groups[g] \in Seq(Indices) /\ order \in Seq(Indices)
  BY <1>1, <1>2 DEF Inv, TypeOK
<1>4. Len(groups[g]) \in Nat /\ Len(order) \in Nat
  BY <1>3
<1>5. \A l \in 1..Len(groups[g]) : groups[g][l] \in Group(g)
  BY <1>1, <1>3 DEF Inv, Grouped, Group
<1>6. \A k \in 1..Len(order) : order[k] \in Group(g)
  <2> TAKE k \in 1..Len(order)
  <2>1. PICK l \in 1..Len(order) : order[k] = groups[g][l]
    BY DEF Inv, SortedPart
  <2>2. Len(order) <= Len(groups[g])
    BY DEF Inv, SortedPart
  <2>3. l \in 1..Len(groups[g])
    BY <1>4, <2>2
  <2>4. QED BY <1>5, <2>1, <2>3
<1>7. Group(g) \subseteq Indices
  BY DEF Group
<1>8. QED BY <1>1, <1>2, <1>3, <1>4, <1>5, <1>6, <1>7

\* Where Newer is an order, it decides between two members of a group.
LEMMA ComparableTotal ==
  ASSUME Inputs, NEW g, NEW i \in Group(g), NEW j \in Group(g), i # j, Comparable(g, i, j)
  PROVE  (~Newer(artifacts[i], artifacts[j])) <=> Newer(artifacts[j], artifacts[i])
<1>1. artifacts[i] \in ParsedArtifact /\ artifacts[j] \in ParsedArtifact
  BY DEF Inputs, Group, Indices
<1>2. Parsed(artifacts[i]) <=> Parsed(artifacts[j])
  BY DEF Comparable, Homogeneous
<1>3. artifacts[i].id # artifacts[j].id
  <2>1. CASE Homogeneous(g)
    BY <2>1 DEF Homogeneous
  <2>2. CASE Ascending
    <3>1. i \in Int /\ j \in Int /\ i \in Indices /\ j \in Indices
      BY DEF Group, Indices
    <3>2. artifacts[i].id \in Int /\ artifacts[j].id \in Int
      BY <1>1 DEF ParsedArtifact
    <3>3. i < j \/ j < i
      BY <3>1
    <3>4. artifacts[i].id < artifacts[j].id \/ artifacts[j].id < artifacts[i].id
      BY <2>2, <3>1, <3>3 DEF Ascending
    <3>5. QED BY <3>2, <3>4
  <2>3. QED BY <2>1, <2>2 DEF Comparable
<1>4. QED BY <1>1, <1>2, <1>3, NewerTotal

\* The member comes after the last of the placed ones that it does not precede;
\* every comparable one further ahead is newer too.
LEMMA AheadAreNewer ==
  ASSUME Inv, NEW g \in current, Len(order) < Len(groups[g]),
         NEW i, i = groups[g][Len(order) + 1],
         NEW m \in 1..Len(order), ~Newer(artifacts[i], artifacts[order[m]]),
         NEW k \in 1..m, Comparable(g, order[k], i)
  PROVE  Newer(artifacts[order[k]], artifacts[i])
<1> DEFINE y == order[m]
           n == Len(order)
<1>0. /\ g \in DOMAIN groups /\ Len(groups[g]) \in Nat /\ n \in Nat /\ n < Len(groups[g])
      /\ Len(artifacts) \in Nat /\ Indices = 1..Len(artifacts) /\ Group(g) \subseteq Indices
      /\ \A l \in 1..Len(groups[g]) : groups[g][l] \in Group(g)
      /\ \A l \in 1..n : order[l] \in Group(g)
  BY CurrentFacts DEF Indices
<1>1. i \in Group(g) /\ y \in Group(g) /\ order[k] \in Group(g) /\ k \in 1..n
  <2> HIDE DEF n
  <2>1. n + 1 \in 1..Len(groups[g]) /\ k \in 1..n /\ m \in 1..n
    BY <1>0 DEF n
  <2>2. i = groups[g][n + 1]
    BY DEF n
  <2>3. QED BY <1>0, <2>1, <2>2
<1>2. y < i /\ y \in Nat /\ i \in Nat
  <2>1. PICK l \in 1..n : y = groups[g][l]
    BY DEF Inv, SortedPart
  <2>2. \A a, b \in 1..Len(groups[g]) : a < b => groups[g][a] < groups[g][b]
    BY <1>0 DEF Inv, Grouped
  <2>3. y \in Nat /\ i \in Nat
    BY <1>0, <1>1
  <2> HIDE DEF y, n
  <2>4. l \in 1..Len(groups[g]) /\ n + 1 \in 1..Len(groups[g]) /\ l < n + 1
    BY <1>0
  <2>5. groups[g][l] < groups[g][n + 1] /\ i = groups[g][n + 1]
    BY <2>2, <2>4 DEF n
  <2>6. y < i
    BY <2>1, <2>5
  <2>7. QED BY <2>3, <2>6
<1>3. Inputs
  BY DEF Inv
<1>4. /\ artifacts[i] \in ParsedArtifact /\ artifacts[y] \in ParsedArtifact
      /\ artifacts[order[k]] \in ParsedArtifact
  <2>1. i \in Indices /\ y \in Indices /\ order[k] \in Indices
    BY <1>0, <1>1
  <2>2. \A x \in Indices : artifacts[x] \in ParsedArtifact
    BY <1>3 DEF Inputs, Indices
  <2>3. QED BY <2>1, <2>2
<1>5. Comparable(g, y, i) /\ Comparable(g, order[k], y)
  <2>1. CASE Homogeneous(g)
    BY <2>1 DEF Comparable
  <2>2. CASE ~Homogeneous(g)
    <3>1. Ascending /\ Parsed(artifacts[i]) /\ Parsed(artifacts[order[k]])
      BY <2>2 DEF Comparable
    <3>2. artifacts[y].id < artifacts[i].id
      <4>1. y \in Indices /\ i \in Indices
        BY <1>0, <1>1
      <4> HIDE DEF y
      <4>2. QED BY <1>2, <3>1, <4>1 DEF Ascending
    <3>3. artifacts[y].id \in Int /\ artifacts[i].id \in Int
      BY <1>4 DEF ParsedArtifact
    <3>4. Parsed(artifacts[y])
      BY <3>2, <3>3 DEF Newer
    <3>5. QED BY <3>1, <3>4 DEF Comparable
  <2>3. QED BY <2>1, <2>2
<1>6. Newer(artifacts[y], artifacts[i])
  <2>1. i # y /\ Comparable(g, i, y)
    BY <1>2, <1>5 DEF Comparable
  <2>2. QED BY <1>1, <1>3, <2>1, ComparableTotal
<1>7. CASE k = m
  BY <1>6, <1>7
<1>8. CASE k # m
  <2>1. Newer(artifacts[order[k]], artifacts[y])
    <3>1. k \in 1..n /\ m \in 1..n /\ k < m
      BY <1>0, <1>8
    <3>2. \A a, b \in 1..n :
            a < b /\ Comparable(g, order[a], order[b])
              => Newer(artifacts[order[a]], artifacts[order[b]])
      BY DEF Inv, SortedPart
    <3>3. QED BY <1>5, <3>1, <3>2
  <2>2. /\ Parsed(artifacts[order[k]]) <=> Parsed(artifacts[y])
        /\ Parsed(artifacts[y]) <=> Parsed(artifacts[i])
    BY <1>1, <1>5 DEF Comparable, Homogeneous
  <2>3. QED BY <1>4, <1>6, <2>1, <2>2, NewerTransitive
<1>9. QED BY <1>7, <1>8

\* One more member is placed.
LEMMA SortInv ==
  ASSUME Inv, Sort
  PROVE  Inv'
<1> USE DEF Inv
<1>0. PICK g \in current :
        /\ Len(order) < Len(groups[g])
        /\ order' = Place(order, groups[g][Len(order) + 1],
                          {k \in DOMAIN order :
                             ~Newer(artifacts[groups[g][Len(order) + 1]], artifacts[order[k]])})
  BY DEF Sort
<1> DEFINE n == Len(order)
<1>1. UNCHANGED <<rule, artifacts, next, groups, visited, current, decisions>>
  BY DEF Sort
<1>2. /\ current = {g} /\ g \in DOMAIN groups /\ Len(groups[g]) \in Nat
      /\ order \in Seq(Indices) /\ n \in Nat /\ n < Len(groups[g])
      /\ Group(g) \subseteq Indices /\ Indices \subseteq Nat
      /\ \A k \in 1..n : order[k] \in Group(g)
  BY <1>0, CurrentFacts
<1>3. PICK i \in Group(g) : i = groups[g][n + 1]
  <2>1. n + 1 \in 1..Len(groups[g])
    BY <1>2
  <2>2. QED BY <2>1, CurrentFacts
<1> DEFINE ahead == {k \in 1..n : ~Newer(artifacts[i], artifacts[order[k]])}
           m == Max({0} \cup ahead)
<1>4. order' = InsertAt(order, 1 + m, i)
  <2>1. DOMAIN order = 1..n
    BY <1>2
  <2>2. QED BY <1>0, <1>3, <2>1 DEF Place
<1>5. m \in 0..n /\ (m # 0 => m \in ahead) /\ \A k \in ahead : k <= m
  <2>1. ahead \in SUBSET (1..n)
    OBVIOUS
  <2> HIDE DEF ahead
  <2>2. QED BY <1>2, <2>1, MaxFacts
<1> PICK p \in 1..(n + 1) : p = 1 + m
  <2> HIDE DEF m, n
  <2>1. 1 + m \in 1..(n + 1)
    BY <1>2, <1>5
  <2>2. QED BY <2>1
<1>6. /\ order' \in Seq(Indices) /\ Len(order') = n + 1
      /\ \A k \in 1..(n + 1) :
           order'[k] = IF k < p THEN order[k] ELSE IF k = p THEN i ELSE order[k - 1]
  <2> HIDE DEF m
  <2>1. i \in Indices
    BY <1>2, <1>3
  <2>2. order' = InsertAt(order, p, i) /\ p \in 1..(Len(order) + 1)
    BY <1>4
  <2>3. order \in Seq(Indices)
    BY <1>2
  <2>4. InsertAt(order, p, i) \in Seq(Indices) /\ Inserted(InsertAt(order, p, i), order, p, i)
    BY <2>1, <2>2, <2>3, InsertFacts
  <2>5. QED BY <2>2, <2>4 DEF Inserted
<1>7. \A k \in 1..n : ~(k < p) => Newer(artifacts[i], artifacts[order[k]])
  <2> TAKE k \in 1..n
  <2>1. k >= p => k \notin ahead
    <3> HIDE DEF ahead, m
    <3>1. m \in Nat
      BY <1>5
    <3>2. QED BY <1>5, <3>1
  <2>2. QED BY <1>2, <2>1
<1>8. \A k \in 1..n : k < p /\ Comparable(g, order[k], i) => Newer(artifacts[order[k]], artifacts[i])
  <2> SUFFICES ASSUME NEW k \in 1..n, k < p, Comparable(g, order[k], i)
               PROVE  Newer(artifacts[order[k]], artifacts[i])
    OBVIOUS
  <2>1. m \in 1..n /\ k \in 1..m /\ m \in ahead
    <3> HIDE DEF ahead, m
    <3> QED BY <1>2, <1>5
  <2>2. ~Newer(artifacts[i], artifacts[order[m]])
    <3> HIDE DEF m
    <3> QED BY <2>1
  <2>3. QED
    <3> HIDE DEF m
    <3> QED BY <1>2, <1>3, <2>1, <2>2, AheadAreNewer
<1> HIDE DEF ahead, m
<1>9. \A k \in 1..n : order[k] # i
  <2> TAKE k \in 1..n
  <2>1. PICK l \in 1..n : order[k] = groups[g][l]
    BY DEF SortedPart
  <2>2. l \in 1..Len(groups[g]) /\ n + 1 \in 1..Len(groups[g]) /\ l < n + 1
    BY <1>2
  <2>3. groups[g][l] < groups[g][n + 1]
    BY <1>2, <2>2 DEF Grouped
  <2>4. groups[g][l] \in Nat
    BY <1>2, <2>1
  <2>5. QED BY <1>3, <2>1, <2>3, <2>4
<1>10. SortedPart'
  <2>1. n + 1 <= Len(groups[g])
    BY <1>2
  <2>2. \A k \in 1..(n + 1) : \E l \in 1..(n + 1) : order'[k] = groups[g][l]
    <3> TAKE k \in 1..(n + 1)
    <3>1. CASE k = p
      <4>1. order'[k] = groups[g][n + 1] /\ n + 1 \in 1..(n + 1)
        BY <1>2, <1>3, <1>6, <3>1
      <4>2. QED BY <4>1
    <3>2. CASE k # p
      <4>1. PICK j \in 1..n : order'[k] = order[j]
        BY <1>2, <1>6, <3>2
      <4>2. PICK l \in 1..n : order[j] = groups[g][l]
        BY <4>1 DEF SortedPart
      <4>3. l \in 1..(n + 1)
        BY <1>2
      <4>4. QED BY <4>1, <4>2, <4>3
    <3>3. QED BY <3>1, <3>2
  <2>3. \A j \in 1..n : \E k \in 1..(n + 1) : order'[k] = order[j]
    <3> TAKE j \in 1..n
    <3>1. CASE j < p
      <4>1. j \in 1..(n + 1) /\ order'[j] = order[j]
        BY <1>2, <1>6, <3>1
      <4>2. QED BY <4>1
    <3>2. CASE ~(j < p)
      <4>1. j + 1 \in 1..(n + 1) /\ ~(j + 1 < p) /\ j + 1 # p /\ j + 1 - 1 = j
        BY <1>2, <3>2
      <4>2. order'[j + 1] = order[j]
        BY <1>6, <4>1
      <4>3. QED BY <4>1, <4>2
    <3>3. QED BY <3>1, <3>2
  <2>4. \A l \in 1..(n + 1) : \E k \in 1..(n + 1) : order'[k] = groups[g][l]
    <3> TAKE l \in 1..(n + 1)
    <3>1. CASE l = n + 1
      <4>1. order'[p] = groups[g][l]
        BY <1>3, <1>6, <3>1
      <4>2. QED BY <4>1
    <3>2. CASE l # n + 1
      <4>1. l \in 1..n
        BY <1>2, <3>2
      <4>2. PICK j \in 1..n : order[j] = groups[g][l]
        BY <4>1 DEF SortedPart
      <4>3. QED BY <2>3, <4>2
    <3>3. QED BY <3>1, <3>2
  <2>5. ASSUME NEW k \in 1..(n + 1), NEW l \in 1..(n + 1), k < l
        PROVE  /\ order'[k] # order'[l]
               /\ Comparable(g, order'[k], order'[l])
                    => Newer(artifacts[order'[k]], artifacts[order'[l]])
    <3>1. CASE k = p
      <4>1. order'[k] = i /\ order'[l] = order[l - 1] /\ l - 1 \in 1..n /\ ~(l - 1 < p)
        BY <1>2, <1>6, <2>5, <3>1
      <4>2. QED BY <1>7, <1>9, <4>1
    <3>2. CASE l = p
      <4>1. order'[k] = order[k] /\ order'[l] = i /\ k \in 1..n /\ k < p
        BY <1>2, <1>6, <2>5, <3>2
      <4>2. QED BY <1>8, <1>9, <4>1
    <3>3. CASE k # p /\ l # p
      <4>1. PICK a \in 1..n, b \in 1..n : order'[k] = order[a] /\ order'[l] = order[b] /\ a < b
        <5>1. CASE l < p
          <6>1. k \in 1..n /\ l \in 1..n /\ order'[k] = order[k] /\ order'[l] = order[l]
            BY <1>2, <1>6, <2>5, <5>1
          <6>2. QED BY <2>5, <6>1
        <5>2. CASE k < p /\ p < l
          <6>1. /\ k \in 1..n /\ l - 1 \in 1..n /\ k < l - 1
                /\ order'[k] = order[k] /\ order'[l] = order[l - 1]
            BY <1>2, <1>6, <5>2
          <6>2. QED BY <6>1
        <5>3. CASE p < k
          <6>1. /\ k - 1 \in 1..n /\ l - 1 \in 1..n /\ k - 1 < l - 1
                /\ order'[k] = order[k - 1] /\ order'[l] = order[l - 1]
            BY <1>2, <1>6, <2>5, <5>3
          <6>2. QED BY <6>1
        <5>4. QED BY <1>2, <2>5, <3>3, <5>1, <5>2, <5>3
      <4>2. order[a] # order[b]
        BY <1>2, <4>1 DEF SortedPart
      <4>3. Comparable(g, order[a], order[b]) => Newer(artifacts[order[a]], artifacts[order[b]])
        BY <1>2, <4>1 DEF SortedPart
      <4>4. QED BY <4>1, <4>2, <4>3
    <3>4. QED BY <3>1, <3>2, <3>3
  <2>6. \A k, l \in 1..(n + 1) : order'[k] = order'[l] => k = l
    <3> SUFFICES ASSUME NEW k \in 1..(n + 1), NEW l \in 1..(n + 1), k # l
                 PROVE  order'[k] # order'[l]
      OBVIOUS
    <3>1. k < l \/ l < k
      BY <1>2
    <3>2. QED BY <2>5, <3>1
  <2>7. \A k, l \in 1..(n + 1) :
          k < l /\ Comparable(g, order[k], order[l])'
            => Newer(artifacts[order[k]], artifacts[order[l]])'
    <3>1. \A x, z : Comparable(g, x, z)' <=> Comparable(g, x, z)
      BY <1>1, Frame
    <3>2. \A x, z : Newer(artifacts[x], artifacts[z])' <=> Newer(artifacts[x], artifacts[z])
      BY <1>1, Frame
    <3>3. QED BY <2>5, <3>1, <3>2
  <2> HIDE DEF n
  <2>8. QED BY <1>1, <1>2, <1>6, <2>1, <2>2, <2>4, <2>6, <2>7 DEF SortedPart
<1>11. TypeOK'
  <2>1. GroupNames' = GroupNames /\ Indices' = Indices
    BY <1>1, Frame DEF GroupNames
  <2>2. QED BY <1>1, <1>6, <2>1 DEF TypeOK
<1>12. Grouped' /\ Inputs'
  BY <1>1, GroupedKept
<1>13. Phases'
  BY <1>1, <1>2 DEF Phases
<1>14. Decided'
  BY <1>1, DecidedKept DEF Decided
<1>15. QED BY <1>10, <1>11, <1>12, <1>13, <1>14

LEMMA NewerIrreflexive ==
  ASSUME NEW a \in ParsedArtifact
  PROVE  ~Newer(a, a)
<1>1. a.id \in Int
  BY DEF ParsedArtifact
<1>2. CASE ~Parsed(a)
  BY <1>1, <1>2 DEF Newer
<1>3. CASE Parsed(a)
  <2> DEFINE v == a.versions[1]
  <2>1. v \in Version
    BY <1>3, FirstVersion
  <2> HIDE DEF v
  <2>2. v.date \in Int /\ v.seq \in Int /\ v.tag \in Int
    BY <2>1 DEF Version
  <2>3. QED BY <1>1, <1>3, <2>2 DEF Newer, LaterVersion, v
<1>4. QED BY <1>2, <1>3

\* The sorted group lists its members once each, and the ones of an order of
\* which Newer decides are listed as it says.
LEMMA SortedFacts ==
  ASSUME Inv, NEW g \in current, Len(order) = Len(groups[g])
  PROVE  /\ IsFiniteSet(Group(g)) /\ Cardinality(Group(g)) = Len(order)
         /\ \A i \in Group(g) : \E k \in 1..Len(order) : order[k] = i
         /\ \A k, l \in 1..Len(order) : order[k] = order[l] => k = l
         /\ \A k, l \in 1..Len(order) :
              Comparable(g, order[k], order[l])
                => (k < l <=> Newer(artifacts[order[k]], artifacts[order[l]]))
<1> DEFINE n == Len(order)
<1>1. /\ n \in Nat /\ g \in DOMAIN groups /\ Group(g) \subseteq Indices
      /\ Indices = 1..(next - 1) /\ \A k \in 1..n : order[k] \in Group(g)
  BY CurrentFacts
<1>2. \A k, l \in 1..n : order[k] = order[l] => k = l
  BY DEF Inv, SortedPart
<1>3. \A i \in Group(g) : \E k \in 1..n : order[k] = i
  <2> TAKE i \in Group(g)
  <2>1. i \in 1..(next - 1) /\ GroupOf(artifacts[i]) = g
    BY <1>1 DEF Group
  <2>2. PICK l \in 1..Len(groups[g]) : groups[g][l] = i
    BY <1>1, <2>1 DEF Inv, Grouped
  <2>3. QED BY <2>2 DEF Inv, SortedPart
<1>4. IsFiniteSet(Group(g)) /\ Cardinality(Group(g)) = n
  <2> HIDE DEF n
  <2> QED BY <1>1, <1>2, <1>3, ListingCounts
<1>5. ASSUME NEW k \in 1..n, NEW l \in 1..n, Comparable(g, order[k], order[l])
      PROVE  k < l <=> Newer(artifacts[order[k]], artifacts[order[l]])
  <2>1. Inputs /\ order[k] \in Group(g) /\ order[l] \in Group(g)
    BY <1>1 DEF Inv
  <2>2. CASE k < l
    BY <1>5, <2>2 DEF Inv, SortedPart
  <2>3. CASE k = l
    <3>1. artifacts[order[k]] \in ParsedArtifact
      BY <1>1, <2>1 DEF Inputs, Indices
    <3>2. QED BY <2>3, <3>1, NewerIrreflexive
  <2>4. CASE l < k
    <3>1. Comparable(g, order[l], order[k]) /\ order[k] # order[l]
      BY <1>2, <1>5, <2>4 DEF Comparable
    <3>2. Newer(artifacts[order[l]], artifacts[order[k]])
      BY <2>4, <3>1 DEF Inv, SortedPart
    <3>3. QED BY <2>1, <2>4, <3>1, <3>2, ComparableTotal
  <2>5. k < l \/ k = l \/ l < k
    BY <1>1
  <2>6. QED BY <2>2, <2>3, <2>4, <2>5
<1>6. QED BY <1>2, <1>3, <1>4, <1>5

\* The members of the group are decided by their rank in it, the others are not
\* touched.
LEMMA DecideRanks ==
  ASSUME Inv, Decide, NEW g \in current
  PROVE  /\ UNCHANGED <<rule, artifacts, next, groups>>
         /\ visited' = visited \cup {g} /\ current' = {} /\ order' = <<>>
         /\ Len(order) = Len(groups[g])
         /\ \A k \in 1..Len(order) :
              decisions'[order[k]] = Decision(artifacts[order[k]], k - 1)
         /\ \A i \in Indices \ Group(g) : decisions'[i] = decisions[i]
         /\ decisions' \in [Indices -> DecisionType]
<1> DEFINE n == Len(order)
<1>1. current = {g} /\ \A k \in 1..n : order[k] \in Group(g) /\ order[k] \in Indices
  BY CurrentFacts
<1>2. UNCHANGED <<rule, artifacts, next, groups>> /\ Len(order) = Len(groups[g])
  BY <1>1 DEF Decide
<1>3. visited' = visited \cup {g} /\ current' = {} /\ order' = <<>>
  BY <1>1 DEF Decide
<1>4. decisions' = [i \in Indices |->
         IF \E k \in 1..n : order[k] = i
         THEN Decision(artifacts[i], (CHOOSE k \in 1..n : order[k] = i) - 1)
         ELSE decisions[i]]
  BY DEF Decide
<1>5. \A k, l \in 1..n : order[k] = order[l] => k = l
  BY DEF Inv, SortedPart
<1> HIDE DEF n
<1>6. ASSUME NEW k \in 1..n
      PROVE  decisions'[order[k]] = Decision(artifacts[order[k]], k - 1)
  <2>1. (CHOOSE l \in 1..n : order[l] = order[k]) = k
    BY <1>5
  <2>2. QED BY <1>1, <1>4, <2>1
<1>7. \A i \in Indices \ Group(g) : decisions'[i] = decisions[i]
  BY <1>1, <1>4
<1>8. ASSUME NEW i \in Indices PROVE decisions'[i] \in DecisionType
  <2>1. CASE \E k \in 1..n : order[k] = i
    BY <1>6, <2>1, DecisionTyped
  <2>2. CASE ~\E k \in 1..n : order[k] = i
    <3>1. decisions[i] \in DecisionType
      BY DEF Inv, TypeOK, DecisionType
    <3>2. QED BY <1>4, <2>2, <3>1
  <2>3. QED BY <2>1, <2>2
<1>9. decisions' \in [Indices -> DecisionType]
  BY <1>4, <1>8
<1>10. QED BY <1>2, <1>3, <1>6, <1>7, <1>9 DEF n

\* The first ranks of the group are kept.
LEMMA FloorReached ==
  ASSUME Inv, Decide, NEW g \in current
  PROVE  FloorOf(g)'
<1> DEFINE n == Len(order)
           K == {i \in Group(g) : ~decisions'[i].delete}
           m == AtMost(rule.keepAtLeast, n)
<1>1. n \in Nat /\ \A k \in 1..n : order[k] \in Group(g)
  BY CurrentFacts
<1>2. /\ IsFiniteSet(Group(g)) /\ Cardinality(Group(g)) = n
      /\ \A k, l \in 1..n : order[k] = order[l] => k = l
  BY DecideRanks, SortedFacts
<1>3. \A k \in 1..n : decisions'[order[k]] = Decision(artifacts[order[k]], k - 1)
  BY DecideRanks
<1>4. rule.keepAtLeast \in Int
  BY PolicyAssumption DEF Inv, TypeOK
<1> HIDE DEF n
<1>5. m \in Int /\ m <= n /\ m <= rule.keepAtLeast
  BY <1>1, <1>4 DEF AtMost
<1> HIDE DEF m
<1>6. IsFiniteSet(K) /\ Cardinality(K) \in Nat
  <2>1. K \subseteq Group(g)
    OBVIOUS
  <2> HIDE DEF K
  <2>2. IsFiniteSet(K)
    BY <1>2, <2>1, FS_Subset
  <2>3. QED BY <2>2, FS_CardinalityType
<1>7. Cardinality(K) >= m
  <2>1. CASE m <= 0
    BY <1>5, <1>6, <2>1
  <2>2. CASE m > 0
    <3> DEFINE E == {order[k] : k \in 1..m}
    <3>0. m \in Nat /\ \A k \in 1..m : k \in 1..n
      BY <1>1, <1>5, <2>2
    <3>1. \A k \in 1..m : order[k] \in K
      <4> TAKE k \in 1..m
      <4>1. k \in 1..n /\ k - 1 < rule.keepAtLeast
        BY <1>4, <1>5, <3>0
      <4>2. ~Decision(artifacts[order[k]], k - 1).delete
        BY <4>1, RanksProtect
      <4>3. QED BY <1>1, <1>3, <4>1, <4>2
    <3>2. E \subseteq K
      BY <3>1
    <3>3. IsFiniteSet(E) /\ Cardinality(E) = m
      <4>1. /\ \A k \in 1..m : order[k] \in E
            /\ \A t \in E : \E k \in 1..m : order[k] = t
        OBVIOUS
      <4>2. \A k, l \in 1..m : order[k] = order[l] => k = l
        BY <1>2, <3>0
      <4> HIDE DEF E
      <4>3. QED BY <3>0, <4>1, <4>2, ListingCounts
    <3> HIDE DEF E, K
    <3>4. Cardinality(E) <= Cardinality(K)
      BY <1>6, <3>2, FS_Subset
    <3>5. QED BY <1>5, <1>6, <3>3, <3>4
  <2>3. QED BY <1>5, <2>1, <2>2
<1>8. rule' = rule /\ Group(g)' = Group(g)
  BY DecideRanks, Frame
<1>9. Kept(g)' = K
  BY <1>8 DEF Kept
<1>10. QED
  <2> HIDE DEF K
  <2> QED BY <1>2, <1>7, <1>8, <1>9 DEF FloorOf, m

\* The rank of a member of a homogeneous group is the number of newer ones.
LEMMA NewestReached ==
  ASSUME Inv, Decide, NEW g \in current
  PROVE  NewestOf(g)'
<1> DEFINE n == Len(order)
<1>1. n \in Nat /\ \A k \in 1..n : order[k] \in Group(g)
  BY CurrentFacts
<1>2. /\ \A i \in Group(g) : \E k \in 1..n : order[k] = i
      /\ \A k, l \in 1..n : order[k] = order[l] => k = l
      /\ \A k, l \in 1..n :
           Comparable(g, order[k], order[l])
             => (k < l <=> Newer(artifacts[order[k]], artifacts[order[l]]))
  BY DecideRanks, SortedFacts
<1>3. \A k \in 1..n : decisions'[order[k]] = Decision(artifacts[order[k]], k - 1)
  BY DecideRanks
<1> HIDE DEF n
<1>4. ASSUME Homogeneous(g), NEW i \in Group(g)
      PROVE  decisions'[i] = Decision(artifacts[i], Cardinality(AheadOf(g, i)))
  <2>1. PICK k \in 1..n : order[k] = i
    BY <1>2
  <2>2. k - 1 \in Nat /\ \A l \in 1..(k - 1) : l \in 1..n /\ l < k
    BY <1>1
  <2>3. \A l \in 1..n : l < k <=> Newer(artifacts[order[l]], artifacts[i])
    BY <1>2, <1>4, <2>1 DEF Comparable
  <2>4. \A l \in 1..(k - 1) : order[l] \in AheadOf(g, i)
    BY <1>1, <2>2, <2>3 DEF AheadOf
  <2>5. \A t \in AheadOf(g, i) : \E l \in 1..(k - 1) : order[l] = t
    <3> TAKE t \in AheadOf(g, i)
    <3>1. PICK l \in 1..n : order[l] = t
      BY <1>2 DEF AheadOf
    <3>2. l < k
      BY <2>3, <3>1 DEF AheadOf
    <3>3. l \in 1..(k - 1)
      BY <1>1, <3>2
    <3>4. QED BY <3>1, <3>3
  <2>6. \A a, b \in 1..(k - 1) : order[a] = order[b] => a = b
    BY <1>2, <2>2
  <2>7. Cardinality(AheadOf(g, i)) = k - 1
    BY <2>2, <2>4, <2>5, <2>6, ListingCounts
  <2>8. QED BY <1>3, <2>1, <2>7
<1>5. UNCHANGED <<rule, artifacts>>
  BY DecideRanks
<1>6. /\ Group(g)' = Group(g) /\ (Homogeneous(g)' <=> Homogeneous(g))
      /\ \A i : AheadOf(g, i)' = AheadOf(g, i)
  BY <1>5, Frame DEF AheadOf
<1>7. \A i, rank : Decision(artifacts[i], rank)' = Decision(artifacts[i], rank)
  BY <1>5 DEF Decision, Protections, GroupOf, Age, ProtectedTag
<1>8. QED BY <1>4, <1>6, <1>7 DEF NewestOf

\* A version of a later date has a better rank, when IDs ascend: it is not
\* deleted while the other is kept for its rank.
LEMMA DatesReached ==
  ASSUME Inv, Decide, NEW g \in current
  PROVE  DatesOf(g)'
<1> DEFINE n == Len(order)
<1>1. n \in Nat /\ \A k \in 1..n : order[k] \in Group(g)
  BY CurrentFacts
<1>2. /\ \A i \in Group(g) : \E k \in 1..n : order[k] = i
      /\ \A k, l \in 1..n :
           Comparable(g, order[k], order[l])
             => (k < l <=> Newer(artifacts[order[k]], artifacts[order[l]]))
  BY DecideRanks, SortedFacts
<1>3. \A k \in 1..n : decisions'[order[k]] = Decision(artifacts[order[k]], k - 1)
  BY DecideRanks
<1>4. rule.keepAtLeast \in Int /\ rule.keepLatest \in Int
  BY PolicyAssumption DEF Inv, TypeOK
<1> HIDE DEF n
<1>5. ASSUME Ascending, NEW i \in Group(g), NEW j \in Group(g),
             Parsed(artifacts[i]), Parsed(artifacts[j]),
             artifacts[j].versions[1].date > artifacts[i].versions[1].date,
             decisions'[j].delete,
             decisions'[i].reasons \cap {"protected.latest", "protected.minimum"} # {}
      PROVE  FALSE
  <2>1. PICK k \in 1..n, l \in 1..n : order[k] = i /\ order[l] = j
    BY <1>2
  <2>2. Newer(artifacts[j], artifacts[i])
    BY <1>5 DEF Newer, LaterVersion
  <2>3. Comparable(g, order[l], order[k])
    BY <1>5, <2>1 DEF Comparable
  <2>4. l < k
    BY <1>2, <2>1, <2>2, <2>3
  <2>5. k - 1 < rule.keepAtLeast \/ k - 1 < rule.keepLatest
    BY <1>3, <1>5, <2>1, RanksProtect
  <2>6. l - 1 < rule.keepAtLeast \/ l - 1 < rule.keepLatest
    BY <1>1, <1>4, <2>4, <2>5
  <2>7. ~Decision(artifacts[j], l - 1).delete
    BY <2>6, RanksProtect
  <2>8. QED BY <1>3, <1>5, <2>1, <2>7
<1>6. UNCHANGED <<rule, artifacts>>
  BY DecideRanks
<1>7. Group(g)' = Group(g) /\ (Ascending' <=> Ascending)
  BY <1>6, Frame
<1>8. \A i : Parsed(artifacts[i])' <=> Parsed(artifacts[i])
  BY <1>6
<1>9. QED BY <1>5, <1>6, <1>7, <1>8 DEF DatesOf, Outlives

LEMMA DecideInv ==
  ASSUME Inv, Decide
  PROVE  Inv'
<1>1. PICK g \in current : TRUE
  BY DEF Decide
<1>2. /\ UNCHANGED <<rule, artifacts, next, groups>>
      /\ visited' = visited \cup {g} /\ current' = {} /\ order' = <<>>
      /\ \A i \in Indices \ Group(g) : decisions'[i] = decisions[i]
      /\ decisions' \in [Indices -> DecisionType]
  BY DecideRanks
<1>3. g \in DOMAIN groups /\ g \notin visited /\ Len(artifacts) \in Nat /\ next = Len(artifacts) + 1
  BY CurrentFacts
<1>4. TypeOK'
  <2>1. GroupNames' = GroupNames /\ Indices' = Indices
    BY <1>2, Frame DEF GroupNames
  <2>2. order' \in Seq(Indices)
    BY <1>2
  <2>3. QED BY <1>2, <1>3, <2>1, <2>2 DEF Inv, TypeOK, DecisionType
<1>5. Grouped' /\ Inputs'
  BY <1>2, GroupedKept DEF Inv
<1>6. Phases' /\ SortedPart'
  BY <1>2, <1>3 DEF Phases, SortedPart
<1>7. Decided'
  <2>1. FloorOf(g)' /\ NewestOf(g)' /\ DatesOf(g)'
    BY FloorReached, NewestReached, DatesReached
  <2>2. ASSUME NEW h \in visited PROVE FloorOf(h)' /\ NewestOf(h)' /\ DatesOf(h)'
    <3>1. h # g
      BY <1>3
    <3>2. \A i \in Group(h) : i \in Indices \ Group(g)
      BY <3>1 DEF Group
    <3>3. FloorOf(h) /\ NewestOf(h) /\ DatesOf(h)
      BY DEF Inv, Decided
    <3>4. QED BY <1>2, <3>2, <3>3, DecidedKept
  <2>3. QED BY <1>2, <2>1, <2>2 DEF Decided
<1>8. QED BY <1>4, <1>5, <1>6, <1>7 DEF Inv

LEMMA StutterInv ==
  ASSUME Inv, UNCHANGED vars
  PROVE  Inv'
<1>1. UNCHANGED <<rule, artifacts, next, groups, visited, current, order, decisions>>
  BY DEF vars
<1>2. TypeOK'
  <2>1. GroupNames' = GroupNames /\ Indices' = Indices
    BY <1>1, Frame DEF GroupNames
  <2>2. QED BY <1>1, <2>1 DEF Inv, TypeOK
<1>3. Grouped' /\ Inputs'
  BY <1>1, GroupedKept DEF Inv
<1>4. Phases'
  BY <1>1 DEF Inv, Phases
<1>5. SortedPart'
  BY <1>1, Frame DEF Inv, SortedPart
<1>6. Decided'
  BY <1>1, DecidedKept DEF Inv, Decided
<1>7. QED BY <1>2, <1>3, <1>4, <1>5, <1>6 DEF Inv

\* The invariant of policy.Evaluate: while it runs, the groups hold what has
\* been read, the current one is sorted as far as it goes, and every group it
\* is through with is settled.
THEOREM Invariance == Spec => []Inv
<1>1. Inv /\ [Next]_vars => Inv'
  BY ClassifyInv, VisitInv, SortInv, DecideInv, StutterInv DEF Next
<1>2. QED BY InitInv, <1>1, PTL DEF Spec

-----------------------------------------------------------------------------
(* What Evaluate promises.                                                 *)

\* Every variable keeps its type: indices stay within the listing, decisions
\* within the groups and the reasons of the policy package.
THEOREM PolicyTypeCorrect == Spec => []TypeOK
<1>1. Inv => TypeOK
  BY DEF Inv
<1>2. QED BY Invariance, <1>1, PTL

LEMMA AllVisited ==
  ASSUME Inv, Evaluated
  PROVE  visited = GroupNames
<1>1. Len(artifacts) \in Nat /\ next = Len(artifacts) + 1 /\ visited = DOMAIN groups
  BY DEF Inv, Inputs, Evaluated
<1>2. 1..(next - 1) = Indices
  BY <1>1 DEF Indices
<1>3. QED BY <1>1, <1>2 DEF Inv, Grouped, GroupNames

\* A set has no more images than members.
LEMMA ImageCounts ==
  ASSUME NEW S, IsFiniteSet(S), NEW f
  PROVE  LET image == {f[x] : x \in S}
         IN  /\ IsFiniteSet(image)
             /\ Cardinality(image) \in Nat
             /\ Cardinality(image) <= Cardinality(S)
<1> DEFINE image == {f[x] : x \in S}
           onto  == [x \in S |-> f[x]]
<1>1. onto \in Surjection(S, image)
  BY DEF Surjection
<1> HIDE DEF image, onto
<1>2. IsFiniteSet(image) /\ Cardinality(image) <= Cardinality(S)
  BY <1>1, FS_Surjection
<1>3. Cardinality(image) \in Nat
  BY <1>2, FS_CardinalityType
<1>4. QED BY <1>2, <1>3 DEF image

\* Each member that is dropped costs at most one image.
LEMMA ImagesKept ==
  ASSUME NEW S, IsFiniteSet(S), NEW T \in SUBSET S, NEW f
  PROVE  LET all  == {f[x] : x \in S}
             kept == {f[x] : x \in T}
         IN  /\ Cardinality(S) \in Nat /\ Cardinality(T) \in Nat
             /\ Cardinality(all) \in Nat /\ Cardinality(kept) \in Nat
             /\ Cardinality(all) <= Cardinality(kept) + (Cardinality(S) - Cardinality(T))
<1> DEFINE all  == {f[x] : x \in S}
           kept == {f[x] : x \in T}
           rest == S \ T
           lost == {f[x] : x \in rest}
<1>1. IsFiniteSet(T) /\ IsFiniteSet(rest) /\ Cardinality(S) \in Nat /\ Cardinality(T) \in Nat
  BY FS_Subset, FS_Difference, FS_CardinalityType
<1>2. Cardinality(rest) = Cardinality(S) - Cardinality(T)
  <2>1. S \cap T = T
    OBVIOUS
  <2>2. QED BY <2>1, FS_Difference
<1>3. all = kept \cup lost
  OBVIOUS
<1> HIDE DEF rest
<1>4. /\ IsFiniteSet(kept) /\ Cardinality(kept) \in Nat
      /\ IsFiniteSet(lost) /\ Cardinality(lost) \in Nat
      /\ Cardinality(lost) <= Cardinality(rest)
  BY <1>1, ImageCounts
<1>5. Cardinality(all) \in Nat
  BY ImageCounts
<1> HIDE DEF all, kept, lost
<1>6. /\ Cardinality(all) = Cardinality(kept) + Cardinality(lost) - Cardinality(kept \cap lost)
      /\ Cardinality(kept \cap lost) \in Nat
  BY <1>3, <1>4, FS_Union, FS_Intersection, FS_CardinalityType
<1>7. QED BY <1>1, <1>2, <1>4, <1>5, <1>6 DEF all, kept

\* keep_at_least: whatever the listing, the rule and the order in which the map
\* of groups is ranged over, every group keeps keep_at_least distinct artifacts,
\* less one for each repeated entry, or all of them; Newer need not be an order.
THEOREM FloorHolds == Spec => []FloorPerGroup
<1>1. Inv => FloorPerGroup
  <2> SUFFICES ASSUME Inv, Evaluated, NEW g \in GroupNames
               PROVE  Cardinality(Ids(Kept(g))) >=
                        AtMost(rule.keepAtLeast - Repeats(g), Cardinality(Ids(Group(g))))
    BY DEF FloorPerGroup
  <2> DEFINE f == [i \in Indices |-> artifacts[i].id]
  <2>1. IsFiniteSet(Group(g)) /\ Group(g) \subseteq Indices /\ Kept(g) \in SUBSET Group(g)
    <3>1. Len(artifacts) \in Nat
      BY DEF Inv, Inputs
    <3>2. IsFiniteSet(Indices) /\ Group(g) \subseteq Indices
      BY <3>1, FS_Interval DEF Indices, Group
    <3>3. QED BY <3>2, FS_Subset DEF Kept
  <2>2. Ids(Group(g)) = {f[i] : i \in Group(g)} /\ Ids(Kept(g)) = {f[i] : i \in Kept(g)}
    BY <2>1 DEF Ids
  <2> HIDE DEF f
  <2>3. /\ Cardinality(Group(g)) \in Nat /\ Cardinality(Kept(g)) \in Nat
        /\ Cardinality(Ids(Group(g))) \in Nat /\ Cardinality(Ids(Kept(g))) \in Nat
        /\ Cardinality(Ids(Group(g)))
             <= Cardinality(Ids(Kept(g))) + (Cardinality(Group(g)) - Cardinality(Kept(g)))
    <3> DEFINE G == Group(g)
               K == Kept(g)
    <3>1. IsFiniteSet(G) /\ K \in SUBSET G
      BY <2>1
    <3> HIDE DEF G, K
    <3>2. /\ Cardinality(G) \in Nat /\ Cardinality(K) \in Nat
          /\ Cardinality({f[i] : i \in G}) \in Nat /\ Cardinality({f[i] : i \in K}) \in Nat
          /\ Cardinality({f[i] : i \in G})
               <= Cardinality({f[i] : i \in K}) + (Cardinality(G) - Cardinality(K))
      BY <3>1, ImagesKept
    <3>3. QED BY <2>2, <3>2 DEF G, K
  <2>4. FloorOf(g) /\ rule.keepAtLeast \in Int
    BY AllVisited, PolicyAssumption DEF Inv, Decided, TypeOK
  <2>5. QED BY <2>3, <2>4 DEF FloorOf, AtMost, Repeats
<1>2. QED BY Invariance, <1>1, PTL

\* No retention rule of a configuration that Validate accepts empties a group.
THEOREM GroupsNeverEmptied ==
  ASSUME NEW Configurations, Rules = RulesOf(Configurations)
  PROVE  Spec => []NeverEmptied
<1>1. Inv => NeverEmptied
  <2> SUFFICES ASSUME Inv, Evaluated, NEW g \in GroupNames
               PROVE  Kept(g) # {}
    BY DEF NeverEmptied
  <2>1. rule.keepAtLeast \in Int /\ rule.keepAtLeast >= 1
    <3>1. rule \in RulesOf(Configurations) /\ rule.keepAtLeast \in Int
      BY PolicyAssumption DEF Inv, TypeOK
    <3>2. PICK p \in UNION {{c.policies[n] : n \in DOMAIN c.policies} :
                              c \in {d \in Configurations : Validate(d)}} : rule = RuleOf(p)
      BY <3>1 DEF RulesOf
    <3>3. PICK c \in Configurations :
            Validate(c) /\ \E n \in DOMAIN c.policies : p = c.policies[n]
      OBVIOUS
    <3>4. p.retention.keepAtLeast >= 1
      BY <3>3 DEF Validate, PolicyOK, RetentionOK
    <3>5. QED BY <3>1, <3>2, <3>4 DEF RuleOf
  <2>2. PICK i : i \in Group(g)
    BY DEF GroupNames, Group
  <2>3. IsFiniteSet(Group(g)) /\ FloorOf(g)
    <3>1. Len(artifacts) \in Nat
      BY DEF Inv, Inputs
    <3>2. IsFiniteSet(Indices) /\ Group(g) \subseteq Indices
      BY <3>1, FS_Interval DEF Indices, Group
    <3>3. QED BY <3>2, AllVisited, FS_Subset DEF Inv, Decided
  <2>4. Cardinality(Group(g)) \in Nat /\ Cardinality(Group(g)) >= 1
    <3>1. Group(g) # {}
      BY <2>2
    <3>2. QED BY <2>3, <3>1, FS_CardinalityType, FS_EmptySet
  <2>5. Cardinality(Kept(g)) >= 1
    <3>1. IsFiniteSet(Kept(g))
      BY <2>3, FS_Subset DEF Kept
    <3>2. Cardinality(Kept(g)) \in Nat
      BY <3>1, FS_CardinalityType
    <3>3. QED BY <2>1, <2>3, <2>4, <3>2 DEF FloorOf, AtMost
  <2>6. QED BY <2>5, FS_EmptySet
<1>2. QED BY Invariance, <1>1, PTL

\* The members NewestFirst counts as newer.
NewerOf(g, i) ==
  {j \in Group(g) :
     \/ ~Parsed(artifacts[i]) /\ artifacts[j].id > artifacts[i].id
     \/ /\ Parsed(artifacts[i])
        /\ LET v == artifacts[j].versions[1]
               u == artifacts[i].versions[1]
           IN  \/ v.date > u.date
               \/ v.date = u.date /\ v.seq > u.seq
               \/ /\ <<v.date, v.seq>> = <<u.date, u.seq>>
                  /\ v.tag > u.tag \/ (v.tag = u.tag /\ artifacts[j].id > artifacts[i].id)}

\* The rank of an artifact in a group that is all parsed or all unparsed is the
\* number of newer ones: decisions depend on no order of the listing or the map.
THEOREM RankIsNewer == Spec => []NewestFirst
<1>1. Inv => NewestFirst
  <2> SUFFICES ASSUME Inv, Evaluated, NEW g \in GroupNames, Homogeneous(g), NEW i \in Group(g)
               PROVE  decisions[i] = Decision(artifacts[i], Cardinality(NewerOf(g, i)))
    BY DEF NewestFirst, NewerOf
  <2>1. decisions[i] = Decision(artifacts[i], Cardinality(AheadOf(g, i)))
    BY AllVisited DEF Inv, Decided, NewestOf
  <2>2. NewerOf(g, i) = AheadOf(g, i)
    <3>1. ASSUME NEW j \in Group(g)
          PROVE  j \in NewerOf(g, i) <=> j \in AheadOf(g, i)
      <4>1. Parsed(artifacts[j]) <=> Parsed(artifacts[i])
        BY DEF Homogeneous
      <4>2. QED BY <4>1 DEF NewerOf, AheadOf, Newer, LaterVersion
    <3>2. QED BY <3>1 DEF NewerOf, AheadOf
  <2>3. QED BY <2>1, <2>2
<1>2. QED BY Invariance, <1>1, PTL

\* In a listing whose IDs ascend, as of one OCI repository, no version is deleted
\* while one of an earlier date is kept for its rank.
THEOREM DatesRespected == Spec => []DateOrder
<1>1. Inv => DateOrder
  BY AllVisited DEF Inv, Decided, DatesOf, DateOrder
<1>2. QED BY Invariance, <1>1, PTL
=============================================================================
