------------------------------- MODULE Policy -------------------------------
(***************************************************************************)
(* Evaluate (pkg/policy/policy.go): which artifacts of one listing a rule  *)
(* deletes.  Artifacts are put into groups by app, each group is sorted    *)
(* newest first, and an artifact is deleted when it is old enough and      *)
(* nothing protects it, the first ranks of its group being protected.      *)
(*                                                                         *)
(* sort.SliceStable is an insertion sort on up to 20 elements; a step      *)
(* places one artifact, so that the order is the code's even where Newer   *)
(* is not an order.  The groups are visited in map order: any order.       *)
(*                                                                         *)
(* Dates are numbers, 0 the zero time; tags are numbers in string order.   *)
(* A parser and its patterns are the table of the versions they accept.    *)
(***************************************************************************)
EXTENDS Integers, Sequences, SequencesExt

CONSTANTS
  Listings,     \* what a provider may list: sequences of artifacts
  Rules,        \* the rules to evaluate
  Versions,     \* tag -> version, for the tags the policy's parser accepts
  Now           \* the evaluation time

Default == "_default"

VARIABLES
  rule,         \* the rule
  artifacts,    \* the listing, with ParsedVersions
  next,         \* the next artifact to put in a group
  groups,       \* the artifacts of each group, in listing order
  visited,      \* the groups that have been decided
  current,      \* the set of the group being sorted, empty between two groups
  order,        \* the sorted part of the current group
  decisions     \* Delete, Reasons and Group of each artifact

vars == <<rule, artifacts, next, groups, visited, current, order, decisions>>

Indices == 1..Len(artifacts)

-----------------------------------------------------------------------------
(* Pure helpers.                                                           *)

\* One step of an insertion sort: x moves left up to the last of the positions
\* ahead, whose elements it does not precede.
Place(s, x, ahead) == InsertAt(s, 1 + Max({0} \cup ahead), x)

LaterVersion(v, u) == v.date > u.date \/ (v.date = u.date /\ v.seq > u.seq)

\* parseArtifact: the versions of the recognised tags, latest first; equal
\* ones stay in tag order.
ParsedVersions(tags) ==
  FoldLeft(LAMBDA s, t : IF t \in DOMAIN Versions
                         THEN Place(s, Versions[t] @@ [tag |-> t],
                                    {i \in DOMAIN s : ~LaterVersion(Versions[t], s[i])})
                         ELSE s,
           <<>>, tags)

ParseAll(listing) ==
  [i \in DOMAIN listing |-> listing[i] @@ [versions |-> ParsedVersions(listing[i].tags)]]

\* The types of the arguments of Evaluate.
Version == [tag : Int, date : Int, seq : Int, app : STRING]
ParsedArtifact ==
  [id : Int, tags : Seq(Int), created : Int, updated : Int, referrers : BOOLEAN,
   versions : Seq(Version)]

ASSUME PolicyAssumption ==
  /\ \A listing \in Listings : ParseAll(listing) \in Seq(ParsedArtifact)
  /\ \A r \in Rules : r.keepAtLeast \in Int /\ r.keepLatest \in Int

Parsed(a) == a.versions # <<>>

AppOf(v) == IF v.app = "" THEN Default ELSE v.app

HasMultipleApps(a) == \E v, u \in ToSet(a.versions) : AppOf(v) # AppOf(u)

GroupOf(a) == IF Parsed(a) /\ rule.groupByApp THEN AppOf(a.versions[1]) ELSE Default

Age(a) == Now - (IF Parsed(a) THEN a.versions[1].date
                 ELSE IF a.updated # 0 THEN a.updated ELSE a.created)

\* Mutant: a younger sequence never beats an older one of the same day.
NewerByDateAndTag(a, b) ==
  IF Parsed(a) /\ Parsed(b)
  THEN LET v == a.versions[1]
           u == b.versions[1]
       IN  \/ v.date > u.date
           \/ v.date = u.date /\ (v.tag > u.tag \/ (v.tag = u.tag /\ a.id > b.id))
  ELSE a.id > b.id

\* Mutant: versions are ignored.
NewerById(a, b) == a.id > b.id

\* newer: only two parsed artifacts are compared by version.
Newer(a, b) ==
  IF Parsed(a) /\ Parsed(b)
  THEN LET v == a.versions[1]
           u == b.versions[1]
       IN  \/ LaterVersion(v, u)
           \/ /\ v.date = u.date /\ v.seq = u.seq
              /\ v.tag > u.tag \/ (v.tag = u.tag /\ a.id > b.id)
  ELSE a.id > b.id

ProtectedTag(a) == \E t \in ToSet(a.tags) : t \in rule.protectedTags

\* The reasons that protect artifact a at rank (from 0).
Protections(a, rank) ==
  LET When(condition, reason) == IF condition THEN {reason} ELSE {}
  IN  When(a.tags = <<>> /\ rule.requireTagged,                              "protected.unparsed")
      \cup When(~Parsed(a) /\ rule.protectUnparsed,                          "protected.unparsed")
      \cup When(ProtectedTag(a),                                             "protected.tag")
      \cup When(a.id \in rule.protectedDigests,                              "protected.digest")
      \cup When(a.referrers,                                                 "protected.referrer")
      \cup When(HasMultipleApps(a),                                          "protected.shared_digest")
      \cup When(rule.keepNewerThan > 0 /\ Age(a) < rule.keepNewerThan,       "protected.recent")
      \cup When(rank < rule.keepLatest,                                      "protected.latest")
      \cup When(rank < rule.keepAtLeast,                                     "protected.minimum")
      \cup When(rule.deleteOlderThan > 0 /\ Age(a) < rule.deleteOlderThan,   "protected.too_young")

Reasons ==
  {"protected.unparsed", "protected.tag", "protected.digest", "protected.referrer",
   "protected.shared_digest", "protected.recent", "protected.latest", "protected.minimum",
   "protected.too_young", "eligible.older_than", "ignored.not_selected"}

Decision(a, rank) ==
  LET protections == Protections(a, rank)
      delete == protections = {} /\ rule.deleteOlderThan > 0
  IN  [group   |-> GroupOf(a),
       delete  |-> delete,
       reasons |-> IF protections # {} THEN protections
                   ELSE IF delete THEN {"eligible.older_than"} ELSE {"ignored.not_selected"}]

-----------------------------------------------------------------------------

NoDecision == [group |-> Default, delete |-> FALSE, reasons |-> {}]

Init ==
  /\ rule \in Rules
  /\ artifacts \in {ParseAll(listing) : listing \in Listings}
  /\ next = 1
  /\ groups = [g \in {} |-> <<>>]
  /\ visited = {}
  /\ current = {}
  /\ order = <<>>
  /\ decisions = [i \in Indices |-> NoDecision]

\* The first loop: artifact next joins its group.
Classify ==
  /\ next \in Indices
  /\ LET g == GroupOf(artifacts[next])
         members == IF g \in DOMAIN groups THEN groups[g] ELSE <<>>
     IN  /\ groups' = [h \in DOMAIN groups \cup {g} |->
                         IF h = g THEN Append(members, next) ELSE groups[h]]
         /\ decisions' = [decisions EXCEPT ![next].group = g]
  /\ next' = next + 1
  /\ UNCHANGED <<rule, artifacts, visited, current, order>>

\* range groups moves to another group.
Visit(g) ==
  /\ next = Len(artifacts) + 1
  /\ current = {}
  /\ g \in DOMAIN groups \ visited
  /\ current' = {g}
  /\ order' = <<>>
  /\ UNCHANGED <<rule, artifacts, next, groups, visited, decisions>>

\* sort.SliceStable places one more member.
Sort ==
  /\ \E g \in current :
       /\ Len(order) < Len(groups[g])
       /\ LET i == groups[g][Len(order) + 1]
          IN  order' = Place(order, i, {k \in DOMAIN order :
                                          ~Newer(artifacts[i], artifacts[order[k]])})
  /\ UNCHANGED <<rule, artifacts, next, groups, visited, current, decisions>>

\* Mutant: ranks are counted over the whole listing, not per group.
DecideByPosition ==
  /\ \E g \in current : Len(order) = Len(groups[g])
  /\ decisions' = [i \in Indices |->
       IF \E k \in 1..Len(order) : order[k] = i
       THEN Decision(artifacts[i], i - 1)
       ELSE decisions[i]]
  /\ visited' = visited \cup current
  /\ current' = {}
  /\ order' = <<>>
  /\ UNCHANGED <<rule, artifacts, next, groups>>

\* The second loop, over the sorted group.
Decide ==
  /\ \E g \in current : Len(order) = Len(groups[g])
  /\ decisions' = [i \in Indices |->
       IF \E k \in 1..Len(order) : order[k] = i
       THEN Decision(artifacts[i], (CHOOSE k \in 1..Len(order) : order[k] = i) - 1)
       ELSE decisions[i]]
  /\ visited' = visited \cup current
  /\ current' = {}
  /\ order' = <<>>
  /\ UNCHANGED <<rule, artifacts, next, groups>>

Next ==
  \/ Classify
  \/ \E g \in DOMAIN groups : Visit(g)
  \/ Sort
  \/ Decide

Spec == Init /\ [][Next]_vars

-----------------------------------------------------------------------------
(* Properties.                                                             *)

Evaluated == next = Len(artifacts) + 1 /\ visited = DOMAIN groups

Group(g)    == {i \in Indices : GroupOf(artifacts[i]) = g}
GroupNames  == {GroupOf(artifacts[i]) : i \in Indices}
Kept(g)     == {i \in Group(g) : ~decisions[i].delete}
Deleted     == {i \in Indices : decisions[i].delete}
Ids(S)      == {artifacts[i].id : i \in S}

\* How many of a group's entries repeat another one.
Repeats(g)  == Cardinality(Group(g)) - Cardinality(Ids(Group(g)))
AtMost(m, n) == IF m < n THEN m ELSE n

TypeOK ==
  /\ rule \in Rules
  /\ next \in 1..(Len(artifacts) + 1)
  /\ DOMAIN groups \subseteq GroupNames
  /\ \A g \in DOMAIN groups : groups[g] \in Seq(1..(next - 1))
  /\ visited \subseteq DOMAIN groups
  /\ current \subseteq DOMAIN groups
  /\ order \in Seq(Indices)
  /\ decisions \in [Indices -> [group   : GroupNames \cup {Default},
                                delete  : BOOLEAN,
                                reasons : SUBSET Reasons]]

\* keep_at_least, as far as the code goes: whatever the rule and the order the
\* groups are visited in, every group keeps keep_at_least distinct artifacts, less
\* one for each entry that repeats another (a repeated entry takes a rank of its
\* own), or all of them.  It holds even where Newer is not an order.
FloorPerGroup ==
  Evaluated => \A g \in GroupNames :
    Cardinality(Ids(Kept(g))) >=
      AtMost(rule.keepAtLeast - Repeats(g), Cardinality(Ids(Group(g))))

\* No configuration that Validate accepts empties a group, whatever it leaves
\* out and whatever the listing.
NeverEmptied ==
  Evaluated => \A g \in GroupNames : Kept(g) # {}

\* The declarative reading of a rule, for a group of distinct artifacts that
\* are all parsed or all unparsed: rank is the number of newer members, so the
\* decision depends neither on the listing order nor on the visiting order.
Homogeneous(g) ==
  /\ \A i, j \in Group(g) : Parsed(artifacts[i]) = Parsed(artifacts[j])
  /\ \A i, j \in Group(g) : artifacts[i].id = artifacts[j].id => i = j

NewestFirst ==
  Evaluated => \A g \in GroupNames : Homogeneous(g) =>
    \A i \in Group(g) :
      decisions[i] = Decision(artifacts[i],
        Cardinality({j \in Group(g) :
          \/ ~Parsed(artifacts[i]) /\ artifacts[j].id > artifacts[i].id
          \/ /\ Parsed(artifacts[i])
             /\ LET v == artifacts[j].versions[1]
                    u == artifacts[i].versions[1]
                IN  \/ v.date > u.date
                    \/ v.date = u.date /\ v.seq > u.seq
                    \/ /\ <<v.date, v.seq>> = <<u.date, u.seq>>
                       /\ v.tag > u.tag \/ (v.tag = u.tag /\ artifacts[j].id > artifacts[i].id)}))

\* In the listing of one OCI repository, where digests ascend, a version is not
\* deleted while an older one of its group is kept for its rank, although
\* Newer compares parsed and unparsed artifacts by ID and is not transitive
\* (in other listing orders the older one can outlive the newer).
Outlives(i, j) ==
  /\ decisions[j].delete
  /\ decisions[i].reasons \cap {"protected.latest", "protected.minimum"} # {}

Ascending == \A i, j \in Indices : i < j => artifacts[i].id < artifacts[j].id

DateOrder ==
  Evaluated /\ Ascending => \A g \in GroupNames : \A i, j \in Group(g) :
    /\ Parsed(artifacts[i]) /\ Parsed(artifacts[j])
    /\ artifacts[j].versions[1].date > artifacts[i].versions[1].date
    => ~Outlives(i, j)

\* docs/policies.md: "An app with only one version always keeps it."
OnlyVersionKept ==
  Evaluated /\ rule.groupByApp => \A i \in Deleted :
    Parsed(artifacts[i]) =>
      \E j \in Group(decisions[i].group) \ {i} : Parsed(artifacts[j])
=============================================================================
