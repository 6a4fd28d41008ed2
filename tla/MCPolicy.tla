------------------------------ MODULE MCPolicy ------------------------------
(* Small instances of Policy for TLC.                                      *)
EXTENDS Policy, Config

\* Tag 9 is in no calendar format.  Tags 5 and 6 are a day on which two
\* sequences were released, tag order and sequence order disagreeing; tag 7
\* is dated after Now.
AllVersions ==
  1 :> [date |-> 1, seq |-> 1, app |-> ""]
  @@ 2 :> [date |-> 2, seq |-> 1, app |-> ""]
  @@ 3 :> [date |-> 1, seq |-> 1, app |-> "web"]
  @@ 5 :> [date |-> 2, seq |-> 10, app |-> ""]
  @@ 6 :> [date |-> 2, seq |-> 9, app |-> ""]
  @@ 7 :> [date |-> 8, seq |-> 1, app |-> "web"]

Evaluation == 6

TagLists == {<<>>, <<9>>, <<1>>, <<2, 9>>, <<3>>, <<1, 3>>, <<5>>, <<6>>, <<7>>}

Artifact(id, tags, updated, referrers) ==
  [id |-> id, tags |-> tags, created |-> 0, updated |-> updated, referrers |-> referrers]

Listing(ids, tags, updated, referred) ==
  [i \in DOMAIN ids |-> Artifact(ids[i], tags[i], updated, ids[i] \in referred)]

\* One repository of the OCI provider lists by ascending digest and gives no
\* times.
OciListings ==
  {Listing(<<1, 2, 3>>, tags, 0, referred) :
     tags \in [1..3 -> TagLists \ {<<>>}], referred \in {{}, {2}}}

\* GitHub, and several repositories, list in any order.
AnyOrder == {ids \in [1..3 -> 1..3] : \A i, j \in 1..3 : ids[i] = ids[j] => i = j}
GithubListings ==
  {Listing(ids, tags, updated, {}) :
     ids \in AnyOrder, tags \in [1..3 -> TagLists \ {<<2, 9>>, <<7>>}], updated \in {5, 2}}

\* Pagination under a concurrent push repeats an entry.
RepeatedListings ==
  {Listing(<<3, 3, 2, 1>>, <<tags[1], tags[1], tags[2], tags[3]>>, 2, {}) :
     tags \in [1..3 -> {<<9>>, <<1>>, <<2, 9>>, <<3>>}]}

AllListings == OciListings \cup GithubListings \cup RepeatedListings

NoExpression ==
  [given |-> FALSE, anchored |-> FALSE, compiles |-> TRUE, captures |-> {}, matches |-> {}]
Tag5 == [NoExpression EXCEPT !.given = TRUE, !.matches = {5}]

PolicyOf(latest, atLeast, groupBy, unparsed, tagged, newer, older, tags, patterns, digests) ==
  [targets   |-> {"registry"},
   tags      |-> [parser |-> "calendar", patterns |-> {}, regex |-> NoExpression],
   retention |-> [keepNewerThan |-> newer, deleteOlderThan |-> older, keepLatest |-> latest,
                  keepAtLeast |-> atLeast, groupBy |-> groupBy],
   protect   |-> [tags |-> tags, tagPatterns |-> patterns, digests |-> digests,
                  unparsedTags |-> unparsed],
   safety    |-> [maxDeleteCount |-> 9, maxDeletePercent |-> {5000}, requireTagged |-> tagged]]

\* Settings that are given, left out or refused: no floor, a retention of zero,
\* one below keep_newer_than.
SomePolicies ==
  {PolicyOf(latest, atLeast, groupBy, set, set, 2, 4, {}, {}, {}) :
     latest \in {0, 2}, atLeast \in 0..2, groupBy \in {"", "app"}, set \in {{}, {FALSE}}}
  \cup {PolicyOf(0, 1, "app", {FALSE}, {TRUE}, newer, older, {2}, {Tag5}, {1}) :
          newer \in {-1, 4}, older \in {0, 3}}

ConfigOf(p) ==
  [version    |-> "v1",
   registries |-> "registry" :> [provider |-> "oci", endpoint |-> "url"],
   policies   |-> "policy" :> p,
   afterApply |-> {},
   schedule   |-> {}]

AllRules == RulesOf({ConfigOf(p) : p \in SomePolicies})

\* The defaults: untagged and unparsed artifacts are protected.
DefaultRules == RulesOf({ConfigOf(p) : p \in {q \in SomePolicies : q.protect.unparsedTags = {}}})

\* Two artifacts are enough to lose the only version of an app.
PairListings ==
  {Listing(<<1, 2>>, tags, 0, {}) : tags \in [1..2 -> TagLists \ {<<>>}]}
=============================================================================
