------------------------------ MODULE OciList ------------------------------
(***************************************************************************)
(* List of the OCI provider (internal/provider/oci/oci.go): the catalog,   *)
(* the tags of each selected repository, page by page, the manifest each   *)
(* tag names, and the referrers of each manifest, while other clients      *)
(* push, move and delete tags and attach signatures.                       *)
(*                                                                         *)
(* Every request may be challenged for a bearer token, once.  Repositories,*)
(* tags and digests are numbers, in the order of their strings.            *)
(***************************************************************************)
EXTENDS Naturals, Sequences, FiniteSets, Functions

CONSTANTS
  Configurations, \* values of Client.repositories; <<>> asks for the catalog
  Includes,     \* the globs of the target, each as the set of
  Excludes,     \*   repositories it matches
  Stored,       \* what the tags of each repository name at the start
  Kinds,        \* of each digest: "manifest", an "index" of referrers, or an
                \*   "empty" one
  Attached,     \* <<repository, digest>> with a referrer at the start
  Pushes,       \* <<repository, tag, digest>> that other clients may push
  PageSize,     \* n=100
  MaxWrites     \* bound: writes by other clients

Repositories == DOMAIN Stored
Digests      == DOMAIN Kinds
Pairs        == Repositories \X Digests

ASSUME OciListAssumption ==
  /\ Configurations \subseteq Seq(Nat)
  /\ Repositories \subseteq Nat /\ IsFiniteSet(Repositories)
  /\ Digests \subseteq Nat \ {0} /\ IsFiniteSet(Digests)
  /\ Kinds \in [Digests -> {"manifest", "index", "empty"}]
  /\ \A r \in Repositories :
       /\ DOMAIN Stored[r] \subseteq Nat /\ IsFiniteSet(DOMAIN Stored[r])
       /\ Stored[r] \in [DOMAIN Stored[r] -> Digests]
  /\ Attached \subseteq Pairs
  /\ Pushes \subseteq Repositories \X Nat \X Digests
  /\ PageSize \in Nat \ {0}
  /\ MaxWrites \in Nat

VARIABLES
  api,          \* the registry: does it have the referrers API
  names,        \* the registry: repository -> tag -> digest
  attached,     \* the registry: what the referrers API knows
  repositories, \* Client.repositories
  phase,        \* which request is next, or "ok" or "error"
  bearer,       \* that request: "fresh", "challenged" or "authorised"
  todo,         \* the repositories List has not gone through yet
  page,         \* what the pages of the catalog or of the tags have shown
  tags,         \* the tags still to be resolved
  byDigest,     \* digest -> the tags that were resolved to it
  unasked,      \* the digests whose referrers have not been asked for
  subject,      \* the digest whose referrers are looked for under a tag, or 0
  referred,     \* the digests with a ReferrerID
  artifacts,    \* the artifacts listed so far
  writes,       \* history: the number of writes by other clients
  steady,       \* history: what each tag has named all the time
  everNamed,    \* history: what each tag has named at some time
  guarded       \* history: what has had a referrer all the time

world     == <<api, names, attached>>
current   == <<tags, byDigest, unasked, subject, referred>>
histories == <<writes, steady, everNamed, guarded>>
listVars  == <<world, repositories, phase, bearer, todo, page, current, artifacts, histories>>

\* referrersTag: the tag under which the referrers of a digest are kept where
\* there is no API for them, sha256-... for sha256:...
ReferrersTag(d) == 100 + d

Naming(n) == UNION {{<<r, t, n[r][t]>> : t \in DOMAIN n[r]} : r \in Repositories}

\* The registry holds a referrer of a manifest, where a client looks for it.
HasReferrer(n, known) ==
  {p \in Pairs : IF api THEN p \in known
                 ELSE \E i \in Digests : Kinds[i] = "index" /\ <<p[1], ReferrersTag(p[2]), i>> \in Naming(n)}

Artifact == [repository : Repositories, digest : Digests, tags : SUBSET Nat, referrers : BOOLEAN]

ListTypeOK ==
  /\ api \in BOOLEAN
  /\ DOMAIN names = Repositories
  /\ \A r \in Repositories :
       /\ DOMAIN names[r] \in SUBSET Nat /\ IsFiniteSet(DOMAIN names[r])
       /\ names[r] \in [DOMAIN names[r] -> Digests]
  /\ attached \subseteq Pairs
  /\ repositories \in Configurations
  /\ phase \in {"catalog", "tags", "resolve", "referrers", "fallback", "ok", "error"}
  /\ phase \in {"tags", "resolve", "referrers", "fallback"} => todo # <<>>
  /\ phase \in {"resolve", "referrers", "fallback"} => Head(todo) \in Repositories
  /\ phase = "resolve" => tags # <<>>
  /\ phase = "fallback" => subject \in unasked
  /\ bearer \in {"fresh", "challenged", "authorised"}
  /\ todo \in Seq(Nat)
  /\ page \in SUBSET Nat /\ IsFiniteSet(page)
  /\ tags \in Seq(Nat)
  /\ DOMAIN byDigest \subseteq Digests
  /\ byDigest \in [DOMAIN byDigest -> SUBSET Nat]
  /\ unasked \subseteq DOMAIN byDigest
  /\ subject \in {0} \cup DOMAIN byDigest
  /\ referred \subseteq DOMAIN byDigest
  /\ artifacts \in Seq(Artifact)
  /\ writes \in 0..MaxWrites
  /\ steady \subseteq everNamed
  /\ guarded \subseteq Pairs

-----------------------------------------------------------------------------
(* The other clients of the registry (external).                           *)

\* What a write leaves unchanged, and what it means for the histories.
Written ==
  /\ writes < MaxWrites
  /\ writes' = writes + 1
  /\ steady' = steady \cap Naming(names')
  /\ everNamed' = everNamed \cup Naming(names')
  /\ guarded' = guarded \cap HasReferrer(names', attached')
  /\ UNCHANGED <<api, repositories, phase, bearer, todo, page, current, artifacts>>

PushTag(p) ==
  /\ names' = [names EXCEPT ![p[1]] = [t \in DOMAIN @ \cup {p[2]} |->
                 IF t = p[2] THEN p[3] ELSE names[p[1]][t]]]
  /\ UNCHANGED attached
  /\ Written

\* A tag is deleted, or a manifest with all its tags.
Untag(r, gone) ==
  /\ gone # {}
  /\ names' = [names EXCEPT ![r] = [t \in DOMAIN @ \ gone |-> @[t]]]
  /\ UNCHANGED attached
  /\ Written

Attach(p) ==
  /\ api
  /\ attached' = IF p \in attached THEN attached \ {p} ELSE attached \cup {p}
  /\ UNCHANGED names
  /\ Written

Write ==
  \/ \E p \in Pushes : PushTag(p)
  \/ \E r \in Repositories :
       \/ \E t \in DOMAIN names[r] : Untag(r, {t})
       \/ \E d \in Digests : Untag(r, {t \in DOMAIN names[r] : names[r][t] = d})
  \/ \E p \in Pairs : Attach(p)

-----------------------------------------------------------------------------
(* One request: do and bearerToken.                                        *)

MatchRepository(r) ==
  /\ Includes = {} \/ \E p \in Includes : r \in p
  /\ \A p \in Excludes : r \notin p

\* The next step of List is a request.
Requesting ==
  \/ phase \in {"catalog", "resolve", "referrers", "fallback"}
  \/ phase = "tags" /\ MatchRepository(Head(todo))

\* Mutant: a challenge is followed however often it comes.
ChallengeAgain ==
  /\ Requesting
  /\ bearer # "challenged"
  /\ bearer' = "challenged"
  /\ UNCHANGED <<world, repositories, phase, todo, page, current, artifacts, histories>>

\* The registry answers 401 with a bearer challenge; the answer to the request
\* that is sent with the token is final.
Challenge ==
  /\ Requesting
  /\ bearer = "fresh"
  /\ bearer' = "challenged"
  /\ UNCHANGED <<world, repositories, phase, todo, page, current, artifacts, histories>>

\* The token service issues a token, which serves one request.
Token ==
  /\ Requesting
  /\ bearer = "challenged"
  /\ bearer' = "authorised"
  /\ UNCHANGED <<world, repositories, phase, todo, page, current, artifacts, histories>>

\* The answer to the current request, if it is a step of List.
Answered(at) ==
  /\ phase = at
  /\ bearer # "challenged"
  /\ bearer' = "fresh"
  /\ UNCHANGED <<world, repositories, histories>>

\* Any other outcome ends List without artifacts: no token, a 404 for a tag or
\* a repository that has disappeared, another status, an answer without digest
\* or with something else than an index.
Fail ==
  /\ Requesting
  /\ phase' = "error"
  /\ bearer' = "fresh"
  /\ artifacts' = <<>>
  /\ UNCHANGED <<world, repositories, todo, page, current, histories>>

-----------------------------------------------------------------------------
(* The catalog and the tags.                                               *)

Rank(x, s) == Cardinality({y \in s : y < x})

\* A page after the last entry the client has seen (last=...), and whether a
\* Link header names another one.
After(s) == {x \in s : \A y \in page : x > y}

PageOf(s) == {x \in After(s) : Rank(x, After(s)) < PageSize}

HasNext(s) == Cardinality(After(s)) > PageSize

NoTags == [d \in {} |-> {}]

\* sort.Strings, and the order of the pages.
Ascending(s) == [i \in 1..Cardinality(s) |-> CHOOSE x \in s : Rank(x, s) = i - 1]

\* Mutant: byDigest is made once, outside listRepository.
BeginKeeping(rest) ==
  /\ todo' = rest
  /\ phase' = IF rest = <<>> THEN "ok" ELSE "tags"
  /\ page' = {}
  /\ tags' = <<>>
  /\ UNCHANGED byDigest
  /\ unasked' = {}
  /\ subject' = 0
  /\ referred' = {}

\* List starts with the tags of the next repository, or is done.
Begin(rest) ==
  /\ todo' = rest
  /\ phase' = IF rest = <<>> THEN "ok" ELSE "tags"
  /\ page' = {}
  /\ tags' = <<>>
  /\ byDigest' = NoTags
  /\ unasked' = {}
  /\ subject' = 0
  /\ referred' = {}

ListInit ==
  /\ api \in BOOLEAN
  /\ names = Stored
  /\ attached = IF api THEN Attached ELSE {}
  /\ repositories \in Configurations
  /\ todo = repositories
  /\ phase = IF repositories = <<>> THEN "catalog" ELSE "tags"
  /\ bearer = "fresh"
  /\ page = {}
  /\ tags = <<>>
  /\ byDigest = NoTags
  /\ unasked = {}
  /\ subject = 0
  /\ referred = {}
  /\ artifacts = <<>>
  /\ writes = 0
  /\ steady = Naming(names)
  /\ everNamed = Naming(names)
  /\ guarded = HasReferrer(names, attached)

CatalogPage ==
  /\ Answered("catalog")
  /\ IF HasNext(Repositories)
     THEN page' = page \cup PageOf(Repositories) /\ UNCHANGED <<phase, todo, current>>
     ELSE Begin(Ascending(page \cup PageOf(Repositories)))
  /\ UNCHANGED artifacts

\* A repository that is not selected.
Skip ==
  /\ phase = "tags"
  /\ ~MatchRepository(Head(todo))
  /\ Begin(Tail(todo))
  /\ UNCHANGED <<world, repositories, bearer, artifacts, histories>>

\* The digests have been resolved; their referrers come next.
Gathered(found) ==
  /\ byDigest' = found
  /\ unasked' = DOMAIN found
  /\ phase' = "referrers"

TagsPage ==
  LET here == Head(todo)
      shown == page \cup PageOf(DOMAIN names[here])
  IN
  /\ Answered("tags")
  /\ MatchRepository(here)
  /\ here \in Repositories
  /\ IF HasNext(DOMAIN names[here])
     THEN page' = shown /\ UNCHANGED <<phase, todo, current>>
     ELSE IF shown = {} THEN Begin(Tail(todo))
     ELSE /\ phase' = "resolve"
          /\ page' = {}
          /\ tags' = Ascending(shown)
          /\ UNCHANGED <<todo, byDigest, unasked, subject, referred>>
  /\ UNCHANGED artifacts

\* Mutant: of the tags that name one manifest only the first is kept.
WithFirst(found, d, t) ==
  [x \in DOMAIN found \cup {d} |-> IF x \in DOMAIN found THEN found[x] ELSE {t}]

With(found, d, t) ==
  [x \in DOMAIN found \cup {d} |->
     (IF x \in DOMAIN found THEN found[x] ELSE {}) \cup (IF x = d THEN {t} ELSE {})]

\* A HEAD of the next tag.
Resolve ==
  LET here == Head(todo)
      tag == Head(tags)
  IN
  /\ Answered("resolve")
  /\ tag \in DOMAIN names[here]
  /\ LET found == With(byDigest, names[here][tag], tag)
     IN IF Len(tags) = 1 THEN Gathered(found)
        ELSE byDigest' = found /\ UNCHANGED <<phase, unasked>>
  /\ tags' = Tail(tags)
  /\ UNCHANGED <<todo, page, subject, referred, artifacts>>

-----------------------------------------------------------------------------
(* The referrers.                                                          *)

\* The artifacts of the repository, sorted by digest.
Found(r, withReferrer) ==
  [i \in 1..Cardinality(DOMAIN byDigest) |->
     LET d == Ascending(DOMAIN byDigest)[i]
     IN  [repository |-> r, digest |-> d, tags |-> byDigest[d], referrers |-> d \in withReferrer]]

\* The referrers of d are known, in whatever order byDigest is ranged over.
Asked(d, has) ==
  LET known == referred \cup (IF has THEN {d} ELSE {})
  IN  IF unasked = {d}
      THEN /\ artifacts' = artifacts \o Found(Head(todo), known)
           /\ Begin(Tail(todo))
      ELSE /\ unasked' = unasked \ {d}
           /\ referred' = known
           /\ subject' = 0
           /\ phase' = "referrers"
           /\ UNCHANGED <<todo, page, tags, byDigest, artifacts>>

\* The referrers API answers with an index.
Referrers(d) ==
  /\ Answered("referrers")
  /\ d \in unasked
  /\ api
  /\ Asked(d, <<Head(todo), d>> \in attached)

\* Mutant: without the API there are no referrers.
NoReferrersApi(d) ==
  /\ Answered("referrers")
  /\ d \in unasked
  /\ ~api
  /\ Asked(d, FALSE)

\* It answers 404, because there is no such API or, so it may be, no referrer:
\* referrersByTag is next, for the same digest.
NoReferrers(d) ==
  /\ Answered("referrers")
  /\ d \in unasked
  /\ ~api \/ <<Head(todo), d>> \notin attached
  /\ phase' = "fallback"
  /\ subject' = d
  /\ UNCHANGED <<todo, page, tags, byDigest, unasked, referred, artifacts>>

\* The tag of the referrers names an index, or answers 404.
ReferrersByTag ==
  LET here == names[Head(todo)]
      tag == ReferrersTag(subject)
  IN
  /\ Answered("fallback")
  /\ tag \in DOMAIN here => Kinds[here[tag]] # "manifest"
  /\ Asked(subject, tag \in DOMAIN here /\ Kinds[here[tag]] = "index")

ListReferrers == (\E d \in Digests : Referrers(d) \/ NoReferrers(d)) \/ ReferrersByTag

-----------------------------------------------------------------------------

List == Challenge \/ Token \/ CatalogPage \/ Skip \/ TagsPage \/ Resolve \/ ListReferrers \/ Fail

ListNext == Write \/ List

ListSpec == ListInit /\ [][ListNext]_listVars

\* Every request ends: it is answered, or its timeout makes it fail.
ListFairSpec == ListSpec /\ WF_listVars(List)

-----------------------------------------------------------------------------
(* Properties.                                                             *)

Asking(r) ==
  MatchRepository(r) /\ (repositories = <<>> \/ \E i \in DOMAIN repositories : repositories[i] = r)

Listed(p) ==
  \E i \in DOMAIN artifacts :
    /\ artifacts[i].repository = p[1]
    /\ artifacts[i].digest = p[3]
    /\ p[2] \in artifacts[i].tags

\* However tags are pushed, moved and deleted between the requests, a List that
\* succeeds has every tag of a selected repository that has named the same
\* manifest all the time.
CompleteSteady ==
  phase = "ok" => \A p \in steady : Asking(p[1]) => Listed(p)

\* What is listed was so: each tag named that manifest at some moment of the
\* call.  A repository that is configured once has each tag once, and its
\* artifacts ascend by digest, as Policy!DateOrder needs.
Truthful ==
  \A i, j \in DOMAIN artifacts :
    LET a == artifacts[i]
        b == artifacts[j]
    IN  /\ \A t \in a.tags : <<a.repository, t, a.digest>> \in everNamed
        /\ IsInjective(repositories) /\ a.repository = b.repository /\ i < j =>
             a.digest < b.digest /\ a.tags \cap b.tags = {}

\* A manifest that has had a referrer all the time, be it known to the API or
\* kept under a tag, is listed with it, and so protected by the policy.
ReferrersProtect ==
  \A i \in DOMAIN artifacts :
    <<artifacts[i].repository, artifacts[i].digest>> \in guarded => artifacts[i].referrers

\* List ends, although the registry challenges whatever it is asked.
Ends == <>(phase \in {"ok", "error"})
=============================================================================
