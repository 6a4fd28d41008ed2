----------------------------- MODULE GithubList -----------------------------
(***************************************************************************)
(* List of the GitHub provider (internal/provider/github/github.go): the   *)
(* packages of the owner, page by page, and then the versions of each      *)
(* selected package, page by page, while other clients push and delete.    *)
(*                                                                         *)
(* A page is a window of the list as it is when the request is served, so  *)
(* a write between two pages shifts what the next one shows.  The newest   *)
(* entry comes first.  Retries of do are part of the request.              *)
(*                                                                         *)
(* No name here is one of GithubApply's, so that GithubProofs can speak of *)
(* both operations of the provider.                                        *)
(***************************************************************************)
EXTENDS Naturals, Sequences, FiniteSets, SequencesExt, Functions

CONSTANTS
  Packages,     \* the packages that may exist
  Selected,     \* those that policy.MatchRepository selects for the target
  Site,         \* the packages of the owner when List starts, newest first
  Stored,       \* the versions of each package then, newest first
  PerPage,      \* per_page, 100
  MaxWrites     \* bound: writes by other clients

Versions == Nat

\* GitHub never gives an ID twice: those of the versions that are pushed during
\* the call start here.
FirstPushed == 100

ASSUME ListAssumption ==
  /\ Selected \subseteq Packages
  /\ Site \in Seq(Packages) /\ IsInjective(Site)
  /\ Stored \in [Packages -> Seq(Versions)]
  /\ \A p \in Packages :
       IsInjective(Stored[p]) /\ \A v \in Range(Stored[p]) : v < FirstPushed
  /\ PerPage \in Nat \ {0}
  /\ MaxWrites \in Nat

VARIABLES
  site,         \* the registry: the packages of the owner
  stored,       \* the registry: the versions of each package
  names,        \* the names the pages of packages have shown so far
  todo,         \* the packages List has not gone through yet
  phase,        \* "packages", "versions", "ok" or "error"
  page,         \* the page that is requested next
  artifacts,    \* the versions listed so far
  writes,       \* history: the number of writes of each kind
  steady        \* history: the <<package, version>> pairs there all the time

registry == <<site, stored>>
listing  == <<names, todo, phase, page, artifacts>>
listVars == <<registry, listing, writes, steady>>

Pairs == Packages \X Versions
Kinds == {"push", "create", "delete"}

ListTypeOK ==
  /\ site \in Seq(Packages)
  /\ stored \in [Packages -> Seq(Versions)]
  /\ names \in Seq(Packages)
  /\ todo \in Seq(Packages)
  /\ phase \in {"packages", "versions", "ok", "error"}
  /\ phase = "versions" => todo # <<>>
  /\ page \in Nat \ {0}
  /\ artifacts \in Seq(Pairs)
  /\ writes \in [Kinds -> 0..MaxWrites]
  /\ steady \subseteq Pairs

ListInit ==
  /\ site = Site
  /\ stored = Stored
  /\ names = <<>>
  /\ todo = <<>>
  /\ phase = "packages"
  /\ page = 1
  /\ artifacts = <<>>
  /\ writes = [k \in Kinds |-> 0]
  /\ steady = UNION {{p} \X Range(Stored[p]) : p \in Range(Site)}

-----------------------------------------------------------------------------
(* The other clients (external).                                           *)

Counted(kind) ==
  /\ writes["push"] + writes["create"] + writes["delete"] < MaxWrites
  /\ writes' = [writes EXCEPT ![kind] = @ + 1]

Push(p) ==
  /\ Counted("push")
  /\ p \in Range(site)
  /\ stored' = [stored EXCEPT ![p] = <<FirstPushed + writes["push"]>> \o @]
  /\ UNCHANGED <<site, listing, steady>>

Create(p) ==
  /\ Counted("create")
  /\ p \notin Range(site)
  /\ site' = <<p>> \o site
  /\ UNCHANGED <<stored, listing, steady>>

DeleteVersion(p, i) ==
  /\ Counted("delete")
  /\ p \in Range(site)
  /\ stored' = [stored EXCEPT ![p] = RemoveAt(@, i)]
  /\ steady' = steady \ {<<p, stored[p][i]>>}
  /\ UNCHANGED <<site, listing>>

DeletePackage(i) ==
  /\ Counted("delete")
  /\ site' = RemoveAt(site, i)
  /\ stored' = [stored EXCEPT ![site[i]] = <<>>]
  /\ steady' = {s \in steady : s[1] # site[i]}
  /\ UNCHANGED listing

OtherClients ==
  \/ \E p \in Packages : Push(p) \/ Create(p)
  \/ \E p \in Packages : \E i \in DOMAIN stored[p] : DeleteVersion(p, i)
  \/ \E i \in DOMAIN site : DeletePackage(i)

-----------------------------------------------------------------------------
(* The client.                                                             *)

\* How many entries the pages before this one have shown.
Shown == (page - 1) * PerPage

Window(list) ==
  SubSeq(list, Shown + 1, IF Shown + PerPage < Len(list) THEN Shown + PerPage ELSE Len(list))

\* The Link header names a next page.
HasNext(list) == Shown + PerPage < Len(list)

Quiet == UNCHANGED <<registry, writes, steady>>

\* List goes on with the packages in rest, or is done.
GoOn(rest) ==
  /\ todo' = rest
  /\ page' = 1
  /\ phase' = IF rest = <<>> THEN "ok" ELSE "versions"

\* A page of packages.
PackagesPage ==
  /\ phase = "packages"
  /\ names' = names \o Window(site)
  /\ IF HasNext(site) THEN page' = page + 1 /\ UNCHANGED <<phase, todo>>
                      ELSE GoOn(names')
  /\ UNCHANGED artifacts
  /\ Quiet

\* A package that is not selected.
Skip ==
  /\ phase = "versions"
  /\ Head(todo) \notin Selected
  /\ GoOn(Tail(todo))
  /\ UNCHANGED <<names, artifacts>>
  /\ Quiet

Listing(p, window) == [i \in DOMAIN window |-> <<p, window[i]>>]

\* Mutant: a page whose body breaks off is kept and asked for again.
VersionsPageAgain ==
  LET p == Head(todo) IN
  /\ phase = "versions"
  /\ p \in Selected \cap Range(site)
  /\ artifacts' = artifacts \o Listing(p, Window(stored[p]))
  /\ \/ UNCHANGED <<page, phase, todo>>
     \/ IF HasNext(stored[p]) THEN page' = page + 1 /\ UNCHANGED <<phase, todo>>
                              ELSE GoOn(Tail(todo))
  /\ UNCHANGED names
  /\ Quiet

\* A page of the versions of the first package in todo, all appended.
VersionsPage ==
  LET p == Head(todo) IN
  /\ phase = "versions"
  /\ p \in Selected \cap Range(site)
  /\ artifacts' = artifacts \o Listing(p, Window(stored[p]))
  /\ IF HasNext(stored[p]) THEN page' = page + 1 /\ UNCHANGED <<phase, todo>>
                           ELSE GoOn(Tail(todo))
  /\ UNCHANGED names
  /\ Quiet

\* The next step of List is a request.
Requesting ==
  \/ phase = "packages"
  \/ phase = "versions" /\ Head(todo) \in Selected

\* Mutant: a request that fails ends the pages and List goes on.
FailQuietly ==
  /\ Requesting
  /\ GoOn(IF phase = "packages" THEN names ELSE Tail(todo))
  /\ UNCHANGED <<names, artifacts>>
  /\ Quiet

\* A request fails for good, among others with 404 for a package that has
\* disappeared: List returns the error and no artifacts.
FailList ==
  /\ Requesting
  /\ phase' = "error"
  /\ artifacts' = <<>>
  /\ UNCHANGED <<names, todo, page>>
  /\ Quiet

List == PackagesPage \/ Skip \/ VersionsPage \/ FailList

ListNext == OtherClients \/ List

ListSpec == ListInit /\ [][ListNext]_listVars

-----------------------------------------------------------------------------
(* Properties.                                                             *)

SteadySelected == {s \in steady : s[1] \in Selected}

\* Pushes and new packages hide nothing: what they shift to a later page is
\* still to come.  Without deletions, a successful List contains every version
\* of a selected package that was there all the time; an error is never taken
\* for the end of the list.
CompleteWithoutDeletes ==
  phase = "ok" /\ writes["delete"] = 0 => SteadySelected \subseteq Range(artifacts)

\* An entry is listed again only because a push shifted it over the end of a
\* page: there are no more repeated entries than pushes, as long as the list
\* of packages does not move.
RepeatsBounded ==
  writes["create"] = 0 =>
    Len(artifacts) <= Cardinality(Range(artifacts)) + writes["push"]
=============================================================================
