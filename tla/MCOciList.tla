----------------------------- MODULE MCOciList -----------------------------
(* A small instance of OciList: one manifest in two repositories, under two *)
(* tags in one of them, with a signature kept by tag.                       *)
EXTENDS OciList, TLC

\* Digest 3 is an index of referrers, 4 an empty one.
AllKinds == 1 :> "manifest" @@ 2 :> "manifest" @@ 3 :> "index" @@ 4 :> "empty"

TheRegistry ==
  1 :> (1 :> 1 @@ 2 :> 1 @@ ReferrersTag(1) :> 3)
  @@ 2 :> (1 :> 1 @@ 3 :> 2)
  @@ 3 :> (1 :> 2)

TheReferrers == {<<1, 1>>}

\* A tag moved, created, and the signatures of a manifest replaced.
ThePushes ==
  {<<1, 1, 2>>, <<1, 3, 2>>, <<2, 3, 1>>, <<1, ReferrersTag(1), 4>>, <<2, ReferrersTag(1), 3>>, <<2, ReferrersTag(2), 1>>}

\* The catalog, a repository that is not there, and one configured twice.
AllConfigurations == {<<>>, <<2, 1>>, <<2, 4>>, <<2, 2>>}

TheIncludes == {{1, 3}, {2}}
TheExcludes == {{3}}
=============================================================================
