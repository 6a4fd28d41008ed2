---------------------------- MODULE MCGithubList ----------------------------
(* A small instance of GithubList: three packages, one of them not selected *)
(* and one not created yet, and pages of two entries.                       *)
EXTENDS GithubList

CONSTANTS p1, p2, p3, p4

AllPackages == {p1, p2, p3, p4}
Chosen      == {p1, p2, p4}
TheSite     == <<p3, p1, p2>>
TheVersions == (p1 :> <<5, 4, 3, 2, 1>>) @@ (p2 :> <<6>>) @@ (p3 :> <<7>>) @@ (p4 :> <<>>)
=============================================================================
