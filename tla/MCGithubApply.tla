---------------------------- MODULE MCGithubApply ---------------------------
(* Small instances of GithubApply for TLC.                                  *)
EXTENDS GithubApply

CONSTANTS w1, w2

TwoWorkers == {w1, w2}
OneAction  == {1}
=============================================================================
