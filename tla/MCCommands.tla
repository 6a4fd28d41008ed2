----------------------------- MODULE MCCommands -----------------------------
(* Two processes, each with any of the three commands.                      *)
EXTENDS Commands, TLC

CONSTANTS p1, p2, c1, c2

TwoProcs == {p1, p2}

TwoConfigs == {c1, c2}
JustC1     == {c1}

Interchangeable == Permutations(TwoProcs)
=============================================================================
