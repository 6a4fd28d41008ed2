------------------------------- MODULE MCApply ------------------------------
(* Small instances of Apply for TLC.                                       *)
EXTENDS Apply

CONSTANTS w1, w2

TwoWorkers == {w1, w2}

\* The registry of the third action of the plan has no provider.
AllButThird == (1..Count) \ {3}
=============================================================================
