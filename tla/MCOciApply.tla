----------------------------- MODULE MCOciApply -----------------------------
(* Small instances of OciApply for TLC.                                    *)
EXTENDS OciApply, TLC

CONSTANTS w1, w2, t1, t2, t3

OneWorker  == {w1}
TwoWorkers == {w1, w2}
ThreeTags  == {t1, t2, t3}

\* Action 1 carries two tags, action 2 one.
TwoActions  == {1, 2}
PlannedTags == <<{t1, t2}, {t3}>>
FirstTags   == <<t1, t3>>

\* A manifest pushed after the plan was made.
Pushed == {9}
=============================================================================
