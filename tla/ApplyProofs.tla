----------------------------- MODULE ApplyProofs ----------------------------
(***************************************************************************)
(* Theorems about Apply for every plan length, every set of workers and    *)
(* every subset of configured actions: typing, the ownership discipline,   *)
(* the order in which channels close, the tally, and that Apply implements *)
(* Settlement.  The inductive invariant is Inv.                            *)
(***************************************************************************)
EXTENDS Apply, FiniteSetTheorems, TLAPS

\* What holds before Apply returns, and before it starts.
MainErr ==
  /\ main # "returned" => err = "nil"
  /\ main = "checking" => fed = 0

Inv == TypeOK /\ MainErr /\ Ownership /\ CloseOrder /\ Tally

-----------------------------------------------------------------------------
(* Sets of actions.                                                        *)

LEMMA ActionsFinite == IsFiniteSet(Actions) /\ Cardinality(Actions) = Count
BY FS_Interval, ApplyAssumption, SMT DEF Actions

LEMMA RecordedFinite ==
  ASSUME NEW s
  PROVE  IsFiniteSet(Recorded(s)) /\ Cardinality(Recorded(s)) \in Nat
BY ActionsFinite, FS_Subset, FS_CardinalityType DEF Recorded

\* Three disjoint sets that cover the plan have Count elements between them.
LEMMA ThreeWaySplit ==
  ASSUME NEW D, NEW K, NEW F,
         D \cup K \cup F = Actions,
         D \cap K = {}, D \cap F = {}, K \cap F = {}
  PROVE  /\ Cardinality(D) \in Nat /\ Cardinality(K) \in Nat /\ Cardinality(F) \in Nat
         /\ Cardinality(D) + Cardinality(K) + Cardinality(F) = Count
<1>1. IsFiniteSet(D) /\ IsFiniteSet(K) /\ IsFiniteSet(F)
  <2>1. D \subseteq Actions /\ K \subseteq Actions /\ F \subseteq Actions
    OBVIOUS
  <2>2. QED BY <2>1, ActionsFinite, FS_Subset
<1>2. /\ Cardinality(D) \in Nat /\ Cardinality(K) \in Nat /\ Cardinality(F) \in Nat
  BY <1>1, FS_CardinalityType
<1>3. IsFiniteSet(D \cup K) /\ Cardinality(D \cup K) = Cardinality(D) + Cardinality(K)
  <2>1. /\ IsFiniteSet(D \cup K)
        /\ Cardinality(D \cup K)
             = Cardinality(D) + Cardinality(K) - Cardinality(D \cap K)
    BY <1>1, FS_Union
  <2>2. Cardinality(D \cap K) = 0
    BY FS_EmptySet
  <2>3. QED BY <1>2, <2>1, <2>2
<1>4. Cardinality(Actions) = Cardinality(D \cup K) + Cardinality(F)
  <2>1. /\ Cardinality((D \cup K) \cup F)
             = Cardinality(D \cup K) + Cardinality(F) - Cardinality((D \cup K) \cap F)
    BY <1>1, <1>3, FS_Union
  <2>2. (D \cup K) \cap F = {}
    OBVIOUS
  <2>3. Cardinality((D \cup K) \cap F) = 0
    BY <2>2, FS_EmptySet
  <2>4. Cardinality((D \cup K) \cup F) = Cardinality(Actions)
    <3>1. (D \cup K) \cup F = Actions
      OBVIOUS
    <3>2. QED BY <3>1
  <2>5. Cardinality(D \cup K) \in Nat
    BY <1>3, FS_CardinalityType
  <2>6. QED BY <1>2, <2>1, <2>3, <2>4, <2>5, SMT
<1>5. QED BY <1>2, <1>3, <1>4, ActionsFinite

\* Recording the status s of an action that had none adds it to the actions
\* recorded with s and to no others.
LEMMA RecordOne ==
  ASSUME NEW r \in [Actions -> Statuses \cup {"none"}], NEW a \in Actions,
         r[a] = "none", NEW s \in Statuses, NEW t \in Statuses
  PROVE  LET before == {b \in Actions : r[b] = t}
             after  == {b \in Actions : [r EXCEPT ![a] = s][b] = t}
         IN  Cardinality(after) = Cardinality(before) + (IF s = t THEN 1 ELSE 0)
<1> DEFINE before == {b \in Actions : r[b] = t}
           after  == {b \in Actions : [r EXCEPT ![a] = s][b] = t}
<1>0. IsFiniteSet(before) /\ Cardinality(before) \in Nat
  BY ActionsFinite, FS_Subset, FS_CardinalityType
<1>1. CASE s = t
  <2>1. after = before \cup {a} /\ a \notin before
    BY <1>1 DEF Statuses
  <2>2. Cardinality(after) = Cardinality(before) + 1
    BY <2>1, <1>0, FS_AddElement
  <2>3. QED BY <1>1, <2>2
<1>2. CASE s # t
  <2>1. after = before
    BY <1>2 DEF Statuses
  <2>2. QED BY <1>0, <1>2, <2>1
<1>3. QED BY <1>1, <1>2

-----------------------------------------------------------------------------
(* The inductive invariant.                                                *)

\* The counters of an apply that is still collecting leave room for the
\* actions it has not seen.
LEMMA CountedWithinPlan ==
  ASSUME TypeOK, Tally
  PROVE  result.deleted + result.failed <= Count
<1> DEFINE rest == Actions \ (Recorded("deleted") \cup Recorded("failed"))
<1>1. /\ Recorded("deleted") \cup rest \cup Recorded("failed") = Actions
      /\ Recorded("deleted") \cap rest = {}
      /\ Recorded("deleted") \cap Recorded("failed") = {}
      /\ rest \cap Recorded("failed") = {}
  BY DEF Recorded
<1> HIDE DEF rest
<1>2. /\ Cardinality(rest) \in Nat
      /\ Cardinality(Recorded("deleted")) + Cardinality(rest)
           + Cardinality(Recorded("failed")) = Count
  BY <1>1, ThreeWaySplit
<1>3. QED BY <1>2, RecordedFinite DEF Tally

LEMMA InitInv == Init => Inv
<1> SUFFICES ASSUME Init PROVE Inv
  OBVIOUS
<1> USE ApplyAssumption
<1>1. TypeOK
  <2>1. recorded \in [Actions -> Statuses \cup {"none"}]
    BY DEF Init
  <2>2. status \in [Workers -> Statuses \cup {"precondition", "unconfigured"}]
    BY DEF Init, Statuses
  <2>3. result \in [deleted : Nat, skipped : Nat, failed : Nat]
    BY DEF Init
  <2>4. held \in [Workers -> 0..Count] /\ fed \in 0..Count
    BY DEF Init
  <2>5. QED BY <2>1, <2>2, <2>3, <2>4 DEF Init, TypeOK
<1>2. MainErr /\ CloseOrder
  BY DEF Init, MainErr, CloseOrder
<1>3. Ownership
  BY DEF Init, Ownership, Busy, Actions
<1>4. Tally
  <2>1. ASSUME NEW s \in Statuses PROVE Cardinality(Recorded(s)) = 0
    <3>1. Recorded(s) = {}
      BY DEF Init, Recorded, Statuses
    <3>2. QED BY <3>1, FS_EmptySet
  <2>2. QED BY <2>1 DEF Init, Tally, Statuses
<1>5. QED BY <1>1, <1>2, <1>3, <1>4 DEF Inv

\* A step that changes nothing the collector keeps preserves the tally.
LEMMA TallyKept ==
  ASSUME Tally, MainErr, UNCHANGED <<recorded, result, main, err>>,
         fed' = fed \/ main # "checking"
  PROVE  Tally' /\ MainErr'
<1>1. \A s : Recorded(s)' = Recorded(s)
  BY DEF Recorded
<1>2. QED BY <1>1 DEF Tally, MainErr

LEMMA StepInv == Inv /\ [Next]_vars => Inv'
<1> SUFFICES ASSUME Inv, [Next]_vars PROVE Inv'
  OBVIOUS
<1> USE ApplyAssumption DEF Inv
<1>1. CASE UNCHANGED vars
  <2>1. TypeOK' /\ Ownership' /\ CloseOrder'
    BY <1>1 DEF TypeOK, Ownership, CloseOrder, Busy, vars, pool, collected
  <2>2. Tally' /\ MainErr'
    BY <1>1, TallyKept DEF vars, pool, collected
  <2>3. QED BY <2>1, <2>2
<1>2. ASSUME NEW fresh \in BOOLEAN, Start(fresh) PROVE Inv'
  <2>1. TypeOK' /\ MainErr' /\ Ownership' /\ CloseOrder'
    BY <1>2 DEF Start, TypeOK, MainErr, Ownership, CloseOrder, Busy, pool
  <2>2. \A s : Recorded(s)' = Recorded(s)
    BY <1>2 DEF Start, Recorded
  <2>3. Tally'
    BY <1>2, <2>2 DEF Start, Tally, MainErr
  <2>4. QED BY <2>1, <2>3
<1>3. CASE ParentDone
  <2>1. TypeOK' /\ Ownership' /\ CloseOrder'
    BY <1>3 DEF ParentDone, TypeOK, Ownership, CloseOrder, Busy, pool, collected
  <2>2. Tally' /\ MainErr'
    BY <1>3, TallyKept DEF ParentDone, pool, collected
  <2>3. QED BY <2>1, <2>2
<1>4. ASSUME NEW w \in Workers, Feed(w) PROVE Inv'
  <2>1. TypeOK'
    BY <1>4 DEF Feed, TypeOK, collected
  <2>2. fed + 1 \in Actions /\ recorded[fed + 1] = "none"
    BY <1>4 DEF Feed, TypeOK, Ownership, Actions
  <2>3. Ownership'
    BY <1>4, <2>2 DEF Feed, TypeOK, Ownership, Busy, Actions, collected
  <2>4. CloseOrder'
    BY <1>4 DEF Feed, TypeOK, CloseOrder, collected
  <2>5. Tally' /\ MainErr'
    BY <1>4, TallyKept DEF Feed, collected
  <2>6. QED BY <2>1, <2>3, <2>4, <2>5
<1>5. CASE FeederExit
  <2>1. TypeOK' /\ Ownership' /\ CloseOrder'
    BY <1>5 DEF FeederExit, TypeOK, Ownership, CloseOrder, Busy, collected
  <2>2. Tally' /\ MainErr'
    BY <1>5, TallyKept DEF FeederExit, collected
  <2>3. QED BY <2>1, <2>2
<1>6. ASSUME NEW w \in Workers, NEW e \in DeleteErrors, Return(w, e) PROVE Inv'
  <2>1. TypeOK'
    BY <1>6 DEF Return, StatusOf, TypeOK, Statuses, collected
  <2>2. Ownership' /\ CloseOrder'
    BY <1>6 DEF Return, TypeOK, Ownership, CloseOrder, Busy, collected
  <2>3. Tally' /\ MainErr'
    BY <1>6, TallyKept DEF Return, collected
  <2>4. QED BY <2>1, <2>2, <2>3
<1>7. ASSUME NEW w \in Workers, Unconfigured(w) PROVE Inv'
  <2>1. TypeOK' /\ Ownership' /\ CloseOrder'
    BY <1>7 DEF Unconfigured, TypeOK, Ownership, CloseOrder, Busy, collected
  <2>2. Tally' /\ MainErr'
    BY <1>7, TallyKept DEF Unconfigured, collected
  <2>3. QED BY <2>1, <2>2
<1>8. ASSUME NEW w \in Workers, Report(w) PROVE Inv'
  <2> DEFINE s == Reported(status[w])
             a == held[w]
  <2>1. s \in Statuses /\ a \in Actions /\ recorded[a] = "none"
    BY <1>8 DEF Report, TypeOK, Ownership, Busy, Reported, Cancels, Statuses, Actions
  <2>2. /\ recorded' = [recorded EXCEPT ![a] = s]
        /\ result' = [result EXCEPT ![s] = @ + 1]
        /\ main = "collecting" /\ UNCHANGED <<ctx, fed, jobs, outcomes, held, status, main, err>>
        /\ pc' \in {[pc EXCEPT ![w] = "cancelling"], [pc EXCEPT ![w] = "idle"]}
        /\ pc[w] = "reporting"
    BY <1>8 DEF Report
  <2> HIDE DEF s, a
  <2>3. TypeOK'
    BY <2>1, <2>2 DEF TypeOK, Statuses
  <2>4. Ownership'
    <3>1. \A x \in Workers : Busy(x)' => Busy(x) /\ x # w
      BY <2>2 DEF Busy, TypeOK
    <3>2. \A x \in Workers : Busy(x) /\ x # w => held[x] # a /\ Busy(x)'
      BY <2>2 DEF Ownership, Busy, TypeOK, a
    <3>3. \A b \in Actions : b # a => recorded'[b] = recorded[b]
      BY <2>1, <2>2 DEF TypeOK
    <3>4. recorded'[a] # "none" /\ a <= fed
      BY <2>1, <2>2 DEF TypeOK, Ownership, Busy, Statuses, a, Actions
    <3>5. QED BY <2>1, <2>2, <3>1, <3>2, <3>3, <3>4 DEF Ownership, TypeOK, Actions, a
  <2>5. CloseOrder' /\ MainErr'
    BY <2>2 DEF CloseOrder, MainErr, TypeOK
  <2>6. Tally'
    <3>1. \A t \in Statuses : Cardinality(Recorded(t)')
                               = Cardinality(Recorded(t)) + (IF s = t THEN 1 ELSE 0)
      BY <2>1, <2>2, RecordOne DEF TypeOK, Recorded
    <3>2. QED BY <2>1, <2>2, <3>1 DEF Tally, TypeOK, Statuses
  <2>7. QED BY <2>3, <2>4, <2>5, <2>6
<1>9. ASSUME NEW w \in Workers, Cancel(w) PROVE Inv'
  <2>1. TypeOK' /\ Ownership' /\ CloseOrder'
    BY <1>9 DEF Cancel, TypeOK, Ownership, CloseOrder, Busy, collected
  <2>2. Tally' /\ MainErr'
    BY <1>9, TallyKept DEF Cancel, collected
  <2>3. QED BY <2>1, <2>2
<1>10. ASSUME NEW w \in Workers, Exit(w) PROVE Inv'
  <2>1. TypeOK' /\ Ownership' /\ CloseOrder'
    BY <1>10 DEF Exit, TypeOK, Ownership, CloseOrder, Busy, collected
  <2>2. Tally' /\ MainErr'
    BY <1>10, TallyKept DEF Exit, collected
  <2>3. QED BY <2>1, <2>2
<1>11. CASE CloseOutcomes
  <2>1. TypeOK' /\ Ownership' /\ CloseOrder'
    BY <1>11 DEF CloseOutcomes, TypeOK, Ownership, CloseOrder, Busy, collected
  <2>2. Tally' /\ MainErr'
    BY <1>11, TallyKept DEF CloseOutcomes, collected
  <2>3. QED BY <2>1, <2>2
<1>12. CASE Finish
  <2>1. result.deleted + result.failed <= Count
    BY <1>12, CountedWithinPlan DEF Finish
  <2>2. result' = [result EXCEPT !.skipped = Count - result.deleted - result.failed]
    BY <1>12, <2>1 DEF Finish, TypeOK
  <2>3. TypeOK'
    BY <1>12, <2>1, <2>2 DEF Finish, TypeOK, pool
  <2>4. Ownership' /\ CloseOrder' /\ MainErr'
    BY <1>12 DEF Finish, Ownership, CloseOrder, MainErr, Busy, pool
  <2>5. Tally'
    <3>1. \A t : Recorded(t)' = Recorded(t)
      BY <1>12 DEF Finish, Recorded
    <3>2. result.failed > 0 <=> Recorded("failed") # {}
      BY RecordedFinite, FS_EmptySet DEF Tally
    <3>3. QED BY <1>12, <2>2, <3>1, <3>2 DEF Finish, Tally, TypeOK
  <2>6. QED BY <2>3, <2>4, <2>5
<1>13. QED
  BY <1>1, <1>2, <1>3, <1>4, <1>5, <1>6, <1>7, <1>8, <1>9, <1>10, <1>11, <1>12
  DEF Next, Engine, Worker

-----------------------------------------------------------------------------
(* Theorems.                                                               *)

\* Every reachable state of an apply satisfies the inductive invariant.
THEOREM Invariance == Spec => []Inv
<1>1. Init => Inv
  BY InitInv
<1>2. Inv /\ [Next]_vars => Inv'
  BY StepInv
<1>3. QED BY <1>1, <1>2, PTL DEF Spec

\* Type correctness, in particular result.Skipped is never negative.
THEOREM TypeCorrect == Spec => []TypeOK
<1>1. Inv => TypeOK
  BY DEF Inv
<1>2. QED BY <1>1, Invariance, PTL

\* No action is held twice, none that was handed over is forgotten.
THEOREM OwnershipHolds == Spec => []Ownership
<1>1. Inv => Ownership
  BY DEF Inv
<1>2. QED BY <1>1, Invariance, PTL

\* The channels close in order and no goroutine outlives the call.
THEOREM CloseOrderHolds == Spec => []CloseOrder
<1>1. Inv => CloseOrder
  BY DEF Inv
<1>2. QED BY <1>1, Invariance, PTL

\* The counters count the outcomes.
THEOREM TallyHolds == Spec => []Tally
<1>1. Inv => Tally
  BY DEF Inv
<1>2. QED BY <1>1, Invariance, PTL

\* When Apply returns, the actions without an outcome are exactly those that
\* were never handed to a worker.
THEOREM NothingIsLost == Spec => []NothingLost
<1>1. Inv => NothingLost
  BY DEF Inv, NothingLost, CloseOrder, Ownership, Busy, Actions, TypeOK
<1>2. QED BY <1>1, Invariance, PTL

-----------------------------------------------------------------------------
(* Refinement.                                                             *)

\* Settlement counts with the same Cardinality.
LEMMA SameCardinality ==
  ASSUME NEW X
  PROVE  S!Cardinality(X) = Cardinality(X)
BY DEF S!Cardinality, Cardinality

LEMMA InitRefines == Init => S!Init
BY DEF Init, S!Init, AppliedVerdict, AppliedPhase, AppliedTally,
       S!Actions, S!NoTally, Actions

\* Before Start no action has been handed over, so none has an outcome.
LEMMA NothingBeforeStart ==
  ASSUME Inv, main = "checking"
  PROVE  \A a \in Actions : recorded[a] = "none"
BY DEF Inv, MainErr, Ownership, Actions

\* The caller's view does not change in a step that changes neither the
\* outcomes nor the calling goroutine.
LEMMA InvisibleStep ==
  ASSUME UNCHANGED collected
  PROVE  UNCHANGED S!settlementVars
BY DEF collected, S!settlementVars, AppliedVerdict, AppliedPhase, AppliedTally

LEMMA StepRefines == Inv /\ [Next]_vars => [S!Next]_S!settlementVars
<1> SUFFICES ASSUME Inv, [Next]_vars
             PROVE  S!Next \/ UNCHANGED S!settlementVars
  OBVIOUS
<1> USE ApplyAssumption DEF Inv
<1>1. ASSUME NEW fresh \in BOOLEAN, Start(fresh)
      PROVE  S!Next \/ UNCHANGED S!settlementVars
  <2>1. CASE fresh
    <3>1. AppliedPhase' = AppliedPhase /\ AppliedTally' = AppliedTally
      BY <1>1, <2>1 DEF Start, AppliedPhase, AppliedTally
    <3>2. AppliedVerdict' = AppliedVerdict
      BY <1>1, <2>1 DEF Start, AppliedVerdict
    <3>3. QED BY <3>1, <3>2 DEF S!settlementVars
  <2>2. CASE ~fresh
    <3>1. AppliedPhase = "open" /\ AppliedPhase' = "rejected"
      BY <1>1, <2>2 DEF Start, AppliedPhase
    <3>2. AppliedVerdict' = AppliedVerdict /\ AppliedTally' = AppliedTally
      BY <1>1, <2>2 DEF Start, AppliedVerdict, AppliedTally, AppliedPhase
    <3>3. \A a \in S!Actions : AppliedVerdict[a] = "pending"
      <4>1. \A a \in Actions : recorded[a] = "none"
        BY <1>1, NothingBeforeStart DEF Start
      <4>2. QED BY <1>1, <4>1 DEF Start, AppliedVerdict, S!Actions, Actions
    <3>4. S!Reject
      BY <3>1, <3>2, <3>3 DEF S!Reject
    <3>5. QED BY <3>4 DEF S!Next
  <2>3. QED BY <2>1, <2>2
<1>2. ASSUME NEW w \in Workers, Report(w) PROVE S!Next
  <2> DEFINE s == Reported(status[w])
             a == held[w]
  <2>1. s \in Statuses /\ a \in Actions /\ recorded[a] = "none"
    BY <1>2 DEF Report, TypeOK, Ownership, Busy, Reported, Cancels, Statuses, Actions
  <2>2. /\ recorded' = [recorded EXCEPT ![a] = s]
        /\ main = "collecting" /\ main' = main /\ err' = err
    BY <1>2 DEF Report
  <2> HIDE DEF s, a
  <2>3. AppliedPhase = "open" /\ UNCHANGED <<AppliedPhase, AppliedTally>>
    BY <2>2 DEF AppliedPhase, AppliedTally
  <2>4. AppliedVerdict[a] = "pending"
    BY <2>1, <2>2 DEF AppliedVerdict
  <2>5. AppliedVerdict' = [AppliedVerdict EXCEPT ![a] = s]
    BY <2>1, <2>2 DEF AppliedVerdict, TypeOK, Statuses
  <2>6. S!Settle(a, s)
    BY <2>3, <2>4, <2>5 DEF S!Settle
  <2>7. QED BY <2>1, <2>6 DEF S!Next, S!Actions, S!Verdicts, Actions, Statuses
<1>3. ASSUME Finish PROVE S!Next
  <2> DEFINE closed == S!SkipPending(AppliedVerdict)
             untouched == Actions \ (Recorded("deleted") \cup Recorded("failed"))
  <2>1. main = "collecting" /\ main' = "returned" /\ err' # "stale" /\ recorded' = recorded
    BY <1>3 DEF Finish
  <2>2. AppliedPhase = "open" /\ AppliedPhase' = "closed" /\ AppliedTally' = result'
    BY <2>1 DEF AppliedPhase, AppliedTally
  <2>3. AppliedVerdict' = closed
    BY <2>1 DEF AppliedVerdict, S!SkipPending, S!Actions, Actions, TypeOK, Statuses
  <2>4. /\ S!With(closed, "deleted") = Recorded("deleted")
        /\ S!With(closed, "failed") = Recorded("failed")
        /\ S!With(closed, "skipped") = untouched
    BY <2>1 DEF AppliedVerdict, S!SkipPending, S!With, S!Actions, Actions,
                Recorded, TypeOK, Statuses
  <2>5. result' = [deleted |-> Cardinality(Recorded("deleted")),
                   skipped |-> Cardinality(untouched),
                   failed  |-> Cardinality(Recorded("failed"))]
    <3>1. /\ Recorded("deleted") \cup untouched \cup Recorded("failed") = Actions
          /\ Recorded("deleted") \cap untouched = {}
          /\ Recorded("deleted") \cap Recorded("failed") = {}
          /\ untouched \cap Recorded("failed") = {}
      BY DEF Recorded
    <3> HIDE DEF untouched
    <3>2. /\ Cardinality(untouched) \in Nat
          /\ Cardinality(Recorded("deleted")) + Cardinality(untouched)
               + Cardinality(Recorded("failed")) = Count
      BY <3>1, ThreeWaySplit
    <3>3. result' = [result EXCEPT !.skipped = Cardinality(untouched)]
      BY <1>3, <3>2, RecordedFinite DEF Finish, Tally, TypeOK
    <3>4. QED BY <3>3 DEF Tally, TypeOK
  <2>6. AppliedTally' = S!TallyOf(AppliedVerdict')
    BY <2>2, <2>3, <2>4, <2>5, SameCardinality DEF S!TallyOf
  <2>7. S!Close
    BY <2>2, <2>3, <2>6 DEF S!Close
  <2>8. QED BY <2>7 DEF S!Next
<1>4. CASE UNCHANGED collected
  BY <1>4, InvisibleStep
<1>5. QED
  BY <1>1, <1>2, <1>3, <1>4
  DEF Next, Engine, Worker, vars, ParentDone, Feed, FeederExit, Return,
      Unconfigured, Cancel, Exit, CloseOutcomes

\* Apply implements Settlement: the caller sees every action settled at most
\* once, and a tally that is the tally of those verdicts.
THEOREM Refinement == Spec => ImplementsSettlement
<1>1. Init => S!Init
  BY InitRefines
<1>2. Inv /\ [Next]_vars => [S!Next]_S!settlementVars
  BY StepRefines
<1>3. QED BY <1>1, <1>2, Invariance, PTL DEF Spec, ImplementsSettlement, S!Spec

=============================================================================
