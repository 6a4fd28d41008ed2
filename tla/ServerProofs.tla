---------------------------- MODULE ServerProofs ----------------------------
(***************************************************************************)
(* Theorems about Server for every set of requests, of artifacts and of    *)
(* settings: one run at a time, no stale plan, refusals only while a run   *)
(* is active, counters that miss nothing but the active run, and a mutex   *)
(* nobody ever waits for.  The inductive invariant is Inv.                 *)
(***************************************************************************)
EXTENDS Server, FiniteSetTheorems, TLAPS

\* At most one handler is past the flag, which is set exactly then.
OneInside ==
  /\ \A q, r \in Requests : pc[q] \in Inside /\ pc[r] \in Inside => q = r
  /\ running <=> \E r \in Requests : pc[r] \in Inside

\* The mutex belongs to the handler between Lock and Unwind.
MutexHeld ==
  \A r \in Requests :
    applyMu = r <=> pc[r] \in {"planning", "applying", "applied", "unlocking"}

\* What the answer can be at each place of the handler.
Answers ==
  \A r \in Requests :
    /\ pc[r] \notin {"unlocking", "releasing", "done"} => code[r] = 0
    /\ pc[r] \in {"unlocking", "releasing"} => code[r] \in {200, 500}

\* What a run has settled and what it has left make up its plan.
Settled(t) == t.deleted + t.skipped + t.failed

Balance ==
  \A r \in Requests :
    /\ pc[r] = "applying" => Settled(tally[r]) + Cardinality(left[r]) = tally[r].planned
    /\ pc[r] # "applying" => left[r] = {}
    /\ pc[r] \notin {"applying", "applied"} => tally[r] = NoTally

\* What the runs have erased has not come back; what they reported is erased.
Gone == present \cap erased = {} /\ reported \subseteq erased

\* What a DELETE has erased or may yet erase although no run reports it.
Doubtful == (erased \ reported) \cup lost

\* The counters, in a form that does not count the unobserved runs.
Successes == {r \in Requests : code[r] = 200}
Failures  == {r \in Requests : code[r] = 500}

Covered(t) ==
  /\ metrics.deleted + t.deleted = Cardinality(reported)
  /\ main # "exited" =>
       Cardinality(Doubtful) <= metrics.skipped + t.skipped + metrics.failed + t.failed

Counted ==
  /\ Unobserved = {} => Covered(NoTally)
  /\ \A r \in Unobserved : Covered(tally[r])
  /\ IsFiniteSet(Successes) /\ metrics.success = Cardinality(Successes)
  /\ IsFiniteSet(Failures) /\ metrics.failure = Cardinality(Failures)

Inv ==
  /\ TypeOK /\ OneInside /\ MutexHeld /\ Answers
  /\ Balance /\ PlansStayFresh /\ Gone /\ Counted

\* The mutex is never waited for: whoever comes to lock it finds it free.
NeverWaits == \A r \in Requests : pc[r] = "locking" => applyMu = Nobody

-----------------------------------------------------------------------------
(* Counting.                                                               *)

LEMMA ArtifactsFinite ==
  ASSUME NEW X \in SUBSET Artifacts
  PROVE  IsFiniteSet(X) /\ Cardinality(X) \in Numbers /\ Cardinality(X) \in Nat
BY ServerAssumption, FS_Subset, FS_CardinalityType DEF Numbers

\* The handler that is being observed is the only one.
LEMMA ObservedAlone ==
  ASSUME OneInside, NEW r \in Requests, r \in Unobserved
  PROVE  Unobserved = {r}
BY DEF OneInside, Unobserved, Inside

LEMMA DoubtfulFinite ==
  ASSUME TypeOK
  PROVE  IsFiniteSet(Doubtful) /\ Cardinality(Doubtful) \in Nat
<1>1. Doubtful \in SUBSET Artifacts
  BY DEF TypeOK, Doubtful
<1>2. QED BY <1>1, ArtifactsFinite

\* A run without a tally is covered by the counters alone.
LEMMA Untallied ==
  ASSUME Counted, NEW r \in Requests, Unobserved = {} \/ (Unobserved = {r} /\ tally[r] = NoTally)
  PROVE  Covered(NoTally)
BY DEF Counted

\* Counted depends on nothing else, and survives the exit of the process.
LEMMA CountedKept ==
  ASSUME TypeOK, Counted, UNCHANGED <<metrics, code, reported, tally>>, Unobserved' = Unobserved,
         main' # "exited" => main # "exited" /\ Doubtful' \subseteq Doubtful
  PROVE  Counted'
<1>1. Successes' = Successes /\ Failures' = Failures
  BY DEF Successes, Failures
<1>2. main' # "exited" => main # "exited" /\ Cardinality(Doubtful') <= Cardinality(Doubtful)
                          /\ Cardinality(Doubtful') \in Nat /\ Cardinality(Doubtful) \in Nat
  BY DoubtfulFinite, FS_Subset, FS_CardinalityType
<1>3. Covered(NoTally) => Covered(NoTally)'
  <2>1. /\ metrics.skipped \in Nat /\ metrics.failed \in Nat
        /\ NoTally.skipped = 0 /\ NoTally.failed = 0
    BY DEF TypeOK, Counts, NoTally
  <2>2. QED BY <1>2, <2>1 DEF Covered
<1>4. ASSUME NEW r \in Unobserved, Covered(tally[r]) PROVE Covered(tally[r])'
  <2>1. /\ metrics.skipped \in Nat /\ metrics.failed \in Nat
        /\ tally[r].skipped \in Nat /\ tally[r].failed \in Nat
    BY ServerAssumption, FS_CardinalityType DEF TypeOK, Counts, Tallies, Numbers, Unobserved
  <2>2. QED BY <1>2, <1>4, <2>1 DEF Covered
<1>5. QED BY <1>1, <1>3, <1>4 DEF Counted

\* An answer given to a request that had none adds it to the requests answered
\* in that way and to no others.
LEMMA AnswerCounted ==
  ASSUME TypeOK, Counted, NEW r \in Requests, code[r] = 0,
         code'[r] # 0, \A q \in Requests \ {r} : code'[q] = code[q]
  PROVE  /\ IsFiniteSet(Successes') /\ IsFiniteSet(Failures')
         /\ Cardinality(Successes') = metrics.success + (IF code'[r] = 200 THEN 1 ELSE 0)
         /\ Cardinality(Failures') = metrics.failure + (IF code'[r] = 500 THEN 1 ELSE 0)
<1>1. ASSUME NEW v \in {200, 500}, IsFiniteSet({q \in Requests : code[q] = v})
      PROVE  /\ IsFiniteSet({q \in Requests : code'[q] = v})
             /\ Cardinality({q \in Requests : code'[q] = v})
                  = Cardinality({q \in Requests : code[q] = v}) + (IF code'[r] = v THEN 1 ELSE 0)
  <2> DEFINE before == {q \in Requests : code[q] = v}
             after  == {q \in Requests : code'[q] = v}
  <2>1. after = (IF code'[r] = v THEN before \cup {r} ELSE before) /\ r \notin before
    BY DEF TypeOK
  <2>2. IsFiniteSet(before)
    BY <1>1
  <2> HIDE DEF before, after
  <2>3. Cardinality(before) \in Nat
    BY <2>2, FS_CardinalityType
  <2>4. CASE code'[r] = v
    <3>1. IsFiniteSet(after) /\ Cardinality(after) = Cardinality(before) + 1
      BY <2>4, <2>1, <2>2, FS_AddElement
    <3>2. QED BY <2>4, <3>1 DEF before, after
  <2>5. CASE code'[r] # v
    <3>1. IsFiniteSet(after) /\ Cardinality(after) = Cardinality(before) + 0
      BY <2>5, <2>1, <2>2, <2>3
    <3>2. QED BY <2>5, <3>1 DEF before, after
  <2>6. QED BY <2>4, <2>5
<1>2. QED BY <1>1 DEF Counted, Successes, Failures

-----------------------------------------------------------------------------
(* The inductive invariant.                                                *)

LEMMA InitInv == Init => Inv
<1> SUFFICES ASSUME Init PROVE Inv
  OBVIOUS
<1> USE ServerAssumption
<1>0. Cardinality({}) = 0 /\ IsFiniteSet({}) /\ Cardinality({}) \in Numbers
  BY FS_EmptySet, ArtifactsFinite
<1>1. TypeOK
  <2>1. NoTally \in Tallies /\ NoCounts \in Counts
    BY <1>0 DEF NoTally, NoCounts, Tallies, Counts, Numbers
  <2>2. QED BY <2>1 DEF Init, TypeOK, Places, Inside
<1>2. OneInside /\ MutexHeld /\ Answers /\ PlansStayFresh /\ Gone
  BY DEF Init, OneInside, MutexHeld, Answers, PlansStayFresh, Gone, Inside
<1>3. Balance
  BY DEF Init, Balance
<1>4. Counted
  <2>1. Successes = {} /\ Failures = {} /\ Unobserved = {}
    BY DEF Init, Successes, Failures, Unobserved
  <2>2. Doubtful = {} /\ reported = {}
    BY DEF Init, Doubtful
  <2>3. Covered(NoTally)
    BY <1>0, <2>2 DEF Init, Covered, NoCounts, NoTally
  <2>4. QED BY <1>0, <2>1, <2>3 DEF Init, Counted, NoCounts
<1>5. QED BY <1>1, <1>2, <1>3, <1>4 DEF Inv

\* The surroundings and the process do not touch the handlers.
LEMMA WorldInv ==
  ASSUME Inv, World
  PROVE  Inv'
<1> USE DEF Inv
<1>1. ASSUME NEW r \in Requests, Arrive(r) PROVE Inv'
  <2>1. TypeOK'
    BY <1>1 DEF Arrive, TypeOK, Places, process, locks, run, store
  <2>2. OneInside' /\ MutexHeld' /\ Answers'
    BY <1>1 DEF Arrive, TypeOK, Places, OneInside, MutexHeld, Answers, Inside, process, locks, run, store
  <2>3. Balance' /\ PlansStayFresh' /\ Gone'
    BY <1>1 DEF Arrive, TypeOK, Places, Balance, PlansStayFresh, Gone, run, store
  <2>4. Counted'
    <3>1. Unobserved' = Unobserved
      BY <1>1 DEF Arrive, TypeOK, Places, Unobserved
    <3>2. QED BY <1>1, <3>1, CountedKept DEF Arrive, run, store, process, Doubtful
  <2>5. QED BY <2>1, <2>2, <2>3, <2>4
<1>2. ASSUME NEW r \in Requests, Disconnect(r) PROVE Inv'
  <2>1. TypeOK'
    BY <1>2 DEF Disconnect, TypeOK, process, locks, run, store
  <2>2. OneInside' /\ MutexHeld' /\ Answers'
    BY <1>2 DEF Disconnect, OneInside, MutexHeld, Answers, locks
  <2>3. Balance' /\ PlansStayFresh' /\ Gone'
    BY <1>2 DEF Disconnect, Balance, PlansStayFresh, Gone, run, store
  <2>4. Counted'
    BY <1>2, CountedKept DEF Disconnect, Unobserved, run, store, process, Doubtful
  <2>5. QED BY <2>1, <2>2, <2>3, <2>4
<1>3. ASSUME NEW a \in Artifacts, Vanish(a) PROVE Inv'
  <2>1. TypeOK'
    BY <1>3 DEF Vanish, TypeOK, process, locks, run
  <2>2. OneInside' /\ MutexHeld' /\ Answers'
    BY <1>3 DEF Vanish, OneInside, MutexHeld, Answers, locks
  <2>3. Balance' /\ PlansStayFresh' /\ Gone'
    BY <1>3 DEF Vanish, Balance, PlansStayFresh, Gone, run
  <2>4. Counted'
    BY <1>3, CountedKept DEF Vanish, Unobserved, run, process, Doubtful
  <2>5. QED BY <2>1, <2>2, <2>3, <2>4
<1>4. ASSUME NEW a \in Artifacts, Push(a) PROVE Inv'
  <2>1. TypeOK'
    BY <1>4 DEF Push, TypeOK, process, locks, run
  <2>2. OneInside' /\ MutexHeld' /\ Answers'
    BY <1>4 DEF Push, OneInside, MutexHeld, Answers, locks
  <2>3. Balance' /\ PlansStayFresh' /\ Gone'
    BY <1>4 DEF Push, Balance, PlansStayFresh, Gone, run
  <2>4. Counted'
    BY <1>4, CountedKept DEF Push, Unobserved, run, process, Doubtful
  <2>5. QED BY <2>1, <2>2, <2>3, <2>4
<1>5. ASSUME NEW a \in Artifacts, Land(a) PROVE Inv'
  <2>1. TypeOK'
    BY <1>5 DEF Land, Erase, TypeOK, process, locks, run
  <2>2. OneInside' /\ MutexHeld' /\ Answers'
    BY <1>5 DEF Land, OneInside, MutexHeld, Answers, locks
  <2>3. Balance' /\ PlansStayFresh' /\ Gone'
    BY <1>5 DEF Land, Erase, Balance, PlansStayFresh, Gone, run
  <2>4. Counted'
    BY <1>5, CountedKept DEF Land, Erase, Unobserved, run, process, Doubtful
  <2>5. QED BY <2>1, <2>2, <2>3, <2>4
<1>6. QED BY <1>1, <1>2, <1>3, <1>4, <1>5 DEF World

LEMMA ProcessInv ==
  ASSUME Inv, Signal \/ Shutdown \/ ServeFails \/ Exit \/ UNCHANGED vars
  PROVE  Inv'
<1> USE DEF Inv
<1>1. /\ UNCHANGED <<locks, pc, run, code, metrics, present, vanished, erased, reported>>
      /\ lost' \in SUBSET Artifacts
      /\ main' # "exited" => main # "exited" /\ lost' = lost
  <2>1. CASE Signal \/ Shutdown \/ ServeFails
    BY <2>1 DEF Signal, Shutdown, ServeFails, MainStep, store, TypeOK
  <2>2. CASE Exit
    BY <2>2 DEF Exit, MainStep, TypeOK
  <2>3. CASE UNCHANGED vars
    BY <2>3 DEF vars, process, store, TypeOK
  <2>4. QED BY <2>1, <2>2, <2>3
<1>2. TypeOK'
  <2>1. setting' = setting /\ gone' = gone
    BY DEF Signal, Shutdown, ServeFails, Exit, MainStep, vars, process
  <2>2. /\ main' \in {"serving", "closed", "exited"}
        /\ ctx' \in BOOLEAN
        /\ err' \in {"nil", "binding", "serve"}
    <3>1. CASE Signal
      BY <3>1 DEF Signal, TypeOK
    <3>2. CASE Shutdown \/ ServeFails \/ Exit
      BY <3>2 DEF Shutdown, ServeFails, Exit, MainStep, TypeOK
    <3>3. CASE UNCHANGED vars
      BY <3>3 DEF vars, process, TypeOK
    <3>4. QED BY <3>1, <3>2, <3>3
  <2>3. QED BY <1>1, <2>1, <2>2 DEF TypeOK, locks, run
<1>3. OneInside' /\ MutexHeld' /\ Answers' /\ Balance' /\ PlansStayFresh' /\ Gone'
  BY <1>1 DEF OneInside, MutexHeld, Answers, Balance, PlansStayFresh, Gone, locks, run
<1>4. Counted'
  BY <1>1, CountedKept DEF Unobserved, run, Doubtful
<1>5. QED BY <1>2, <1>3, <1>4

\* The part of the typing that At decides.
TypedHandler ==
  /\ setting \in Settings
  /\ main \in {"serving", "closed", "exited"}
  /\ ctx \in BOOLEAN
  /\ err \in {"nil", "binding", "serve"}
  /\ pc \in [Requests -> Places]
  /\ gone \subseteq Requests

\* A step of a handler moves it to a place that is one, and types nothing else.
LEMMA AtTyped ==
  ASSUME TypeOK, NEW r \in Requests, NEW from, NEW to \in Places, At(r, from, to)
  PROVE  TypedHandler'
<1>1. pc' \in [Requests -> Places]
  BY DEF At, TypeOK
<1>2. gone' \subseteq Requests
  BY DEF At, TypeOK
<1>3. UNCHANGED <<setting, main, ctx, err>>
  BY DEF At, process
<1>4. QED BY <1>1, <1>2, <1>3 DEF TypeOK, TypedHandler

\* A request that is refused, with whatever status.
LEMMA RefuseInv ==
  ASSUME Inv, NEW r \in Requests, NEW s \in {401, 409}, Refuse(r, s)
  PROVE  Inv'
<1> USE DEF Inv, Refuse, At
<1>1. TypeOK'
  BY DEF TypeOK, Places, process, locks, run, store
<1>2. OneInside' /\ MutexHeld' /\ Answers'
  BY DEF TypeOK, Places, OneInside, MutexHeld, Answers, Inside, locks
<1>3. Balance' /\ PlansStayFresh' /\ Gone'
  BY DEF TypeOK, Balance, PlansStayFresh, Gone, run, store
<1>4. Counted'
  <2>1. Unobserved' = Unobserved
    BY DEF TypeOK, Unobserved
  <2>2. code[r] = 0 /\ code'[r] = s /\ code'[r] # 0 /\ \A q \in Requests \ {r} : code'[q] = code[q]
    BY DEF Answers, TypeOK
  <2>3. /\ IsFiniteSet(Successes') /\ IsFiniteSet(Failures')
        /\ Cardinality(Successes') = metrics.success
        /\ Cardinality(Failures') = metrics.failure
    <3>1. /\ IsFiniteSet(Successes') /\ IsFiniteSet(Failures')
          /\ Cardinality(Successes') = metrics.success + (IF code'[r] = 200 THEN 1 ELSE 0)
          /\ Cardinality(Failures') = metrics.failure + (IF code'[r] = 500 THEN 1 ELSE 0)
      BY <2>2, AnswerCounted
    <3>2. metrics.success \in Nat /\ metrics.failure \in Nat
      BY DEF TypeOK, Counts
    <3>3. QED BY <2>2, <3>1, <3>2
  <2>4. UNCHANGED <<reported, tally, metrics, main, Doubtful>>
    BY DEF run, store, process, Doubtful
  <2>5. QED BY <2>1, <2>3, <2>4 DEF Counted, Covered
<1>5. QED BY <1>1, <1>2, <1>3, <1>4

LEMMA AdmitInv ==
  ASSUME Inv, NEW r \in Requests, Admit(r)
  PROVE  Inv'
<1> USE DEF Inv, Admit, At
<1>1. TypeOK'
  BY AtTyped DEF TypeOK, TypedHandler, Places, Inside, locks, run, store
<1>2. OneInside' /\ MutexHeld' /\ Answers'
  BY DEF TypeOK, Places, OneInside, MutexHeld, Answers, Inside
<1>3. Balance' /\ PlansStayFresh' /\ Gone'
  BY DEF TypeOK, Balance, PlansStayFresh, Gone, run, store
<1>4. Counted'
  <2>1. Unobserved' = Unobserved
    BY DEF TypeOK, Unobserved
  <2>2. QED BY <2>1, CountedKept DEF run, store, process, Doubtful
<1>5. QED BY <1>1, <1>2, <1>3, <1>4

\* Nobody is past the flag but the handler that locks, so nobody is unobserved.
LEMMA LockInv ==
  ASSUME Inv, NEW r \in Requests, Lock(r)
  PROVE  Inv'
<1> USE DEF Inv, Lock, At
<1>1. TypeOK'
  BY AtTyped DEF TypeOK, TypedHandler, Places, Inside, locks, run, store
<1>2. OneInside' /\ MutexHeld' /\ Answers'
  BY ServerAssumption DEF TypeOK, Places, OneInside, MutexHeld, Answers, Inside
<1>3. Balance' /\ PlansStayFresh' /\ Gone'
  BY DEF TypeOK, Balance, PlansStayFresh, Gone, run, store
<1>4. Counted'
  <2>1. Unobserved = {} /\ Unobserved' = {r}
    BY DEF TypeOK, Places, OneInside, Unobserved, Inside
  <2>2. tally[r] = NoTally /\ Covered(NoTally)
    BY <2>1, Untallied DEF Balance
  <2>3. UNCHANGED <<reported, tally, metrics, code, main, Doubtful>>
    BY DEF run, store, process, Doubtful
  <2>4. QED BY <2>1, <2>2, <2>3 DEF Counted, Covered, Successes, Failures
<1>5. QED BY <1>1, <1>2, <1>3, <1>4

LEMMA PlanFailsInv ==
  ASSUME Inv, NEW r \in Requests, PlanFails(r)
  PROVE  Inv'
<1> USE DEF Inv, PlanFails, At
<1>1. TypeOK'
  <2>1. metrics' \in Counts
    BY DEF TypeOK, Counts
  <2>2. code' \in [Requests -> {0, 200, 401, 409, 500}]
    BY DEF TypeOK
  <2>3. "unlocking" \in Places
    BY DEF Places, Inside
  <2>4. TypedHandler'
    BY <2>3, AtTyped
  <2>5. QED BY <2>1, <2>2, <2>4 DEF TypeOK, TypedHandler, locks, run, store
<1>2. OneInside' /\ MutexHeld' /\ Answers'
  BY DEF TypeOK, Places, OneInside, MutexHeld, Answers, Inside, locks
<1>3. Balance' /\ PlansStayFresh' /\ Gone'
  BY DEF TypeOK, Balance, PlansStayFresh, Gone, run, store
<1>4. Counted'
  <2>1. Unobserved = {r} /\ Unobserved' = {}
    BY DEF TypeOK, Places, OneInside, Unobserved, Inside
  <2>2. Covered(NoTally)
    BY <2>1, Untallied DEF Balance
  <2>3. /\ metrics'.deleted = metrics.deleted /\ metrics'.success = metrics.success
        /\ metrics'.skipped = metrics.skipped /\ metrics'.failed = metrics.failed
        /\ metrics'.failure = metrics.failure + 1
    BY DEF TypeOK, Counts
  <2>4. code[r] = 0 /\ code'[r] = 500 /\ code'[r] # 0 /\ \A q \in Requests \ {r} : code'[q] = code[q]
    BY DEF Answers, TypeOK
  <2>5. /\ IsFiniteSet(Successes') /\ IsFiniteSet(Failures')
        /\ Cardinality(Successes') = metrics.success
        /\ Cardinality(Failures') = metrics.failure + 1
    <3>1. /\ IsFiniteSet(Successes') /\ IsFiniteSet(Failures')
          /\ Cardinality(Successes') = metrics.success + (IF code'[r] = 200 THEN 1 ELSE 0)
          /\ Cardinality(Failures') = metrics.failure + (IF code'[r] = 500 THEN 1 ELSE 0)
      BY <2>4, AnswerCounted
    <3>2. metrics.success \in Nat /\ metrics.failure \in Nat
      BY DEF TypeOK, Counts
    <3>3. QED BY <2>4, <3>1, <3>2
  <2>6. Covered(NoTally)'
    BY <2>2, <2>3 DEF Covered, Doubtful, process, store
  <2>7. QED BY <2>1, <2>3, <2>5, <2>6 DEF Counted
<1>5. QED BY <1>1, <1>2, <1>3, <1>4

LEMMA PlanInv ==
  ASSUME Inv, NEW r \in Requests, Plan(r)
  PROVE  Inv'
<1> USE DEF Inv, Plan, At
<1> DEFINE n == Cardinality(present)
<1>1. n \in Numbers /\ Cardinality({}) = 0
  BY ArtifactsFinite, FS_EmptySet DEF TypeOK
<1>2. n \in Nat /\ tally[r] = NoTally
  BY ArtifactsFinite DEF TypeOK, Balance
<1> HIDE DEF n
<1>3. /\ tally' = [tally EXCEPT ![r].planned = n]
      /\ \A q \in Requests \ {r} : tally'[q] = tally[q]
      /\ tally'[r] = [planned |-> n, deleted |-> 0, skipped |-> 0, failed |-> 0]
  BY <1>2 DEF n, TypeOK, NoTally, Tallies
<1>4. TypeOK'
  <2>1. tally' \in [Requests -> Tallies]
    BY <1>1, <1>3 DEF TypeOK, Tallies
  <2>2. left' \in [Requests -> SUBSET Artifacts]
    BY DEF TypeOK
  <2>3. QED BY <2>1, <2>2, AtTyped DEF TypeOK, TypedHandler, Places, Inside, locks, store
<1>5. OneInside' /\ MutexHeld' /\ Answers'
  BY DEF TypeOK, Places, OneInside, MutexHeld, Answers, Inside, locks
<1>6. PlansStayFresh' /\ Gone'
  BY DEF TypeOK, PlansStayFresh, Gone, store
<1>7. Balance'
  <2>1. ASSUME NEW q \in Requests \ {r}
        PROVE  pc'[q] = pc[q] /\ left'[q] = left[q] /\ tally'[q] = tally[q]
    BY <1>3 DEF TypeOK
  <2>2. /\ pc'[r] = IF setting.apply THEN "applying" ELSE "applied"
        /\ left'[r] = IF setting.apply THEN present ELSE {}
    BY DEF TypeOK
  <2>3. Settled(tally'[r]) = 0 /\ tally'[r].planned = n
    BY <1>3 DEF Settled
  <2>4. Cardinality(left'[r]) = n \/ pc'[r] # "applying"
    BY <2>2 DEF n
  <2>5. QED BY <1>2, <2>1, <2>2, <2>3, <2>4 DEF Balance
<1>8. Counted'
  <2>1. Unobserved' = Unobserved /\ Unobserved = {r}
    BY DEF TypeOK, Places, OneInside, Unobserved, Inside
  <2>2. /\ tally'[r].deleted = NoTally.deleted /\ tally'[r].skipped = NoTally.skipped
        /\ tally'[r].failed = NoTally.failed
    BY <1>3 DEF NoTally
  <2>3. Covered(NoTally)
    BY <1>2, <2>1, Untallied
  <2>4. Covered(tally[r])'
    BY <2>2, <2>3 DEF Covered, Doubtful, process, store
  <2>5. QED BY <2>1, <2>4 DEF Counted, Successes, Failures, store
<1>9. QED BY <1>4, <1>5, <1>6, <1>7, <1>8

\* One settled action moves from what is left to one of the three counts.
LEMMA SettleInv ==
  ASSUME Inv, NEW r \in Requests, NEW a \in Artifacts, Settle(r, a)
  PROVE  Inv'
<1> USE DEF Inv
<1> DEFINE t == tally[r]
           n == Cardinality(left[r])
           N == Cardinality(Artifacts)
<1>1. /\ pc[r] = "applying" /\ pc' = pc /\ gone' = gone /\ UNCHANGED process
      /\ a \in left[r] /\ left' = [left EXCEPT ![r] = @ \ {a}]
      /\ UNCHANGED <<running, applyMu, code, metrics, vanished>>
  BY DEF Settle, At, TypeOK, locks
<1>2. \/ /\ a \in present /\ Erase(a) /\ reported' = reported \cup {a} /\ lost' = lost
         /\ tally' = [tally EXCEPT ![r].deleted = @ + 1]
      \/ /\ Erase(a) /\ UNCHANGED <<lost, reported>>
         /\ tally' = [tally EXCEPT ![r].skipped = @ + 1]
      \/ /\ lost' \in {lost, lost \cup {a}} /\ UNCHANGED <<present, erased, reported>>
         /\ tally' = [tally EXCEPT ![r].failed = @ + 1]
  BY DEF Settle
<1>3. /\ t \in Tallies /\ N \in Nat /\ left[r] \in SUBSET Artifacts
      /\ t.planned \in 0..N /\ t.deleted \in 0..N /\ t.skipped \in 0..N /\ t.failed \in 0..N
  BY ServerAssumption, FS_CardinalityType DEF TypeOK, Tallies, Numbers
<1>4. n \in Nat \ {0} /\ Cardinality(left[r] \ {a}) = n - 1
  <2>1. IsFiniteSet(left[r]) /\ n \in Nat
    BY <1>3, ArtifactsFinite
  <2>2. Cardinality(left[r] \ {a}) = n - 1 /\ IsFiniteSet(left[r] \ {a})
    BY <2>1, <1>1, FS_RemoveElement
  <2>3. n # 0
    BY <2>1, <1>1, FS_EmptySet
  <2>4. QED BY <2>1, <2>2, <2>3
<1>5. Settled(t) + n = t.planned
  BY <1>1 DEF Balance
<1> HIDE DEF n, N
<1>6. /\ tally'[r] \in Tallies
      /\ tally'[r].planned = t.planned
      /\ Settled(tally'[r]) = Settled(t) + 1
      /\ Settled(t) \in Nat
  <2>1. tally \in [Requests -> Tallies]
    BY DEF TypeOK
  <2>2. Settled(t) \in Nat /\ Settled(t) + 1 <= N
    BY <1>3, <1>4, <1>5 DEF Settled
  <2>3. /\ tally'[r] \in {[t EXCEPT !.deleted = @ + 1], [t EXCEPT !.skipped = @ + 1],
                          [t EXCEPT !.failed = @ + 1]}
    BY <1>2, <2>1
  <2>4. QED BY <1>3, <2>2, <2>3 DEF Settled, Tallies, Numbers, N
<1>7. \A q \in Requests \ {r} : tally'[q] = tally[q] /\ left'[q] = left[q]
  BY <1>1, <1>2 DEF TypeOK
<1>8. tally' \in [Requests -> Tallies] /\ left' \in [Requests -> SUBSET Artifacts]
  <2>1. tally' = [q \in Requests |-> tally'[q]]
    BY <1>2 DEF TypeOK
  <2>2. \A q \in Requests : tally'[q] \in Tallies
    BY <1>6, <1>7 DEF TypeOK
  <2>3. tally' \in [Requests -> Tallies]
    BY <2>1, <2>2
  <2>4. QED BY <2>3, <1>1 DEF TypeOK
<1>9. TypeOK'
  BY <1>1, <1>2, <1>8 DEF TypeOK, process, Erase
<1>10. OneInside' /\ MutexHeld' /\ Answers'
  BY <1>1 DEF OneInside, MutexHeld, Answers
<1>11. Gone'
  BY <1>2 DEF Gone, Erase
<1>12. PlansStayFresh'
  <2>1. left'[r] = left[r] \ {a}
    BY <1>1 DEF TypeOK
  <2>2. \A q \in Requests \ {r} : left'[q] = {}
    BY <1>1, <1>7 DEF OneInside, Inside, Balance
  <2>3. /\ present \ {a} \subseteq present' /\ vanished' = vanished
        /\ (erased \ reported) \ {a} \subseteq erased' \ reported'
    BY <1>1, <1>2 DEF Erase
  <2>4. QED BY <2>1, <2>2, <2>3 DEF PlansStayFresh
<1>13. Balance'
  <2>1. Settled(tally'[r]) + Cardinality(left'[r]) = tally'[r].planned
    <3>1. Cardinality(left'[r]) = n - 1
      BY <1>1, <1>4 DEF TypeOK
    <3>2. QED BY <1>4, <1>5, <1>6, <3>1
  <2>2. QED BY <1>1, <1>7, <2>1 DEF Balance
<1>14. Counted'
  <2>1. Unobserved = {r} /\ Unobserved' = {r}
    BY <1>1, ObservedAlone DEF Unobserved
  <2>2. Successes' = Successes /\ Failures' = Failures
    BY <1>1 DEF Successes, Failures
  <2>3. Covered(tally[r]) /\ main' = main /\ metrics' = metrics
    BY <1>1, <2>1 DEF Counted, process
  <2>4. /\ metrics.deleted \in Nat /\ metrics.skipped \in Nat /\ metrics.failed \in Nat
        /\ t.deleted \in Nat /\ t.skipped \in Nat /\ t.failed \in Nat
        /\ IsFiniteSet(Doubtful) /\ Cardinality(Doubtful) \in Nat
        /\ IsFiniteSet(reported) /\ Cardinality(reported) \in Nat
    BY <1>3, DoubtfulFinite, ArtifactsFinite DEF TypeOK, Counts
  <2>5. ASSUME /\ a \in present /\ Erase(a) /\ reported' = reported \cup {a} /\ lost' = lost
               /\ tally' = [tally EXCEPT ![r].deleted = @ + 1]
        PROVE  Covered(tally[r])'
    <3>1. a \notin reported /\ Doubtful' \subseteq Doubtful
      BY <2>5 DEF Erase, Gone, Doubtful
    <3>2. Cardinality(reported') = Cardinality(reported) + 1
      BY <2>4, <2>5, <3>1, FS_AddElement
    <3>3. Cardinality(Doubtful') <= Cardinality(Doubtful) /\ Cardinality(Doubtful') \in Nat
      BY <2>4, <3>1, FS_Subset, FS_CardinalityType
    <3>4. /\ tally'[r].deleted = t.deleted + 1
          /\ tally'[r].skipped = t.skipped /\ tally'[r].failed = t.failed
      BY <2>5, <1>3 DEF TypeOK, Tallies
    <3>5. metrics'.deleted + tally'[r].deleted = Cardinality(reported')
      BY <2>3, <2>4, <3>2, <3>4 DEF Covered
    <3>6. main' # "exited" => Cardinality(Doubtful')
            <= metrics'.skipped + tally'[r].skipped + metrics'.failed + tally'[r].failed
      BY <2>3, <2>4, <3>3, <3>4 DEF Covered
    <3>7. QED BY <3>5, <3>6 DEF Covered
  <2>6. ASSUME \/ /\ Erase(a) /\ UNCHANGED <<lost, reported>>
                  /\ tally' = [tally EXCEPT ![r].skipped = @ + 1]
               \/ /\ lost' \in {lost, lost \cup {a}} /\ UNCHANGED <<present, erased, reported>>
                  /\ tally' = [tally EXCEPT ![r].failed = @ + 1]
        PROVE  Covered(tally[r])'
    <3>1. Doubtful' \subseteq Doubtful \cup {a} /\ reported' = reported
      BY <2>6 DEF Erase, Doubtful
    <3>2. /\ IsFiniteSet(Doubtful \cup {a}) /\ Cardinality(Doubtful \cup {a}) \in Nat
          /\ Cardinality(Doubtful \cup {a}) <= Cardinality(Doubtful) + 1
      <4> HIDE DEF t
      <4>1. /\ IsFiniteSet(Doubtful \cup {a})
            /\ Cardinality(Doubtful \cup {a})
                 = IF a \in Doubtful THEN Cardinality(Doubtful) ELSE Cardinality(Doubtful) + 1
        BY <2>4, FS_AddElement
      <4>2. QED BY <2>4, <4>1
    <3>3. Cardinality(Doubtful') <= Cardinality(Doubtful) + 1 /\ Cardinality(Doubtful') \in Nat
      BY <3>1, <3>2, <2>4, FS_Subset, FS_CardinalityType
    <3>4. /\ tally'[r].deleted = t.deleted
          /\ \/ tally'[r].skipped = t.skipped + 1 /\ tally'[r].failed = t.failed
             \/ tally'[r].skipped = t.skipped /\ tally'[r].failed = t.failed + 1
      BY <2>6, <1>3 DEF TypeOK, Tallies
    <3>5. metrics'.deleted + tally'[r].deleted = Cardinality(reported')
      BY <2>3, <2>4, <3>1, <3>4 DEF Covered
    <3>6. main' # "exited" => Cardinality(Doubtful')
            <= metrics'.skipped + tally'[r].skipped + metrics'.failed + tally'[r].failed
      BY <2>3, <2>4, <3>3, <3>4 DEF Covered
    <3>7. QED BY <3>5, <3>6 DEF Covered
  <2>7. Covered(tally[r])'
    BY <1>2, <2>5, <2>6
  <2>8. QED BY <1>1, <2>1, <2>2, <2>7 DEF Counted
<1>15. QED BY <1>9, <1>10, <1>11, <1>12, <1>13, <1>14

\* What is left is counted as skipped.
LEMMA ApplyReturnsInv ==
  ASSUME Inv, NEW r \in Requests, ApplyReturns(r)
  PROVE  Inv'
<1> USE DEF Inv
<1> DEFINE t == tally[r]
           n == Cardinality(left[r])
           N == Cardinality(Artifacts)
<1>1. /\ pc[r] = "applying" /\ pc' = [pc EXCEPT ![r] = "applied"]
      /\ left' = [left EXCEPT ![r] = {}]
      /\ tally' = [tally EXCEPT ![r].skipped = @ + n]
      /\ UNCHANGED <<running, applyMu, code, metrics, main, store>>
  BY DEF ApplyReturns, At, locks, process
<1>2. /\ t \in Tallies /\ N \in Nat /\ n \in Nat /\ Settled(t) + n = t.planned
      /\ t.planned \in 0..N /\ t.deleted \in 0..N /\ t.skipped \in 0..N /\ t.failed \in 0..N
  BY <1>1, ServerAssumption, ArtifactsFinite, FS_CardinalityType
  DEF TypeOK, Tallies, Numbers, Balance
<1> HIDE DEF n, N
<1>3. tally'[r] = [t EXCEPT !.skipped = @ + n] /\ tally'[r] \in Tallies
  <2>1. tally'[r] = [t EXCEPT !.skipped = @ + n]
    BY <1>1 DEF TypeOK
  <2>2. t.skipped + n \in 0..N
    BY <1>2 DEF Settled
  <2>3. QED BY <1>2, <2>1, <2>2 DEF Tallies, Numbers, N
<1>4. \A q \in Requests \ {r} : tally'[q] = tally[q] /\ left'[q] = left[q] /\ pc'[q] = pc[q]
  BY <1>1 DEF TypeOK
<1>5. TypeOK'
  <2>1. tally' = [q \in Requests |-> tally'[q]]
    BY <1>1 DEF TypeOK
  <2>2. tally' \in [Requests -> Tallies]
    BY <1>3, <1>4, <2>1 DEF TypeOK
  <2>3. "applied" \in Places
    BY DEF Places, Inside
  <2>4. TypedHandler'
    BY <2>3, AtTyped DEF ApplyReturns
  <2>5. QED BY <1>1, <2>2, <2>4 DEF TypeOK, TypedHandler, store
<1>6. OneInside' /\ MutexHeld' /\ Answers'
  BY <1>1 DEF TypeOK, Places, OneInside, MutexHeld, Answers, Inside
<1>7. PlansStayFresh' /\ Gone'
  BY <1>1 DEF TypeOK, PlansStayFresh, Gone, store
<1>8. Balance'
  BY <1>1, <1>4 DEF TypeOK, Balance
<1>9. Counted'
  <2>1. Unobserved = {r} /\ Unobserved' = {r}
    BY <1>1 DEF TypeOK, Places, OneInside, Unobserved, Inside
  <2>2. Successes' = Successes /\ Failures' = Failures
    BY <1>1 DEF Successes, Failures
  <2>3. /\ tally'[r].deleted = t.deleted /\ tally'[r].failed = t.failed
        /\ tally'[r].skipped = t.skipped + n
    BY <1>2, <1>3 DEF Tallies
  <2>4. Covered(tally[r])
    BY <2>1 DEF Counted
  <2>5. /\ metrics.skipped \in Nat /\ metrics.failed \in Nat /\ Cardinality(Doubtful) \in Nat
        /\ Doubtful' = Doubtful /\ reported' = reported
    BY <1>1, DoubtfulFinite DEF TypeOK, Counts, Doubtful, store
  <2>6. Covered(tally[r])'
    BY <1>1, <1>2, <2>3, <2>4, <2>5 DEF Covered
  <2>7. QED BY <1>1, <2>1, <2>2, <2>6 DEF Counted
<1>10. QED BY <1>5, <1>6, <1>7, <1>8, <1>9

\* A refused plan is planned as a whole: nothing has been settled.
LEMMA ApplyRefusesInv ==
  ASSUME Inv, NEW r \in Requests, ApplyRefuses(r)
  PROVE  Inv'
<1> USE DEF Inv
<1>1. /\ pc[r] = "applying" /\ pc' = [pc EXCEPT ![r] = "unlocking"]
      /\ tally[r].planned = Cardinality(left[r])
      /\ left' = [left EXCEPT ![r] = {}]
      /\ tally' = [tally EXCEPT ![r] = NoTally]
      /\ code' = [code EXCEPT ![r] = 500]
      /\ UNCHANGED <<running, applyMu, main, store>>
  BY DEF ApplyRefuses, At, locks, process
<1>2. /\ metrics' \in Counts /\ metrics'.deleted = metrics.deleted
      /\ metrics'.skipped = metrics.skipped /\ metrics'.failed = metrics.failed
      /\ metrics'.success = metrics.success /\ metrics'.failure = metrics.failure + 1
  <2>1. metrics' = [metrics EXCEPT !.failure = @ + 1, !.planned = @ + tally[r].planned]
    BY DEF ApplyRefuses
  <2>2. tally[r].planned \in Nat /\ metrics \in Counts
    BY ServerAssumption, FS_CardinalityType DEF TypeOK, Tallies, Numbers
  <2>3. metrics' = [planned |-> metrics.planned + tally[r].planned,
                    deleted |-> metrics.deleted, skipped |-> metrics.skipped,
                    failed |-> metrics.failed, success |-> metrics.success,
                    failure |-> metrics.failure + 1]
    BY <2>1, <2>2 DEF Counts
  <2>4. QED BY <2>2, <2>3 DEF Counts
<1>3. tally[r].deleted = 0 /\ tally[r].skipped = 0 /\ tally[r].failed = 0
  <2>1. Settled(tally[r]) + Cardinality(left[r]) = tally[r].planned
    BY <1>1 DEF Balance
  <2>2. /\ tally[r].deleted \in Nat /\ tally[r].skipped \in Nat /\ tally[r].failed \in Nat
        /\ Cardinality(left[r]) \in Nat
    BY ServerAssumption, ArtifactsFinite, FS_CardinalityType DEF TypeOK, Tallies, Numbers
  <2>3. Settled(tally[r]) = 0
    BY <1>1, <2>1, <2>2 DEF Settled
  <2>4. QED BY <2>2, <2>3 DEF Settled
<1>4. TypeOK'
  <2>1. NoTally \in Tallies
    BY ServerAssumption, FS_CardinalityType DEF NoTally, Tallies, Numbers
  <2>2. tally' \in [Requests -> Tallies] /\ code' \in [Requests -> {0, 200, 401, 409, 500}]
    BY <1>1, <2>1 DEF TypeOK
  <2>3. "unlocking" \in Places
    BY DEF Places, Inside
  <2>4. TypedHandler'
    BY <2>3, AtTyped DEF ApplyRefuses
  <2>5. QED BY <1>1, <1>2, <2>2, <2>4 DEF TypeOK, TypedHandler, store
<1>5. OneInside' /\ MutexHeld' /\ Answers'
  BY <1>1 DEF TypeOK, Places, OneInside, MutexHeld, Answers, Inside
<1>6. Balance' /\ PlansStayFresh' /\ Gone'
  BY <1>1 DEF TypeOK, Balance, PlansStayFresh, Gone, store
<1>7. Counted'
  <2>1. Unobserved = {r} /\ Unobserved' = {}
    BY <1>1 DEF TypeOK, Places, OneInside, Unobserved, Inside
  <2>2. Covered(NoTally)'
    BY <1>1, <1>2, <1>3, <2>1 DEF Counted, Covered, NoTally, Doubtful, store
  <2>3. code[r] = 0 /\ code'[r] = 500 /\ code'[r] # 0 /\ \A q \in Requests \ {r} : code'[q] = code[q]
    BY <1>1 DEF Answers, TypeOK
  <2>4. /\ IsFiniteSet(Successes') /\ IsFiniteSet(Failures')
        /\ Cardinality(Successes') = metrics.success + (IF code'[r] = 200 THEN 1 ELSE 0)
        /\ Cardinality(Failures') = metrics.failure + (IF code'[r] = 500 THEN 1 ELSE 0)
    BY <2>3, AnswerCounted
  <2>5. metrics.success \in Nat /\ metrics.failure \in Nat
    BY DEF TypeOK, Counts
  <2>6. Cardinality(Successes') = metrics.success /\ Cardinality(Failures') = metrics.failure + 1
    BY <2>3, <2>4, <2>5
  <2>7. QED BY <1>2, <2>1, <2>2, <2>4, <2>6 DEF Counted
<1>8. QED BY <1>4, <1>5, <1>6, <1>7

\* The run is added to the counters as it is answered.
LEMMA ObserveInv ==
  ASSUME Inv, NEW r \in Requests, Observe(r)
  PROVE  Inv'
<1> USE DEF Inv
<1> DEFINE t == tally[r]
           status == IF t.failed > 0 THEN 500 ELSE 200
<1>1. /\ pc[r] = "applied" /\ pc' = [pc EXCEPT ![r] = "unlocking"]
      /\ tally' = [tally EXCEPT ![r] = NoTally]
      /\ code' = [code EXCEPT ![r] = status]
      /\ UNCHANGED <<running, applyMu, left, main, store>>
  BY DEF Observe, At, locks, process
<1>2. /\ t.planned \in Nat /\ t.deleted \in Nat /\ t.skipped \in Nat /\ t.failed \in Nat
      /\ metrics \in Counts
  BY ServerAssumption, FS_CardinalityType DEF TypeOK, Tallies, Numbers
<1>3. metrics' = [planned |-> metrics.planned + t.planned,
                  deleted |-> metrics.deleted + t.deleted,
                  skipped |-> metrics.skipped + t.skipped,
                  failed  |-> metrics.failed + t.failed,
                  success |-> metrics.success + (IF t.failed = 0 THEN 1 ELSE 0),
                  failure |-> metrics.failure + (IF t.failed > 0 THEN 1 ELSE 0)]
  <2>1. metrics' = Add(metrics, t)
    BY DEF Observe
  <2>2. DOMAIN metrics = {"planned", "deleted", "skipped", "failed", "success", "failure"}
    BY <1>2 DEF Counts
  <2>3. QED BY <2>1, <2>2 DEF Add
<1>4. TypeOK'
  <2>1. NoTally \in Tallies
    BY ServerAssumption, FS_CardinalityType DEF NoTally, Tallies, Numbers
  <2>2. tally' \in [Requests -> Tallies] /\ code' \in [Requests -> {0, 200, 401, 409, 500}]
    BY <1>1, <2>1 DEF TypeOK
  <2>3. metrics' \in Counts
    BY <1>2, <1>3 DEF Counts
  <2>4. "unlocking" \in Places
    BY DEF Places, Inside
  <2>5. TypedHandler'
    BY <2>4, AtTyped DEF Observe
  <2>6. QED BY <1>1, <2>2, <2>3, <2>5 DEF TypeOK, TypedHandler, store
<1>5. OneInside' /\ MutexHeld' /\ Answers'
  BY <1>1 DEF TypeOK, Places, OneInside, MutexHeld, Answers, Inside
<1>6. Balance' /\ PlansStayFresh' /\ Gone'
  BY <1>1 DEF TypeOK, Balance, PlansStayFresh, Gone, store
<1>7. Counted'
  <2>1. Unobserved = {r} /\ Unobserved' = {}
    BY <1>1 DEF TypeOK, Places, OneInside, Unobserved, Inside
  <2>2. Covered(NoTally)'
    <3>1. Covered(tally[r])
      BY <2>1 DEF Counted
    <3>2. /\ metrics.deleted \in Nat /\ metrics.skipped \in Nat /\ metrics.failed \in Nat
          /\ Cardinality(Doubtful) \in Nat /\ Doubtful' = Doubtful /\ reported' = reported
      BY <1>1, <1>2, DoubtfulFinite DEF Counts, Doubtful, store
    <3>3. QED BY <1>1, <1>2, <1>3, <3>1, <3>2 DEF Covered, NoTally
  <2>3. code[r] = 0 /\ code'[r] = status /\ code'[r] # 0 /\ \A q \in Requests \ {r} : code'[q] = code[q]
    BY <1>1 DEF Answers, TypeOK
  <2>4. /\ IsFiniteSet(Successes') /\ IsFiniteSet(Failures')
        /\ Cardinality(Successes') = metrics.success + (IF code'[r] = 200 THEN 1 ELSE 0)
        /\ Cardinality(Failures') = metrics.failure + (IF code'[r] = 500 THEN 1 ELSE 0)
    BY <2>3, AnswerCounted
  <2>5. /\ Cardinality(Successes') = metrics'.success
        /\ Cardinality(Failures') = metrics'.failure
    BY <1>2, <1>3, <2>3, <2>4
  <2>6. QED BY <2>1, <2>2, <2>4, <2>5 DEF Counted
<1>8. QED BY <1>4, <1>5, <1>6, <1>7

LEMMA UnwindInv ==
  ASSUME Inv, NEW r \in Requests, Unwind(r)
  PROVE  Inv'
<1> USE DEF Inv
<1>1. /\ UNCHANGED <<left, tally, code, metrics, main, store>>
      /\ \/ /\ pc[r] = "unlocking" /\ pc' = [pc EXCEPT ![r] = "releasing"]
            /\ applyMu' = Nobody /\ running' = running
         \/ /\ pc[r] = "releasing" /\ pc' = [pc EXCEPT ![r] = "done"]
            /\ running' = FALSE /\ applyMu' = applyMu
  BY DEF Unwind, At, run, process
<1>2. TypeOK'
  <2>1. "releasing" \in Places /\ "done" \in Places
    BY DEF Places, Inside
  <2>2. TypedHandler'
    BY <2>1, AtTyped DEF Unwind
  <2>3. running' \in BOOLEAN
    <3>1. running \in BOOLEAN
      BY DEF TypeOK
    <3>2. CASE running' = running
      BY <3>1, <3>2
    <3>3. CASE running' = FALSE
      BY <3>3
    <3>4. QED BY <1>1, <3>2, <3>3, Zenon
  <2>4. applyMu' \in Requests \cup {Nobody}
    BY <1>1 DEF TypeOK
  <2>5. QED BY <1>1, <2>2, <2>3, <2>4 DEF TypeOK, TypedHandler, store
<1>3. OneInside' /\ MutexHeld' /\ Answers'
  BY <1>1, ServerAssumption DEF TypeOK, Places, OneInside, MutexHeld, Answers, Inside
<1>4. Balance' /\ PlansStayFresh' /\ Gone'
  BY <1>1 DEF TypeOK, Balance, PlansStayFresh, Gone, store
<1>5. Counted'
  <2>1. Unobserved' = Unobserved
    BY <1>1 DEF TypeOK, Unobserved
  <2>2. QED BY <1>1, <2>1, CountedKept DEF Doubtful, store
<1>6. QED BY <1>2, <1>3, <1>4, <1>5

LEMMA StepInv == Inv /\ [Next]_vars => Inv'
<1> SUFFICES ASSUME Inv, [Next]_vars PROVE Inv'
  OBVIOUS
<1>1. ASSUME NEW r \in Requests, Handle(r) PROVE Inv'
  <2>1. CASE Unauthorized(r) \/ Conflict(r)
    BY <2>1, RefuseInv DEF Unauthorized, Conflict
  <2>2. CASE Admit(r) \/ Lock(r) \/ PlanFails(r) \/ Plan(r)
    BY <2>2, AdmitInv, LockInv, PlanFailsInv, PlanInv
  <2>3. CASE \/ \E a \in Artifacts : Settle(r, a)
             \/ ApplyReturns(r) \/ ApplyRefuses(r)
    BY <2>3, SettleInv, ApplyReturnsInv, ApplyRefusesInv
  <2>4. CASE Observe(r) \/ Unwind(r)
    BY <2>4, ObserveInv, UnwindInv
  <2>5. QED BY <1>1, <2>1, <2>2, <2>3, <2>4 DEF Handle
<1>2. QED BY <1>1, WorldInv, ProcessInv DEF Next

-----------------------------------------------------------------------------
(* Theorems.                                                               *)

\* Every reachable state of the server satisfies the inductive invariant.
THEOREM Invariance == Spec => []Inv
<1>1. Init => Inv
  BY InitInv
<1>2. Inv /\ [Next]_vars => Inv'
  BY StepInv
<1>3. QED BY <1>1, <1>2, PTL DEF Spec

\* Type correctness; no counter of a run exceeds the number of artifacts.
THEOREM ServerTypeCorrect == Spec => []TypeOK
<1>1. Inv => TypeOK
  BY DEF Inv
<1>2. QED BY <1>1, Invariance, PTL

\* However many requests overlap, no run deletes from a plan that another run
\* has made stale.
THEOREM PlansFresh == Spec => []PlansStayFresh
<1>1. Inv => PlansStayFresh
  BY DEF Inv
<1>2. QED BY <1>1, Invariance, PTL

\* The counters miss nothing but the active run.
THEOREM MetricsHold == Spec => []MetricsTrue
<1>1. Inv => MetricsTrue
  <2> SUFFICES ASSUME Inv PROVE MetricsTrue
    OBVIOUS
  <2>1. Cardinality(Unobserved) <= 1
    <3>1. CASE Unobserved = {}
      BY <3>1, FS_EmptySet
    <3>2. CASE \E r \in Requests : r \in Unobserved
      <4>1. PICK r \in Requests : Unobserved = {r}
        BY <3>2, ObservedAlone DEF Inv
      <4>2. Cardinality({r}) = 1
        BY FS_Singleton
      <4>3. QED BY <4>1, <4>2
    <3>3. Unobserved \subseteq Requests
      BY DEF Unobserved
    <3>4. QED BY <3>1, <3>2, <3>3
  <2>2. Cardinality(erased \ reported) <= Cardinality(Doubtful)
        /\ Cardinality(erased \ reported) \in Nat /\ Cardinality(Doubtful) \in Nat
    <3>1. erased \ reported \subseteq Doubtful
      BY DEF Doubtful
    <3>2. QED BY <3>1, DoubtfulFinite, FS_Subset, FS_CardinalityType DEF Inv
  <2>3. Covered(NoTally) => Complete(NoTally)
    <3>1. metrics.skipped \in Nat /\ metrics.failed \in Nat
      BY DEF Inv, TypeOK, Counts
    <3>2. QED BY <2>2, <3>1 DEF Covered, Complete, NoTally
  <2>4. ASSUME NEW r \in Unobserved, Covered(tally[r]) PROVE Complete(tally[r])
    <3>1. /\ metrics.skipped \in Nat /\ metrics.failed \in Nat
          /\ tally[r].skipped \in Nat /\ tally[r].failed \in Nat
      BY ServerAssumption, FS_CardinalityType DEF Inv, TypeOK, Counts, Tallies, Numbers, Unobserved
    <3>2. QED BY <2>2, <2>4, <3>1 DEF Covered, Complete
  <2>5. QED BY <2>1, <2>3, <2>4 DEF Inv, Counted, MetricsTrue, Successes, Failures
<1>2. QED BY <1>1, Invariance, PTL

\* A request is refused with 409 only while another run is active.
THEOREM RefusalsJustified == Spec => RefusedOnlyWhenBusy
<1> DEFINE Busy == \A r \in Requests : code'[r] = 409 /\ code[r] # 409 =>
                     \E q \in Requests \ {r} : pc[q] \in Inside
<1>1. ASSUME Inv, [Next]_vars PROVE Busy
  <2> SUFFICES ASSUME NEW r \in Requests, code'[r] = 409, code[r] # 409
               PROVE  \E q \in Requests \ {r} : pc[q] \in Inside
    OBVIOUS
  <2>1. code' # code
    OBVIOUS
  <2>2. PICK q \in Requests : Handle(q)
    BY <1>1, <2>1 DEF Next, vars, World, Arrive, Disconnect, Vanish, Push, Land,
                      Signal, Shutdown, ServeFails, Exit, MainStep
  <2>3. Conflict(q) /\ q = r
    <3>1. code \in [Requests -> {0, 200, 401, 409, 500}]
      BY <1>1 DEF Inv, TypeOK
    <3>2. Conflict(q)
      BY <2>1, <2>2, <3>1 DEF Handle, Unauthorized, Conflict, Refuse, Admit, Lock, PlanFails,
         Plan, Settle, ApplyReturns, ApplyRefuses, Observe, Unwind
    <3>3. QED BY <3>1, <3>2 DEF Conflict, Refuse
  <2>4. running /\ pc[r] = "arrived"
    BY <2>3 DEF Conflict, Refuse, At
  <2>5. QED BY <1>1, <2>4 DEF Inv, OneInside, Inside
<1>2. QED BY <1>1, Invariance, PTL DEF Spec, RefusedOnlyWhenBusy

\* The flag already excludes: the mutex is free whenever it is asked for.
THEOREM MutexUncontended == Spec => []NeverWaits
<1>1. Inv => NeverWaits
  BY DEF Inv, NeverWaits, OneInside, MutexHeld, Inside, TypeOK
<1>2. QED BY <1>1, Invariance, PTL

=============================================================================
