--------------------------- MODULE SchedulerProofs --------------------------
(***************************************************************************)
(* Theorems about Scheduler for every schedule, every length of a run and  *)
(* every moment of a signal: no occurrence is served twice, what a run     *)
(* overlapped is counted before the loop waits again, and a clean return   *)
(* leaves no run behind.  The inductive invariant is Inv.                  *)
(***************************************************************************)
EXTENDS Scheduler, FiniteSetTheorems, TLAPS

\* All that was run or counted had come due by x, one for one.
CountedTo(x) == runs + skipped <= Cardinality(Occurrences(2, x))

\* A run that the timer started is active, or has not been accounted for.
Serving == loop = "ran" \/ (loop = "running" /\ runs > 0)

\* Until its first occurrence the loop has nothing to account for.
Fresh == loop = "starting" \/ (loop = "running" /\ runs = 0)

AtFirst == Fresh => runs = 0 /\ skipped = 0 /\ overlapped = {}

\* The loop never serves an occurrence before it is due.
NeverEarly == loop = "due" \/ Serving => next <= clock

\* What it waits for or serves is a new occurrence: the account ends just
\* before it while it is awaited, and with it while it is served.
Accounts ==
  Due # {} =>
    /\ CountedTo(clock)
    /\ loop \in {"waiting", "due"} => next >= 2 /\ IsDue(next) /\ CountedTo(next - 1)
    /\ Serving => next >= 2 /\ CountedTo(next)

\* What came due during a run and had passed when the present one was due.
Earlier == {t \in overlapped : t <= next}

Overlaps ==
  /\ \A t \in overlapped : t <= clock /\ IsDue(t)
  /\ Serving => Cardinality(Earlier) <= skipped
  /\ ~Serving => Cardinality(overlapped) <= skipped

Inv == TypeOK /\ AtFirst /\ NeverEarly /\ Accounts /\ Overlaps /\ CleanReturn

-----------------------------------------------------------------------------
(* Occurrences.                                                            *)

LEMMA OccurrencesFinite ==
  ASSUME NEW a \in Nat, NEW b \in Int
  PROVE  IsFiniteSet(Occurrences(a, b)) /\ Cardinality(Occurrences(a, b)) \in Nat
<1>1. IsFiniteSet(a..b)
  BY FS_Interval
<1>2. Occurrences(a, b) \in SUBSET (a..b)
  BY DEF Occurrences
<1>3. QED BY <1>1, <1>2, FS_Subset, FS_CardinalityType

\* The occurrences of an interval are those of its two parts.
LEMMA OccurrencesSplit ==
  ASSUME NEW a \in Nat, NEW b \in Int, NEW c \in Int, a <= b + 1, b <= c
  PROVE  Cardinality(Occurrences(a, c))
           = Cardinality(Occurrences(a, b)) + Cardinality(Occurrences(b + 1, c))
<1> DEFINE whole  == Occurrences(a, c)
           before == Occurrences(a, b)
           after  == Occurrences(b + 1, c)
<1>1. whole = before \cup after /\ before \cap after = {}
  BY DEF Occurrences
<1>2. IsFiniteSet(before) /\ IsFiniteSet(after)
  BY OccurrencesFinite
<1> HIDE DEF whole, before, after
<1>3. Cardinality(before) \in Nat /\ Cardinality(after) \in Nat /\ Cardinality({}) = 0
  BY <1>2, FS_CardinalityType, FS_EmptySet
<1>4. Cardinality(whole) = Cardinality(before) + Cardinality(after) - Cardinality({})
  BY <1>1, <1>2, FS_Union
<1>5. Cardinality(whole) = Cardinality(before) + Cardinality(after)
  BY <1>3, <1>4
<1>6. QED BY <1>5 DEF whole, before, after

LEMMA OccurrencesGrow ==
  ASSUME NEW a \in Nat, NEW b \in Int, NEW c \in Int, a <= b + 1, b <= c
  PROVE  Cardinality(Occurrences(a, b)) <= Cardinality(Occurrences(a, c))
<1>1. Cardinality(Occurrences(a, c))
        = Cardinality(Occurrences(a, b)) + Cardinality(Occurrences(b + 1, c))
  BY OccurrencesSplit
<1>2. Cardinality(Occurrences(a, b)) \in Nat
  BY OccurrencesFinite
<1>3. Cardinality(Occurrences(b + 1, c)) \in Nat
  <2>1. b + 1 \in Nat
    OBVIOUS
  <2>2. QED BY <2>1, OccurrencesFinite
<1>4. QED BY <1>1, <1>2, <1>3

LEMMA OneMoreOccurrence ==
  ASSUME NEW a \in Nat, NEW n \in Nat, a <= n, IsDue(n)
  PROVE  Cardinality(Occurrences(a, n)) = Cardinality(Occurrences(a, n - 1)) + 1
<1>1. Occurrences(n, n) = {n}
  BY DEF Occurrences
<1>2. Cardinality(Occurrences(n, n)) = 1
  BY <1>1, FS_Singleton
<1>3. Cardinality(Occurrences(a, n))
        = Cardinality(Occurrences(a, n - 1)) + Cardinality(Occurrences(n - 1 + 1, n))
  BY OccurrencesSplit
<1>4. QED BY <1>2, <1>3

-----------------------------------------------------------------------------
(* The next occurrence.                                                    *)

LEMMA Smallest ==
  ASSUME NEW T \in SUBSET Nat, T # {}
  PROVE  \E x \in T : \A y \in T : x <= y
<1> DEFINE Less == {p \in Nat \X Nat : p[1] < p[2]}
<1>1. Less = OpToRel(<, Nat)
  BY DEF OpToRel
<1>2. IsWellFoundedOn(Less, Nat)
  BY <1>1, NatLessThanWellFounded
<1>3. PICK x \in T : \A y \in T : ~(<<y, x>> \in Less)
  <2> HIDE DEF Less
  <2> QED BY <1>2, WFMin
<1>4. ASSUME NEW y \in T PROVE x <= y
  <2>1. <<y, x>> \in Nat \X Nat /\ <<y, x>>[1] = y /\ <<y, x>>[2] = x
    OBVIOUS
  <2>2. ~(y < x)
    BY <1>3, <2>1
  <2>3. QED BY <2>2
<1>5. QED BY <1>4

\* A schedule that has occurrences has one in every period.
LEMMA DueWithinPeriod ==
  ASSUME NEW t \in Nat, Due # {}
  PROVE  \E n \in t+1..t+Period : IsDue(n)
<1> USE SchedulerAssumption
<1>1. PICK d \in Due : d \in 0..(Period - 1)
  OBVIOUS
<1> DEFINE q == t \div Period
           r == t % Period
<1>2. q \in Nat /\ r \in 0..(Period - 1) /\ t = (q * Period) + r
  OBVIOUS
<1>3. ASSUME NEW m \in Nat PROVE ((m * Period) + d) % Period = d
  BY <1>1
<1>4. CASE r < d
  <2>1. (q * Period) + d \in t+1..t+Period
    <3> DEFINE z == q * Period
    <3>1. z \in Nat BY <1>2
    <3> HIDE DEF z, r, q
    <3>2. t = z + r BY <1>2 DEF z
    <3>3. z + d \in t+1..t+Period
      BY <1>1, <1>2, <1>4, <3>1, <3>2
    <3>4. QED BY <3>3 DEF z
  <2>2. ((q * Period) + d) % Period = d
    BY <1>2, <1>3
  <2>3. QED BY <1>1, <2>1, <2>2 DEF IsDue
<1>5. CASE d <= r
  <2>1. ((q + 1) * Period) + d \in t+1..t+Period
    <3> DEFINE z == q * Period
    <3>1. z \in Nat /\ (q + 1) * Period = z + Period BY <1>2
    <3> HIDE DEF z, r, q
    <3>2. t = z + r BY <1>2 DEF z
    <3>3. z + Period + d \in t+1..t+Period
      BY <1>1, <1>2, <1>5, <3>1, <3>2
    <3>4. QED BY <3>1, <3>3
  <2>2. (((q + 1) * Period) + d) % Period = d
    <3>1. q + 1 \in Nat
      BY <1>2
    <3> HIDE DEF q
    <3>2. QED BY <3>1, <1>3
  <2>3. QED BY <1>1, <2>1, <2>2 DEF IsDue
<1>6. QED BY <1>1, <1>2, <1>4, <1>5

\* NextDue is an occurrence after t, and none lies between.
LEMMA NextDueIsNext ==
  ASSUME NEW t \in Nat, Due # {}
  PROVE  /\ NextDue(t) \in t+1..t+Period
         /\ IsDue(NextDue(t))
         /\ Occurrences(t + 1, NextDue(t) - 1) = {}
<1> USE SchedulerAssumption
<1> DEFINE T == {n \in t+1..t+Period : IsDue(n)}
<1>1. T # {} /\ T \in SUBSET Nat
  BY DueWithinPeriod
<1>2. PICK n \in T : \A m \in T : n <= m
  <2> HIDE DEF T
  <2> QED BY <1>1, Smallest
<1>3. Occurrences(t + 1, n - 1) = {}
  BY <1>2 DEF Occurrences
<1>4. \E k \in t+1..t+Period : IsDue(k) /\ Occurrences(t + 1, k - 1) = {}
  BY <1>2, <1>3
<1>5. NextDue(t) = CHOOSE k \in t+1..t+Period : IsDue(k) /\ Occurrences(t + 1, k - 1) = {}
  BY DEF NextDue
<1> HIDE DEF T
<1>6. QED BY <1>4, <1>5

-----------------------------------------------------------------------------
(* The inductive invariant.                                                *)

LEMMA UnionBound ==
  ASSUME NEW S, NEW A, NEW B, IsFiniteSet(A), IsFiniteSet(B), S \subseteq A \cup B
  PROVE  Cardinality(S) <= Cardinality(A) + Cardinality(B)
<1>1. /\ IsFiniteSet(A \cup B)
      /\ Cardinality(A \cup B) = Cardinality(A) + Cardinality(B) - Cardinality(A \cap B)
  BY FS_Union
<1>2. IsFiniteSet(A \cap B)
  BY FS_Intersection
<1>3. Cardinality(A) \in Nat /\ Cardinality(B) \in Nat /\ Cardinality(A \cap B) \in Nat
  BY <1>2, FS_CardinalityType
<1>4. IsFiniteSet(S) /\ Cardinality(S) <= Cardinality(A \cup B)
  BY <1>1, FS_Subset
<1>5. Cardinality(S) \in Nat
  BY <1>4, FS_CardinalityType
<1>6. QED BY <1>1, <1>3, <1>4, <1>5

LEMMA OverlappedFinite ==
  ASSUME TypeOK
  PROVE  /\ IsFiniteSet(overlapped) /\ IsFiniteSet(Earlier)
         /\ Cardinality(overlapped) \in Nat /\ Cardinality(Earlier) \in Nat
         /\ Cardinality(Earlier) <= Cardinality(overlapped)
<1>1. IsFiniteSet(1..Horizon)
  BY SchedulerAssumption, FS_Interval
<1>2. overlapped \in SUBSET (1..Horizon) /\ Earlier \in SUBSET overlapped
  BY DEF TypeOK, Earlier
<1>3. IsFiniteSet(overlapped)
  BY <1>1, <1>2, FS_Subset
<1>4. QED BY <1>2, <1>3, FS_Subset, FS_CardinalityType

LEMMA InitInv == Init => Inv
<1> SUFFICES ASSUME Init PROVE Inv
  OBVIOUS
<1> USE SchedulerAssumption
<1>1. TypeOK /\ AtFirst /\ NeverEarly /\ CleanReturn
  <2>0. 1 \in 1..Horizon /\ 0 \in 0..(Horizon + Period)
    OBVIOUS
  <2>1. TypeOK
    BY <2>0 DEF Init, TypeOK
  <2>2. AtFirst /\ NeverEarly /\ CleanReturn
    BY DEF Init, AtFirst, NeverEarly, Serving, CleanReturn
  <2>3. QED BY <2>1, <2>2
<1>2. Accounts
  <2>1. CountedTo(clock)
    BY OccurrencesFinite DEF Init, CountedTo
  <2>2. QED BY <2>1 DEF Init, Accounts, Serving
<1>3. Overlaps
  BY FS_EmptySet DEF Init, Overlaps, Serving
<1>4. QED BY <1>1, <1>2, <1>3 DEF Inv

\* The clock only adds occurrences, and to a run what comes due during it.
LEMMA TickInv ==
  ASSUME Inv, Tick
  PROVE  Inv'
<1> USE SchedulerAssumption DEF Inv
<1> DEFINE new == IF loop = "running" /\ runs > 0
                  THEN Occurrences(clock + 1, clock + 1) ELSE {}
<1>1. /\ clock \in Nat /\ clock' = clock + 1 /\ clock' \in 1..Horizon
      /\ UNCHANGED <<ctx, grace, main, err, loop, next, runs, skipped>>
  BY DEF Tick, TypeOK, serving, looping
<1>2. overlapped' = overlapped \cup new
  BY <1>1 DEF Tick
<1>3. \A t \in new : t = clock + 1 /\ IsDue(t)
  BY <1>1 DEF Occurrences
<1>4. (Fresh \/ ~Serving) => new = {}
  BY <1>1 DEF Fresh, Serving, TypeOK
<1> HIDE DEF new
<1>5. TypeOK'
  BY <1>1, <1>2, <1>3 DEF TypeOK
<1>6. AtFirst' /\ NeverEarly' /\ CleanReturn'
  <2>1. AtFirst'
    BY <1>1, <1>2, <1>4 DEF AtFirst, Fresh
  <2>2. NeverEarly'
    BY <1>1 DEF NeverEarly, Serving, TypeOK
  <2>3. CleanReturn'
    BY <1>1 DEF CleanReturn
  <2>4. QED BY <2>1, <2>2, <2>3
<1>7. Accounts'
  <2>0. /\ 2 \in Nat /\ clock \in Int /\ clock + 1 \in Int
        /\ 2 <= clock + 1 /\ clock <= clock + 1
    BY <1>1 DEF TypeOK
  <2>1. Cardinality(Occurrences(2, clock)) <= Cardinality(Occurrences(2, clock + 1))
    BY <2>0, OccurrencesGrow
  <2>2. /\ Cardinality(Occurrences(2, clock)) \in Nat
        /\ Cardinality(Occurrences(2, clock + 1)) \in Nat
    BY <2>0, OccurrencesFinite
  <2>3. Due # {} => CountedTo(clock)'
    BY <1>1, <2>1, <2>2 DEF Accounts, CountedTo, TypeOK
  <2>4. QED BY <1>1, <2>3 DEF Accounts, CountedTo, Serving
<1>8. Overlaps'
  <2>1. \A t \in overlapped' : t <= clock' /\ IsDue(t)
    BY <1>1, <1>2, <1>3 DEF Overlaps, TypeOK
  <2>2. ASSUME Serving PROVE Earlier' = Earlier
    <3>1. next <= clock /\ next \in Nat
      BY <2>2 DEF NeverEarly, TypeOK
    <3>2. QED BY <1>1, <1>2, <1>3, <3>1 DEF Earlier
  <2>3. ASSUME ~Serving PROVE overlapped' = overlapped
    BY <1>2, <1>4, <2>3
  <2>4. Serving' <=> Serving
    BY <1>1 DEF Serving
  <2>5. QED BY <1>1, <2>1, <2>2, <2>3, <2>4 DEF Overlaps
<1>9. QED BY <1>5, <1>6, <1>7, <1>8

\* A run begins with the occurrence that was awaited.
LEMMA ExecuteInv ==
  ASSUME Inv, Execute
  PROVE  Inv'
<1> USE SchedulerAssumption DEF Inv
<1>1. UNCHANGED <<clock, ctx, grace, main, err, next, skipped, overlapped>> /\ loop' = "running"
  BY DEF Execute, At, LoopOnly, serving
<1>2. \/ loop = "starting" /\ runs' = runs
      \/ loop = "due" /\ runs' = runs + 1
  BY DEF Execute, At
<1>3. main # "returned"
  BY DEF Execute, At, Alive
<1>4. TypeOK' /\ CleanReturn'
  BY <1>1, <1>2, <1>3 DEF TypeOK, CleanReturn
<1>5. AtFirst' /\ NeverEarly'
  BY <1>1, <1>2 DEF TypeOK, AtFirst, Fresh, NeverEarly, Serving
<1>6. Accounts'
  <2>1. CASE loop = "starting"
    <3>1. runs = 0 /\ ~Serving'
      BY <1>1, <1>2, <2>1 DEF AtFirst, Fresh, Serving
    <3>2. QED BY <1>1, <1>2, <2>1, <3>1 DEF Accounts, CountedTo
  <2>2. CASE loop = "due"
    <3> SUFFICES ASSUME Due # {}
                 PROVE  CountedTo(clock)' /\ CountedTo(next)' /\ next >= 2
      BY <1>1 DEF Accounts
    <3>1. /\ next \in Nat /\ next >= 2 /\ IsDue(next) /\ next <= clock /\ clock \in Nat
          /\ runs + skipped <= Cardinality(Occurrences(2, next - 1))
          /\ runs \in Nat /\ skipped \in Nat
      BY <2>2 DEF Accounts, NeverEarly, TypeOK, CountedTo
    <3>2. Cardinality(Occurrences(2, next)) = Cardinality(Occurrences(2, next - 1)) + 1
      BY <3>1, OneMoreOccurrence
    <3>3. Cardinality(Occurrences(2, next)) <= Cardinality(Occurrences(2, clock))
      BY <3>1, OccurrencesGrow
    <3>4. /\ Cardinality(Occurrences(2, next - 1)) \in Nat
          /\ Cardinality(Occurrences(2, next)) \in Nat
          /\ Cardinality(Occurrences(2, clock)) \in Nat
      <4>1. next - 1 \in Int /\ next \in Int /\ clock \in Int /\ 2 \in Nat
        BY <3>1
      <4>2. QED BY <4>1, OccurrencesFinite
    <3>5. runs' + skipped' <= Cardinality(Occurrences(2, next))
      BY <1>1, <1>2, <2>2, <3>1, <3>2, <3>4
    <3>6. runs' + skipped' <= Cardinality(Occurrences(2, clock))
      BY <1>1, <1>2, <2>2, <3>1, <3>3, <3>4, <3>5
    <3>7. QED BY <1>1, <3>1, <3>5, <3>6 DEF CountedTo
  <2>3. QED BY <1>2, <2>1, <2>2
<1>7. Overlaps'
  <2>1. CASE loop = "starting"
    <3>1. ~Serving /\ ~Serving'
      BY <1>1, <1>2, <2>1 DEF Serving, AtFirst, Fresh
    <3>2. QED BY <1>1, <3>1 DEF Overlaps
  <2>2. CASE loop = "due"
    <3>1. Serving' /\ ~Serving /\ Earlier' = Earlier
      BY <1>1, <1>2, <2>2 DEF Serving, TypeOK, Earlier
    <3>2. Cardinality(Earlier) <= Cardinality(overlapped)
      BY OverlappedFinite
    <3>3. QED BY <1>1, <3>1, <3>2, OverlappedFinite DEF Overlaps, TypeOK
  <2>3. QED BY <1>2, <2>1, <2>2
<1>8. QED BY <1>4, <1>5, <1>6, <1>7

\* The steps of the loop that start no run and count nothing.
LEMMA PassInv ==
  ASSUME Inv, Pass
  PROVE  Inv'
<1> USE SchedulerAssumption DEF Inv
<1>1. /\ UNCHANGED <<clock, ctx, grace, main, err, next, runs, skipped, overlapped>>
      /\ main # "returned"
  BY DEF Pass, At, Alive, LoopOnly, serving
<1>2. \/ loop = "starting" /\ loop' = "computing"
      \/ loop = "due" /\ loop' = "ran"
  BY DEF Pass, At
<1>3. TypeOK' /\ AtFirst' /\ NeverEarly' /\ CleanReturn'
  BY <1>1, <1>2 DEF TypeOK, AtFirst, Fresh, NeverEarly, Serving, CleanReturn
<1>4. Accounts'
  <2>1. CASE loop = "starting"
    BY <1>1, <1>2, <2>1 DEF Accounts, CountedTo, Serving
  <2>2. CASE loop = "due"
    <3> SUFFICES ASSUME Due # {}
                 PROVE  CountedTo(clock) /\ CountedTo(next) /\ next >= 2
      BY <1>1, <1>2, <2>2 DEF Accounts, CountedTo
    <3>1. /\ next \in Nat /\ next >= 2 /\ CountedTo(next - 1) /\ CountedTo(clock)
          /\ runs \in Nat /\ skipped \in Nat
      BY <2>2 DEF Accounts, TypeOK
    <3>2. next - 1 \in Int /\ next \in Int /\ 2 \in Nat /\ 2 <= next - 1 + 1 /\ next - 1 <= next
      BY <3>1
    <3>3. /\ Cardinality(Occurrences(2, next - 1)) <= Cardinality(Occurrences(2, next))
          /\ Cardinality(Occurrences(2, next - 1)) \in Nat
          /\ Cardinality(Occurrences(2, next)) \in Nat
      BY <3>2, OccurrencesGrow, OccurrencesFinite
    <3>4. QED BY <3>1, <3>3 DEF CountedTo
  <2>3. QED BY <1>2, <2>1, <2>2
<1>5. Overlaps'
  <2>1. Earlier' = Earlier /\ ~Serving
    BY <1>1, <1>2 DEF Earlier, Serving
  <2>2. QED BY <1>1, <2>1, OverlappedFinite DEF Overlaps, TypeOK
<1>6. QED BY <1>3, <1>4, <1>5

LEMMA RunReturnsInv ==
  ASSUME Inv, RunReturns
  PROVE  Inv'
<1> USE SchedulerAssumption DEF Inv
<1>1. /\ UNCHANGED <<clock, ctx, grace, main, err, next, runs, skipped, overlapped>>
      /\ main # "returned"
      /\ loop = "running" /\ loop' = IF runs = 0 THEN "computing" ELSE "ran"
  BY DEF RunReturns, At, Alive, LoopOnly, serving
<1>2. runs \in Nat
  BY DEF TypeOK
<1>3. TypeOK' /\ AtFirst' /\ NeverEarly' /\ CleanReturn'
  BY <1>1, <1>2 DEF TypeOK, AtFirst, Fresh, NeverEarly, Serving, CleanReturn
<1>4. Serving' <=> Serving
  BY <1>1, <1>2 DEF Serving
<1>5. Accounts'
  BY <1>1, <1>4 DEF Accounts, CountedTo
<1>6. Overlaps'
  BY <1>1, <1>4 DEF Overlaps, Earlier
<1>7. QED BY <1>3, <1>5, <1>6

\* What the count adds is what came due after the occurrence that was served.
LEMMA CountInv ==
  ASSUME Inv, Count
  PROVE  Inv'
<1> USE SchedulerAssumption DEF Inv
<1> DEFINE passed == Occurrences(next + 1, clock)
<1>1. /\ UNCHANGED <<clock, ctx, grace, main, err, next, runs, overlapped>>
      /\ main # "returned" /\ Due # {}
      /\ loop = "ran" /\ loop' = "computing"
      /\ skipped' = skipped + Cardinality(passed)
  BY DEF Count, At, Alive, LoopOnly, serving
<1>2. next \in Nat /\ next <= clock /\ clock \in Nat /\ next + 1 \in Nat /\ skipped \in Nat
      /\ runs \in Nat /\ Serving
  BY <1>1 DEF TypeOK, NeverEarly, Serving
<1>3. IsFiniteSet(passed) /\ Cardinality(passed) \in Nat
  BY <1>2, OccurrencesFinite
<1>4. TypeOK' /\ AtFirst' /\ NeverEarly' /\ CleanReturn'
  <2> HIDE DEF passed
  <2> QED BY <1>1, <1>2, <1>3 DEF TypeOK, AtFirst, Fresh, NeverEarly, Serving, CleanReturn
<1>5. Accounts'
  <2>1. next >= 2 /\ runs + skipped <= Cardinality(Occurrences(2, next))
    BY <1>1, <1>2 DEF Accounts, CountedTo
  <2>2. next \in Int /\ clock \in Int /\ 2 \in Nat /\ 2 <= next + 1
    BY <1>2, <2>1
  <2>3. Cardinality(Occurrences(2, clock)) = Cardinality(Occurrences(2, next)) + Cardinality(passed)
    BY <1>2, <2>2, OccurrencesSplit
  <2>4. Cardinality(Occurrences(2, next)) \in Nat
    BY <2>2, OccurrencesFinite
  <2>5. runs + skipped' <= Cardinality(Occurrences(2, clock))
    <3> HIDE DEF passed
    <3> QED BY <1>1, <1>2, <1>3, <2>1, <2>3, <2>4
  <2>6. QED BY <1>1, <2>5 DEF Accounts, CountedTo, Serving
<1>6. Overlaps'
  <2>1. overlapped \subseteq Earlier \cup passed
    BY <1>2 DEF Overlaps, Earlier, Occurrences, TypeOK
  <2>2. Cardinality(Earlier) <= skipped
    BY <1>2 DEF Overlaps
  <2> HIDE DEF passed
  <2>3. IsFiniteSet(Earlier) /\ Cardinality(Earlier) \in Nat /\ Cardinality(overlapped) \in Nat
    BY OverlappedFinite
  <2>4. Cardinality(overlapped) <= Cardinality(Earlier) + Cardinality(passed)
    BY <2>1, <2>3, <1>3, UnionBound
  <2>5. Cardinality(overlapped) <= skipped'
    BY <1>1, <1>2, <1>3, <2>2, <2>3, <2>4
  <2>6. ~Serving'
    BY <1>1 DEF Serving
  <2>7. QED BY <1>1, <2>5, <2>6 DEF Overlaps
<1>7. QED BY <1>4, <1>5, <1>6

\* The next occurrence is a new one: nothing lies between now and it.
LEMMA ComputeInv ==
  ASSUME Inv, Compute
  PROVE  Inv'
<1> USE SchedulerAssumption DEF Inv
<1>1. /\ UNCHANGED <<clock, ctx, grace, main, err, runs, skipped, overlapped>>
      /\ main # "returned"
      /\ loop = "computing" /\ loop' = "waiting"
      /\ next' = NextDue(clock)
  BY DEF Compute, At, Alive, LoopOnly, serving
<1>2. clock \in Nat /\ clock >= 1 /\ clock <= Horizon
  BY DEF TypeOK
<1> DEFINE n == NextDue(clock)
<1>3. Due = {} => n = 0
  BY DEF NextDue
<1>4. Due # {} => /\ n \in clock+1..clock+Period
                  /\ IsDue(n)
                  /\ Occurrences(clock + 1, n - 1) = {}
  BY <1>2, NextDueIsNext
<1>5. n \in 0..(Horizon + Period) /\ next' = n
  <2>0. next' = n
    BY <1>1
  <2> HIDE DEF n
  <2>1. CASE Due = {}
    BY <1>3, <2>0, <2>1
  <2>2. CASE Due # {}
    BY <1>2, <1>4, <2>0, <2>2
  <2>3. QED BY <2>0, <2>1, <2>2
<1> HIDE DEF n
<1>6. TypeOK' /\ AtFirst' /\ NeverEarly' /\ CleanReturn'
  BY <1>1, <1>5 DEF TypeOK, AtFirst, Fresh, NeverEarly, Serving, CleanReturn
<1>7. Accounts'
  <2> SUFFICES ASSUME Due # {}
               PROVE  n >= 2 /\ IsDue(n) /\ CountedTo(clock) /\ CountedTo(n - 1)
    BY <1>1, <1>5 DEF Accounts, CountedTo, Serving
  <2>1. n >= 2 /\ IsDue(n) /\ Occurrences(clock + 1, n - 1) = {}
    BY <1>2, <1>4
  <2>2. n - 1 \in Int /\ clock \in Int /\ 2 \in Nat /\ 2 <= clock + 1 /\ clock <= n - 1
    BY <1>2, <1>4
  <2>3. Cardinality(Occurrences(2, n - 1))
          = Cardinality(Occurrences(2, clock)) + Cardinality(Occurrences(clock + 1, n - 1))
    BY <2>2, OccurrencesSplit
  <2>4. Cardinality(Occurrences(2, clock)) \in Nat /\ Cardinality({}) = 0
    BY <2>2, OccurrencesFinite, FS_EmptySet
  <2>5. CountedTo(clock)
    BY DEF Accounts
  <2>6. CountedTo(n - 1)
    BY <2>1, <2>3, <2>4, <2>5 DEF CountedTo
  <2>7. QED BY <2>1, <2>5, <2>6
<1>8. Overlaps'
  BY <1>1 DEF Overlaps, Serving
<1>9. QED BY <1>6, <1>7, <1>8

LEMMA TimerFiresInv ==
  ASSUME Inv, TimerFires
  PROVE  Inv'
<1> USE SchedulerAssumption DEF Inv
<1>1. /\ UNCHANGED <<clock, ctx, grace, main, err, next, runs, skipped, overlapped>>
      /\ main # "returned" /\ clock >= next
      /\ loop = "waiting" /\ loop' = "due"
  BY DEF TimerFires, At, Alive, LoopOnly, serving
<1>2. TypeOK' /\ AtFirst' /\ NeverEarly' /\ CleanReturn'
  BY <1>1 DEF TypeOK, AtFirst, Fresh, NeverEarly, Serving, CleanReturn
<1>3. Accounts' /\ Overlaps'
  BY <1>1 DEF Accounts, CountedTo, Overlaps, Serving
<1>4. QED BY <1>2, <1>3

LEMMA LoopExitsInv ==
  ASSUME Inv, LoopExits
  PROVE  Inv'
<1> USE SchedulerAssumption DEF Inv
<1>1. /\ UNCHANGED <<clock, ctx, grace, main, err, next, runs, skipped, overlapped>>
      /\ main # "returned"
      /\ loop = "waiting" /\ loop' = "exited"
  BY DEF LoopExits, At, Alive, LoopOnly, serving
<1>2. TypeOK' /\ AtFirst' /\ NeverEarly' /\ CleanReturn'
  BY <1>1 DEF TypeOK, AtFirst, Fresh, NeverEarly, Serving, CleanReturn
<1>3. Accounts' /\ Overlaps'
  BY <1>1 DEF Accounts, CountedTo, Overlaps, Serving
<1>4. QED BY <1>2, <1>3

\* Neither the signal nor ListenAndServe touches the loop; a return without an
\* error is the one that found the loop gone.
LEMMA OutsideInv ==
  ASSUME Inv, Signal \/ Serve \/ UNCHANGED vars
  PROVE  Inv'
<1> USE SchedulerAssumption DEF Inv
<1>1. UNCHANGED <<clock, loop, next, runs, skipped, overlapped>>
  BY DEF Signal, Serve, ServeFails, StopServing, GraceEnds, Shutdown, Join, MainAt, looping, vars
<1>2. AtFirst' /\ NeverEarly' /\ Accounts' /\ Overlaps'
  BY <1>1 DEF AtFirst, Fresh, NeverEarly, Accounts, CountedTo, Overlaps, Earlier, Serving
<1>3. TypeOK' /\ CleanReturn'
  <2>1. CASE Signal
    BY <1>1, <2>1 DEF Signal, serving, TypeOK, CleanReturn
  <2>2. CASE ServeFails
    BY <1>1, <2>2 DEF ServeFails, MainAt, TypeOK, CleanReturn
  <2>3. CASE StopServing
    BY <1>1, <2>3 DEF StopServing, MainAt, TypeOK, CleanReturn
  <2>4. CASE GraceEnds
    BY <1>1, <2>4 DEF GraceEnds, TypeOK, CleanReturn
  <2>5. CASE Shutdown
    BY <1>1, <2>5 DEF Shutdown, MainAt, TypeOK, CleanReturn
  <2>6. CASE Join
    BY <1>1, <2>6 DEF Join, MainAt, TypeOK, CleanReturn
  <2>7. CASE UNCHANGED vars
    BY <1>1, <2>7 DEF vars, serving, TypeOK, CleanReturn
  <2>8. QED BY <2>1, <2>2, <2>3, <2>4, <2>5, <2>6, <2>7 DEF Serve
<1>4. QED BY <1>2, <1>3

\* The invariant holds in every state of every behaviour.
THEOREM Invariance == Spec => []Inv
<1>1. Inv /\ [Next]_vars => Inv'
  BY TickInv, ExecuteInv, PassInv, RunReturnsInv, CountInv, ComputeInv, TimerFiresInv,
     LoopExitsInv, OutsideInv DEF Next, Loop
<1>2. QED BY InitInv, <1>1, PTL DEF Spec

-----------------------------------------------------------------------------
(* What it says of the code.                                               *)

\* Every variable keeps its type: the counter never goes down past zero, and
\* the loop waits for no instant further than one period away.
THEOREM SchedulerTypeCorrect == Spec => []TypeOK
BY Invariance, PTL DEF Inv

\* A schedule that ever comes is served once per occurrence: runs and skipped
\* together are no more than what has passed, however long the runs take
\* (loop and skippedOccurrences).  Without an occurrence the claim is false: the
\* timer then fires at once, at the zero time.
THEOREM ServedOnce ==
  ASSUME Due # {}
  PROVE  Spec => []OncePerOccurrence
<1>1. Inv => OncePerOccurrence
  BY DEF Inv, Accounts, CountedTo, OncePerOccurrence
<1>2. QED BY Invariance, <1>1, PTL

\* Whatever came due while a run was active is in the counter when the loop
\* waits again.
THEOREM EveryOverlapCounted == Spec => []OverlapsCounted
<1>1. Inv => OverlapsCounted
  BY DEF Inv, Overlaps, Serving, OverlapsCounted
<1>2. QED BY Invariance, <1>1, PTL

\* ListenAndServe returns nil only when the goroutine of loop has ended.
THEOREM ReturnsClean == Spec => []CleanReturn
BY Invariance, PTL DEF Inv

\* A run never begins before its occurrence, nor on an occurrence at which it
\* was not due (the timer is set from the schedule).
RunsOnTime ==
  [][runs' # runs => next <= clock /\ IsDue(next)]_vars

THEOREM OnTime ==
  ASSUME Due # {}
  PROVE  Spec => RunsOnTime
<1>1. Inv /\ [Next]_vars => [runs' # runs => next <= clock /\ IsDue(next)]_vars
  <2> SUFFICES ASSUME Inv, Next, runs' # runs
               PROVE  next <= clock /\ IsDue(next)
    BY DEF vars, looping
  <2>1. Execute /\ loop = "due"
    BY DEF Next, Tick, Signal, Loop, Execute, Pass, RunReturns, Count, Compute, TimerFires,
           LoopExits, Serve, ServeFails, StopServing, GraceEnds, Shutdown, Join, MainAt, At, looping
  <2>2. QED BY <2>1 DEF Inv, NeverEarly, Accounts
<1>2. QED BY Invariance, <1>1, PTL DEF Spec, RunsOnTime
=============================================================================
