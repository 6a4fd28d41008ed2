---------------------------- MODULE GithubProofs ----------------------------
(***************************************************************************)
(* Theorems about both operations of the GitHub provider.                  *)
(*                                                                         *)
(* GithubApply, for every plan, worker pool and number of attempts: the    *)
(* composition takes only steps of Apply, what it reports as deleted it    *)
(* erased, a version that had changed is kept, and only a retried DELETE   *)
(* can be reported as skipped.                                             *)
(*                                                                         *)
(* GithubList, for every owner, page size and number of writes: a List     *)
(* loses no version that stays, and repeats no more than was pushed.       *)
(***************************************************************************)
EXTENDS GithubApply, GithubList, FiniteSetTheorems, SequenceTheorems, TLAPS

P == INSTANCE ApplyProofs

-----------------------------------------------------------------------------
(* Every step of the composition is a step of Apply, or none.              *)

LEMMA Frame == UNCHANGED engine => UNCHANGED A!vars
  BY DEF engine, A!vars, A!pool, A!collected

LEMMA CallStep ==
  ASSUME NEW w \in Workers, Delete(w)
  PROVE  A!Next \/ UNCHANGED engine
<1>1. ASSUME NEW e \in A!DeleteErrors, A!Return(w, e) PROVE A!Next
  BY <1>1 DEF A!Next
<1>2. CASE Get(w)
  BY <1>1, <1>2 DEF Get, A!DeleteErrors
<1>3. CASE SendDelete(w)
  BY <1>3 DEF SendDelete
<1>4. CASE Receive(w)
  BY <1>1, <1>4 DEF Receive
<1>5. CASE Fail(w)
  BY <1>5 DEF Fail
<1>6. CASE Retry(w)
  BY <1>1, <1>6 DEF Retry, A!DeleteErrors
<1> QED
  BY <1>2, <1>3, <1>4, <1>5, <1>6 DEF Delete

LEMMA StepOfApply == [Next]_vars => [A!Next]_A!vars
<1> SUFFICES ASSUME [Next]_vars PROVE A!Next \/ UNCHANGED A!vars
  OBVIOUS
<1>1. CASE EngineStep
  BY <1>1 DEF EngineStep, A!Next
<1>2. ASSUME NEW w \in Workers, Delete(w) PROVE A!Next \/ UNCHANGED A!vars
  BY <1>2, CallStep, Frame
<1>3. ASSUME UNCHANGED engine PROVE UNCHANGED A!vars
  BY <1>3, Frame
<1>4. ASSUME NEW a \in Actions, NEW k \in 1..Attempts, Process(a, k) PROVE UNCHANGED engine
  BY <1>4 DEF Process
<1>5. ASSUME NEW a \in Actions, NEW v \in {"changed", "gone"}, Write(a, v) PROVE UNCHANGED engine
  BY <1>5 DEF Write
<1>6. CASE UNCHANGED vars
  BY <1>3, <1>6 DEF vars
<1> QED
  BY <1>1, <1>2, <1>3, <1>4, <1>5, <1>6 DEF Next

\* The safety half of ImplementsApply: retries, late effects and drift leave
\* the apply one of those of module Apply.
THEOREM Composition == Spec => A!Spec
<1>1. Init => A!Init
  BY DEF Init
<1> QED
  BY <1>1, StepOfApply, PTL DEF Spec, A!Spec

\* So it has the invariant proved for Apply.
LEMMA EngineInvariant == Spec => []P!Inv
<1>1. P!ApplyAssumption
  BY GithubAssumption DEF P!ApplyAssumption, Actions
<1>2. A!Init => P!Init
  BY DEF A!Init, P!Init, A!Actions, P!Actions
<1>3. [A!Next]_A!vars => [P!Next]_P!vars
  BY DEF A!Next, P!Next, A!vars, P!vars, A!pool, P!pool, A!collected, P!collected,
         A!Engine, P!Engine, A!Start, P!Start, A!ParentDone, P!ParentDone,
         A!FeederExit, P!FeederExit, A!Feed, P!Feed, A!Worker, P!Worker,
         A!Unconfigured, P!Unconfigured, A!Report, P!Report, A!Cancel, P!Cancel,
         A!Cancels, P!Cancels, A!Reported, P!Reported, A!Exit, P!Exit,
         A!CloseOutcomes, P!CloseOutcomes, A!Finish, P!Finish,
         A!Return, P!Return, A!StatusOf, P!StatusOf, A!DeleteErrors, P!DeleteErrors
<1>4. P!Spec => []P!Inv
  BY <1>1, P!Invariance
<1> QED
  BY <1>2, <1>3, <1>4, Composition, PTL DEF A!Spec, P!Spec

-----------------------------------------------------------------------------
(* Attempts, replies and outcomes.                                         *)

\* Nothing has been erased for action a, and no attempt still can.
Untouched(a) == a \notin erased /\ \A k \in 1..Attempts : <<a, k>> \notin wire

Retried(a) == request[a].method = "DELETE" /\ request[a].attempt > 1

\* The status s of action a agrees with what became of its DELETE.
Consistent(a, s) ==
  /\ s = "skipped" => Retried(a) \/ Untouched(a)
  /\ s = "deleted" => a \in erased

\* Before the second attempt a DELETE is processed at most once, so a "404"
\* means what it says.
FirstAttempt(a) ==
  /\ request[a].state = "ready" => Untouched(a)
  /\ request[a].state = "sent" /\ reply[a] = "notFound" => Untouched(a)
  /\ <<a, 1>> \in wire => a \notin erased

CallsInv ==
  /\ request \in [Actions -> Requests]
  /\ reply \in [Actions -> Answers \cup {"none"}]
  /\ wire \subseteq Actions \X (1..Attempts)
  /\ erased \subseteq Actions
  /\ \A a \in Actions, k \in 1..Attempts : <<a, k>> \in wire => k <= request[a].attempt
  /\ \A a \in Actions : request[a].method = "GET" => Untouched(a)
  /\ \A a \in Actions :
       request[a].method = "DELETE" /\ request[a].attempt = 1 => FirstAttempt(a)
  /\ \A a \in Actions : reply[a] = "nil" => a \in erased
  /\ \A w \in Workers : pc[w] = "reporting" => Consistent(held[w], status[w])
  /\ \A a \in Actions : Consistent(a, recorded[a])

\* What Ownership says of a worker inside a call.
LEMMA Caller ==
  ASSUME P!Inv, NEW w \in Workers, NEW m, NEW s, At(w, m, s)
  PROVE  /\ held[w] \in Actions
         /\ recorded[held[w]] = "none"
         /\ \A x \in Workers : pc[x] = "reporting" => held[x] # held[w]
BY GithubAssumption DEF At, P!Inv, P!Ownership, P!Busy, P!TypeOK, Actions

LEMMA Holder ==
  ASSUME P!Inv, NEW x \in Workers, pc[x] = "reporting"
  PROVE  held[x] \in Actions
BY GithubAssumption DEF P!Inv, P!Ownership, P!Busy, P!TypeOK, Actions

LEMMA InitCalls == Init => CallsInv
<1> SUFFICES ASSUME Init PROVE CallsInv
  OBVIOUS
<1>1. First("GET") \in Requests
  BY GithubAssumption DEF First, Requests
<1>2. \A a \in Actions : request[a] = First("GET") /\ Untouched(a)
  BY DEF Init, Untouched
<1>3. \A a \in Actions : recorded[a] = "none"
  BY DEF Init, A!Init, A!Actions, Actions
<1>4. \A w \in Workers : pc[w] = "idle"
  BY DEF Init, A!Init
<1>5. \A a \in Actions : request[a].method = "GET"
  BY <1>2 DEF First
<1>6. reply \in [Actions -> Answers \cup {"none"}] /\ \A a \in Actions : reply[a] = "none"
  BY DEF Init
<1>7. request \in [Actions -> Requests] /\ wire = {} /\ erased = {}
  BY <1>1 DEF Init
<1> QED
  BY <1>2, <1>3, <1>4, <1>5, <1>6, <1>7 DEF CallsInv, Consistent

LEMMA EngineCalls ==
  ASSUME CallsInv, P!Inv, EngineStep
  PROVE  CallsInv'
<1> USE DEF EngineStep, calls
<1>1. \A a \in Actions : \A s : Consistent(a, s) => Consistent(a, s)'
  BY DEF Consistent, Retried, Untouched
<1>2. /\ (\A w \in Workers : pc[w] = "reporting" => Consistent(held[w], status[w]))'
      /\ (\A a \in Actions : Consistent(a, recorded[a]))'
      => CallsInv'
  BY DEF CallsInv, Untouched, FirstAttempt
<1>3. ASSUME \A w \in Workers : pc'[w] = "reporting" =>
                pc[w] = "reporting" /\ held'[w] = held[w] /\ status'[w] = status[w]
      PROVE  (\A w \in Workers : pc[w] = "reporting" => Consistent(held[w], status[w]))'
  BY <1>1, <1>3, Holder DEF CallsInv
<1>4. ASSUME UNCHANGED recorded PROVE (\A a \in Actions : Consistent(a, recorded[a]))'
  BY <1>1, <1>4 DEF CallsInv
<1>5. ASSUME NEW w \in Workers, A!Unconfigured(w) PROVE CallsInv'
  <2>1. (\A x \in Workers : pc[x] = "reporting" => Consistent(held[x], status[x]))'
    BY <1>1, <1>5, Holder DEF A!Unconfigured, CallsInv, Consistent, P!Inv, P!TypeOK
  <2> QED
    BY <1>2, <1>4, <1>5, <2>1 DEF A!Unconfigured, A!collected
<1>6. ASSUME NEW w \in Workers, A!Report(w) PROVE CallsInv'
  <2>1. held[w] \in Actions /\ Consistent(held[w], A!Reported(status[w]))
    BY <1>6, Holder DEF A!Report, A!Reported, A!Cancels, CallsInv, Consistent
  <2>2. (\A a \in Actions : Consistent(a, recorded[a]))'
    BY <1>1, <1>6, <2>1 DEF A!Report, CallsInv, P!Inv, P!TypeOK, P!Actions
  <2> QED
    BY <1>2, <1>3, <1>6, <2>2 DEF A!Report, P!Inv, P!TypeOK
<1>7. ASSUME NEW w \in Workers, A!Feed(w) \/ A!Cancel(w) \/ A!Exit(w) PROVE CallsInv'
  BY <1>2, <1>3, <1>4, <1>7 DEF A!Feed, A!Cancel, A!Exit, A!collected, P!Inv, P!TypeOK
<1>8. CASE A!ParentDone \/ A!FeederExit \/ A!CloseOutcomes \/ A!Finish
  BY <1>2, <1>3, <1>4, <1>8
     DEF A!ParentDone, A!FeederExit, A!CloseOutcomes, A!Finish, A!pool, A!collected
<1>9. ASSUME NEW fresh \in BOOLEAN, A!Start(fresh) PROVE CallsInv'
  BY <1>2, <1>3, <1>4, <1>9 DEF A!Start, A!pool
<1> QED
  BY <1>5, <1>6, <1>7, <1>8, <1>9 DEF A!Engine, A!Worker

\* A call that returns with error e leaves a status that agrees with the reply.
LEMMA ReturnCalls ==
  ASSUME CallsInv, P!Inv, NEW w \in Workers, NEW e, A!Return(w, e),
         Consistent(held[w], A!StatusOf(e)), UNCHANGED <<calls, erased>>
  PROVE  CallsInv'
<1>1. \A a, s : Consistent(a, s) => Consistent(a, s)'
  BY DEF Consistent, Retried, Untouched, calls
<1>2. (\A x \in Workers : pc[x] = "reporting" => Consistent(held[x], status[x]))'
  BY <1>1 DEF A!Return, CallsInv, P!Inv, P!TypeOK
<1>3. (\A a \in Actions : Consistent(a, recorded[a]))'
  BY <1>1 DEF A!Return, A!collected, CallsInv
<1> QED
  BY <1>2, <1>3 DEF CallsInv, Untouched, FirstAttempt, calls

\* A call that goes on with request r.
LEMMA RequestCalls ==
  ASSUME CallsInv, P!Inv, NEW w \in Workers, NEW m, NEW s, At(w, m, s), NEW r \in Requests,
         request' = [request EXCEPT ![held[w]] = r],
         UNCHANGED <<engine, wire, reply, erased>>,
         Untouched(held[w]) \/ r.attempt >= request[held[w]].attempt,
         r.method = "GET" => Untouched(held[w]),
         r.method = "DELETE" /\ r.attempt = 1 => FirstAttempt(held[w])'
  PROVE  CallsInv'
<1>1. /\ held[w] \in Actions /\ recorded[held[w]] = "none"
      /\ \A x \in Workers : pc[x] = "reporting" => held[x] # held[w]
  BY Caller
<1>2. /\ request' \in [Actions -> Requests]
      /\ request'[held[w]] = r
      /\ \A a \in Actions : a # held[w] => request'[a] = request[a]
  BY <1>1 DEF CallsInv
<1>3. \A a, s1 : a \in Actions /\ a # held[w] /\ Consistent(a, s1) => Consistent(a, s1)'
  BY <1>2 DEF Consistent, Retried, Untouched
<1>4. (\A x \in Workers : pc[x] = "reporting" => Consistent(held[x], status[x]))'
  BY <1>1, <1>3, Holder DEF CallsInv, engine
<1>5. (\A a \in Actions : Consistent(a, recorded[a]))'
  BY <1>1, <1>3 DEF CallsInv, Consistent, engine
<1>6. \A a \in Actions : Untouched(a)' <=> Untouched(a)
  BY DEF Untouched
<1>7. (\A a \in Actions : request[a].method = "GET" => Untouched(a))'
  BY <1>1, <1>2, <1>6 DEF CallsInv
<1>8. (\A a \in Actions :
         request[a].method = "DELETE" /\ request[a].attempt = 1 => FirstAttempt(a))'
  BY <1>1, <1>2, <1>6 DEF CallsInv, FirstAttempt, engine
<1>9. (\A a \in Actions, k \in 1..Attempts : <<a, k>> \in wire => k <= request[a].attempt)'
  <2> SUFFICES ASSUME NEW k \in 1..Attempts, <<held[w], k>> \in wire
               PROVE  k <= r.attempt
    BY <1>1, <1>2 DEF CallsInv
  <2>1. k <= request[held[w]].attempt /\ ~Untouched(held[w])
    BY <1>1 DEF CallsInv, Untouched
  <2>2. r.attempt \in Nat /\ request[held[w]].attempt \in Nat
    BY <1>1, GithubAssumption DEF CallsInv, Requests
  <2> QED
    BY <2>1, <2>2
<1> QED
  BY <1>2, <1>4, <1>5, <1>7, <1>8, <1>9 DEF CallsInv

LEMMA SendCalls ==
  ASSUME CallsInv, P!Inv, NEW w \in Workers, SendDelete(w)
  PROVE  CallsInv'
<1> DEFINE a == held[w]
           r == request[a]
<1>1. At(w, "DELETE", "ready")
  BY DEF SendDelete
<1>2. /\ a \in Actions /\ recorded[a] = "none"
      /\ \A x \in Workers : pc[x] = "reporting" => held[x] # a
  BY <1>1, Caller
<1>3. r \in Requests /\ r.method = "DELETE" /\ r.attempt \in 1..Attempts
  BY <1>1, <1>2 DEF At, CallsInv, Requests
<1>4. /\ request' = [request EXCEPT ![a].state = "sent"]
      /\ wire' = wire \cup {<<a, r.attempt>>}
      /\ reply' = [reply EXCEPT ![a] = "none"]
      /\ UNCHANGED <<engine, erased>>
  BY DEF SendDelete, history
<1>5. /\ request' \in [Actions -> Requests]
      /\ request'[a].method = "DELETE" /\ request'[a].attempt = r.attempt
      /\ request'[a].state = "sent" /\ reply'[a] = "none"
      /\ reply' \in [Actions -> Answers \cup {"none"}]
  BY <1>2, <1>3, <1>4 DEF CallsInv, Requests
<1>6. \A b \in Actions : b # a =>
        /\ request'[b] = request[b] /\ reply'[b] = reply[b]
        /\ \A k : <<b, k>> \in wire' <=> <<b, k>> \in wire
  BY <1>4 DEF CallsInv
<1>7. \A b \in Actions : b # a => (Untouched(b)' <=> Untouched(b))
  BY <1>4, <1>6 DEF Untouched
<1>8. \A b, s : b \in Actions /\ b # a /\ Consistent(b, s) => Consistent(b, s)'
  BY <1>4, <1>6, <1>7 DEF Consistent, Retried
<1>9. (\A x \in Workers : pc[x] = "reporting" => Consistent(held[x], status[x]))'
  BY <1>2, <1>4, <1>8, Holder DEF CallsInv, engine
<1>10. (\A b \in Actions : Consistent(b, recorded[b]))'
  BY <1>2, <1>4, <1>8 DEF CallsInv, Consistent, engine
<1>11. r.attempt = 1 => a \notin erased
  BY <1>1, <1>2, <1>3 DEF At, CallsInv, FirstAttempt, Untouched
<1>12. (\A b \in Actions :
          request[b].method = "DELETE" /\ request[b].attempt = 1 => FirstAttempt(b))'
  BY <1>4, <1>5, <1>6, <1>7, <1>11 DEF CallsInv, FirstAttempt
<1>13. (\A b \in Actions, k \in 1..Attempts : <<b, k>> \in wire => k <= request[b].attempt)'
  BY <1>2, <1>3, <1>4, <1>5, <1>6, GithubAssumption DEF CallsInv
<1>14. (\A b \in Actions : request[b].method = "GET" => Untouched(b))'
  BY <1>5, <1>6, <1>7 DEF CallsInv
<1> QED
  BY <1>2, <1>3, <1>4, <1>5, <1>6, <1>9, <1>10, <1>12, <1>13, <1>14 DEF CallsInv

LEMMA DeleteCalls ==
  ASSUME CallsInv, P!Inv, NEW w \in Workers, Delete(w)
  PROVE  CallsInv'
<1> DEFINE a == held[w]
<1> USE DEF history
<1>1. \A m, s : At(w, m, s) => a \in Actions /\ request[a] \in Requests
                               /\ request[a].method = m /\ request[a].state = s
  BY Caller DEF At, CallsInv
<1>2. CASE Get(w)
  <2>1. At(w, "GET", "ready") /\ Untouched(a)
    BY <1>1, <1>2 DEF Get, CallsInv
  <2>2. ASSUME NEW e \in {"notFound", "precondition", "other"}, A!Return(w, e), UNCHANGED request
        PROVE  CallsInv'
    <3>1. Consistent(a, A!StatusOf(e))
      BY <2>1 DEF Consistent, A!StatusOf
    <3> QED
      BY <1>2, <2>2, <3>1, ReturnCalls DEF Get, calls
  <2>3. ASSUME request' = [request EXCEPT ![a] = First("DELETE")], UNCHANGED engine
        PROVE  CallsInv'
    <3>1. First("DELETE") \in Requests /\ First("DELETE").method = "DELETE"
      BY GithubAssumption DEF First, Requests
    <3>2. UNCHANGED <<engine, wire, reply, erased>>
      BY <1>2, <2>3 DEF Get
    <3>3. FirstAttempt(a)'
      BY <2>1, <2>3, <3>2 DEF FirstAttempt, Untouched, engine
    <3> QED
      BY <2>1, <2>3, <3>1, <3>2, <3>3, RequestCalls
  <2> QED
    BY <1>2, <2>2, <2>3 DEF Get
<1>3. CASE SendDelete(w)
  BY <1>3, SendCalls
<1>4. CASE Receive(w)
  <2>1. At(w, "DELETE", "sent") /\ reply[a] \in A!DeleteErrors
    BY <1>4 DEF Receive
  <2>2. reply[a] = "notFound" => Retried(a) \/ Untouched(a)
    <3>1. request[a].attempt \in Nat \ {0}
      BY <1>1, <2>1, GithubAssumption DEF Requests
    <3>2. request[a].attempt = 1 \/ request[a].attempt > 1
      BY <3>1
    <3> QED
      BY <1>1, <2>1, <3>2 DEF CallsInv, FirstAttempt, Retried
  <2>3. Consistent(a, A!StatusOf(reply[a]))
    BY <1>1, <2>1, <2>2 DEF Consistent, A!StatusOf, A!DeleteErrors, CallsInv
  <2> QED
    BY <1>4, <2>3, ReturnCalls DEF Receive
<1>5. CASE Fail(w)
  <2>1. PICK m \in Methods, s \in {"ready", "sent"} : At(w, m, s)
    BY <1>5 DEF Fail
  <2> DEFINE r == [request[a] EXCEPT !.state = "backoff"]
  <2>2. request' = [request EXCEPT ![a] = r] /\ UNCHANGED <<engine, wire, reply, erased>>
    BY <1>1, <1>5, <2>1 DEF Fail
  <2>3. /\ r \in Requests /\ r.method = request[a].method /\ r.attempt = request[a].attempt
        /\ r.state = "backoff" /\ r.attempt \in Nat
    BY <1>1, <2>1, GithubAssumption DEF Requests
  <2>4. request'[a] = r
    BY <1>1, <2>1, <2>2 DEF CallsInv
  <2>5. r.method = "DELETE" /\ r.attempt = 1 => FirstAttempt(a)'
    BY <1>1, <2>1, <2>2, <2>3, <2>4 DEF FirstAttempt, CallsInv, engine
  <2>6. r.method = "GET" => Untouched(a)
    BY <1>1, <2>1, <2>3 DEF CallsInv
  <2>7. r.attempt >= request[a].attempt
    BY <2>3
  <2> HIDE DEF r
  <2> QED
    BY <2>1, <2>2, <2>3, <2>5, <2>6, <2>7, RequestCalls
<1>6. CASE Retry(w)
  <2>1. PICK m \in Methods : At(w, m, "backoff")
    BY <1>6 DEF Retry
  <2>2. ASSUME A!Return(w, "other"), UNCHANGED request PROVE CallsInv'
    <3>1. Consistent(a, A!StatusOf("other"))
      BY DEF Consistent, A!StatusOf
    <3> QED
      BY <1>6, <2>2, <3>1, ReturnCalls DEF Retry, calls
  <2> DEFINE r == [request[a] EXCEPT !.state = "ready", !.attempt = @ + 1]
  <2>3. ASSUME request[a].attempt < Attempts, UNCHANGED engine,
               request' = [request EXCEPT ![a].state = "ready", ![a].attempt = @ + 1]
        PROVE  CallsInv'
    <3>1. request' = [request EXCEPT ![a] = r] /\ UNCHANGED <<engine, wire, reply, erased>>
      BY <1>1, <1>6, <2>1, <2>3 DEF Retry, CallsInv
    <3>2. request[a].attempt \in 1..Attempts /\ request[a].attempt + 1 \in 1..Attempts
      BY <1>1, <2>1, <2>3, GithubAssumption DEF Requests
    <3>3. /\ r \in Requests /\ r.method = request[a].method
          /\ r.attempt = request[a].attempt + 1
      BY <1>1, <2>1, <3>2 DEF Requests
    <3>4. r.attempt # 1 /\ r.attempt >= request[a].attempt
      BY <3>2, <3>3, GithubAssumption
    <3>5. r.method = "GET" => Untouched(a)
      BY <1>1, <2>1, <3>3 DEF CallsInv
    <3> HIDE DEF r
    <3> QED
      BY <2>1, <3>1, <3>3, <3>4, <3>5, RequestCalls
  <2> QED
    BY <1>6, <2>2, <2>3 DEF Retry
<1> QED
  BY <1>2, <1>3, <1>4, <1>5, <1>6 DEF Delete

\* A version is erased for the first time while an attempt is on the wire.
LEMMA ProcessCalls ==
  ASSUME CallsInv, P!Inv, NEW a \in Actions, NEW k \in 1..Attempts, Process(a, k)
  PROVE  CallsInv'
<1>1. /\ <<a, k>> \in wire /\ wire' = wire \ {<<a, k>>}
      /\ UNCHANGED <<engine, request, drifted>>
  BY DEF Process
<1>2. PICK e \in Answers :
        /\ \/ e \in {"nil", "retry"} /\ erased' = erased \cup {a}
           \/ e # "nil" /\ erased' = erased
        /\ reply' = IF request[a].attempt = k /\ request[a].state = "sent"
                    THEN [reply EXCEPT ![a] = e] ELSE reply
  BY DEF Process
<1>3. request[a].method # "GET" /\ request[a] \in Requests /\ k <= request[a].attempt
  BY <1>1 DEF CallsInv, Untouched
<1>4. erased \subseteq erased' /\ erased' \subseteq erased \cup {a} /\ erased' \subseteq Actions
  BY <1>2 DEF CallsInv
<1>5. /\ reply' \in [Actions -> Answers \cup {"none"}]
      /\ \A b \in Actions : b # a => reply'[b] = reply[b]
  BY <1>2 DEF CallsInv
<1>6. \A b \in Actions : b # a => (Untouched(b)' <=> Untouched(b))
  BY <1>1, <1>2 DEF Untouched
<1>7. ~Untouched(a)
  BY <1>1 DEF Untouched
<1>8. \A b \in Actions : Untouched(b) => Untouched(b)'
  BY <1>6, <1>7
<1>9. \A b, s : b \in Actions /\ Consistent(b, s) => Consistent(b, s)'
  BY <1>1, <1>4, <1>8 DEF Consistent, Retried
<1>10. (\A x \in Workers : pc[x] = "reporting" => Consistent(held[x], status[x]))'
  BY <1>1, <1>9, Holder DEF CallsInv, engine
<1>11. (\A b \in Actions : Consistent(b, recorded[b]))'
  BY <1>1, <1>9 DEF CallsInv, engine
<1>12. (\A b \in Actions : reply[b] = "nil" => b \in erased)'
  BY <1>2, <1>4, <1>5 DEF CallsInv
<1>13. ASSUME request[a].attempt = 1 PROVE FirstAttempt(a)'
  <2>1. k = 1 /\ a \notin erased
    BY <1>1, <1>3, <1>13, GithubAssumption DEF CallsInv, FirstAttempt, Requests
  <2>2. request[a].state # "ready"
    BY <1>3, <1>7, <1>13 DEF CallsInv, FirstAttempt, Requests
  <2>3. \A j \in 1..Attempts : <<a, j>> \notin wire'
    BY <1>1, <1>13, <2>1 DEF CallsInv
  <2>4. <<a, 1>> \notin wire'
    BY <1>1, <2>1
  <2>5. request[a].state = "sent" /\ reply'[a] = "notFound" => a \notin erased'
    BY <1>2, <1>13, <2>1 DEF CallsInv
  <2> QED
    BY <1>1, <2>2, <2>3, <2>4, <2>5 DEF FirstAttempt, Untouched
<1>14. (\A b \in Actions :
          request[b].method = "DELETE" /\ request[b].attempt = 1 => FirstAttempt(b))'
  BY <1>1, <1>2, <1>5, <1>6, <1>13 DEF CallsInv, FirstAttempt
<1>15. (\A b \in Actions : request[b].method = "GET" => Untouched(b))'
  BY <1>1, <1>3, <1>6 DEF CallsInv
<1>16. /\ request' \in [Actions -> Requests]
       /\ wire' \subseteq Actions \X (1..Attempts)
       /\ (\A b \in Actions, j \in 1..Attempts : <<b, j>> \in wire => j <= request[b].attempt)'
  BY <1>1 DEF CallsInv
<1> QED
  BY <1>4, <1>5, <1>10, <1>11, <1>12, <1>14, <1>15, <1>16 DEF CallsInv

LEMMA StepCalls ==
  ASSUME CallsInv, P!Inv, [Next]_vars
  PROVE  CallsInv'
<1>1. ASSUME UNCHANGED <<engine, calls, history>> PROVE CallsInv'
  BY <1>1 DEF engine, calls, history, CallsInv, Consistent, Retried, Untouched, FirstAttempt
<1>2. ASSUME NEW a \in Actions, NEW v \in {"changed", "gone"}, Write(a, v) PROVE CallsInv'
  BY <1>1, <1>2 DEF Write
<1>3. CASE UNCHANGED vars
  BY <1>1, <1>3 DEF vars
<1> QED
  BY <1>2, <1>3, EngineCalls, DeleteCalls, ProcessCalls DEF Next

LEMMA CallsInvariant == Spec => []CallsInv
BY InitCalls, StepCalls, EngineInvariant, PTL DEF Spec

\* What is reported as deleted was erased by a DELETE of this apply.
THEOREM DeletedErased == Spec => []DeletedWereErased
<1>1. CallsInv => DeletedWereErased
  BY DEF CallsInv, Consistent, DeletedWereErased
<1> QED
  BY <1>1, CallsInvariant, PTL

\* Only a DELETE that was retried can have erased a version and be reported
\* as skipped.
THEOREM SkippedRetried == Spec => []SkippedOnlyAfterRetry
<1>1. CallsInv => SkippedOnlyAfterRetry
  BY DEF CallsInv, Consistent, Retried, Untouched, SkippedOnlyAfterRetry
<1> QED
  BY <1>1, CallsInvariant, PTL

-----------------------------------------------------------------------------
(* Versions that had changed.                                              *)

\* The plan was accepted.
Accepted == main # "checking" /\ err # "stale"

\* A GET lets a DELETE follow only for a version that is as planned, and none
\* is ever as planned again.
DriftInv ==
  /\ version \in [Actions -> {"planned", "changed", "gone"}]
  /\ drifted \subseteq Actions
  /\ err = "stale" => main = "returned" /\ fed = 0
  /\ main = "checking" => \A a \in Actions : request[a].method = "GET"
  /\ Accepted => \A a \in drifted : version[a] # "planned"
  /\ \A a \in Actions : request[a].method = "DELETE" => a \notin drifted

LEMMA InitDrift == Init => DriftInv
BY DEF Init, A!Init, DriftInv, First

LEMMA StepDrift ==
  ASSUME DriftInv, CallsInv, P!Inv, [Next]_vars
  PROVE  DriftInv'
<1>1. CASE EngineStep
  <2>1. ASSUME NEW fresh \in BOOLEAN, A!Start(fresh) PROVE DriftInv'
    BY <1>1, <2>1 DEF EngineStep, A!Start, A!pool, DriftInv, Accepted, calls, P!Inv, P!MainErr
  <2>2. ASSUME main' # "checking", main # "checking", err' # "stale", Accepted PROVE DriftInv'
    BY <1>1, <2>2 DEF EngineStep, DriftInv, Accepted, calls
  <2>3. ASSUME UNCHANGED <<main, err>>, main = "returned" => UNCHANGED fed PROVE DriftInv'
    BY <1>1, <2>3 DEF EngineStep, DriftInv, Accepted, calls
  <2>4. ASSUME NEW w \in Workers, A!Feed(w) \/ A!Worker(w)
        PROVE  UNCHANGED <<main, err>> /\ (main = "returned" => UNCHANGED fed)
    BY <2>4 DEF A!Feed, A!Worker, A!Unconfigured, A!Report, A!Cancel, A!Exit, A!collected
  <2>5. CASE A!ParentDone \/ A!FeederExit \/ A!CloseOutcomes
    BY <2>3, <2>5 DEF A!ParentDone, A!FeederExit, A!CloseOutcomes, A!collected
  <2>6. CASE A!Finish
    BY <2>2, <2>6 DEF A!Finish, Accepted, P!Inv, P!MainErr
  <2> QED
    BY <1>1, <2>1, <2>3, <2>4, <2>5, <2>6 DEF EngineStep, A!Engine
<1>2. ASSUME NEW w \in Workers, Delete(w) PROVE DriftInv'
  <2>1. PICK m, s : At(w, m, s)
    BY <1>2 DEF Delete, Get, SendDelete, Receive, Fail, Retry
  <2>2. held[w] \in Actions
    BY <2>1, Caller
  <2>3. Accepted
    BY <2>1 DEF At, P!Inv, P!Ownership, P!Busy, P!MainErr, P!TypeOK, DriftInv, Accepted
  <2>4. UNCHANGED <<main, err, fed, version, drifted>>
    BY <1>2 DEF Delete, Get, SendDelete, Receive, Fail, Retry, A!Return, A!collected,
                engine, history
  <2>5. \A a \in Actions : request'[a].method = request[a].method \/
                           (a = held[w] /\ version[a] = "planned")
    <3>1. request \in [Actions -> Requests]
      BY DEF CallsInv
    <3>2. CASE Get(w)
      BY <2>2, <3>1, <3>2 DEF Get, Same
    <3>3. CASE SendDelete(w)
      BY <2>2, <3>1, <3>3 DEF SendDelete, Requests
    <3>4. CASE Receive(w)
      BY <3>4 DEF Receive, calls
    <3>5. CASE Fail(w)
      BY <2>2, <3>1, <3>5 DEF Fail, Requests
    <3>6. CASE Retry(w)
      BY <2>2, <3>1, <3>6 DEF Retry, Requests
    <3> QED
      BY <1>2, <3>2, <3>3, <3>4, <3>5, <3>6 DEF Delete
  <2>6. \A a \in Actions : request'[a].method = "DELETE" => a \notin drifted
    BY <2>3, <2>5 DEF DriftInv
  <2> QED
    BY <2>3, <2>4, <2>6 DEF DriftInv, Accepted
<1>3. ASSUME NEW a \in Actions, NEW k \in 1..Attempts, Process(a, k) PROVE DriftInv'
  <2>1. UNCHANGED <<main, err, fed, request, drifted>>
    BY <1>3 DEF Process, engine
  <2>2. version' = [version EXCEPT ![a] = "gone"] \/ version' = version
    BY <1>3 DEF Process
  <2> QED
    BY <2>1, <2>2 DEF DriftInv, Accepted
<1>4. ASSUME NEW a \in Actions, NEW v \in {"changed", "gone"}, Write(a, v) PROVE DriftInv'
  BY <1>4 DEF Write, DriftInv, Accepted, engine, calls, history
<1>5. CASE UNCHANGED vars
  BY <1>5 DEF vars, engine, calls, history, DriftInv, Accepted
<1> QED
  BY <1>1, <1>2, <1>3, <1>4, <1>5 DEF Next

LEMMA DriftInvariant == Spec => []DriftInv
BY InitDrift, StepDrift, CallsInvariant, EngineInvariant, PTL DEF Spec

\* A version that had changed before the apply started is never erased.
THEOREM DriftedKept == Spec => []DriftedAreKept
<1>1. DriftInv /\ CallsInv => DriftedAreKept
  <2> SUFFICES ASSUME DriftInv, CallsInv, NEW a \in erased PROVE a \notin drifted
    BY DEF DriftedAreKept
  <2>1. request[a].method = "DELETE"
    BY DEF CallsInv, Untouched, Requests
  <2> QED
    BY <2>1 DEF DriftInv, CallsInv
<1> QED
  BY <1>1, DriftInvariant, CallsInvariant, PTL

\* Every variable of the composition keeps its type.
THEOREM GithubTypeCorrect == Spec => []TypeOK
<1>1. P!Inv => A!TypeOK
  BY DEF P!Inv, P!TypeOK, A!TypeOK, P!Statuses, A!Statuses, P!Actions, A!Actions
<1>2. DriftInv /\ CallsInv /\ P!Inv => TypeOK
  BY <1>1 DEF DriftInv, CallsInv, TypeOK
<1> QED
  BY <1>2, DriftInvariant, CallsInvariant, EngineInvariant, PTL

-----------------------------------------------------------------------------
(* Sequences.                                                              *)

\* What RemoveAt leaves, and where.
LEMMA RemoveFacts ==
  ASSUME NEW S, NEW s \in Seq(S), NEW i \in DOMAIN s
  PROVE  /\ RemoveAt(s, i) \in Seq(S)
         /\ Len(RemoveAt(s, i)) = Len(s) - 1
         /\ \A j \in DOMAIN RemoveAt(s, i) :
              /\ j \in DOMAIN s /\ j + 1 \in DOMAIN s
              /\ RemoveAt(s, i)[j] = IF j < i THEN s[j] ELSE s[j + 1]
<1> DEFINE a == SubSeq(s, 1, i - 1)
           b == SubSeq(s, i + 1, Len(s))
<1>1. /\ a \in Seq(S) /\ Len(a) = i - 1
      /\ \A j \in 1..(i - 1) : a[j] = s[j]
  OBVIOUS
<1>2. /\ b \in Seq(S) /\ Len(b) = Len(s) - i
      /\ \A j \in 1..(Len(s) - i) : b[j] = s[j + i]
  <2>1. /\ b \in Seq(S) /\ Len(b) = IF i + 1 <= Len(s) THEN Len(s) - (i + 1) + 1 ELSE 0
        /\ \A j \in 1..(Len(s) - (i + 1) + 1) : b[j] = s[i + 1 + j - 1]
    BY SubSeqProperties, ElementOfSeq
  <2> QED
    BY <2>1
<1>0. i \in 1..Len(s) /\ Len(s) \in Nat
  OBVIOUS
<1>3. RemoveAt(s, i) = a \o b
  BY DEF RemoveAt
<1> HIDE DEF a, b
<1>4. /\ a \o b \in Seq(S) /\ Len(a \o b) = Len(s) - 1
      /\ \A j \in 1..(Len(s) - 1) : (a \o b)[j] = IF j <= i - 1 THEN a[j] ELSE b[j - (i - 1)]
  <2>1. /\ a \o b \in Seq(S) /\ Len(a \o b) = Len(a) + Len(b)
        /\ \A j \in 1..(Len(a) + Len(b)) : (a \o b)[j] = IF j <= Len(a) THEN a[j] ELSE b[j - Len(a)]
    BY <1>1, <1>2, ConcatProperties
  <2>2. Len(a) + Len(b) = Len(s) - 1 /\ Len(a) = i - 1
    BY <1>0, <1>1, <1>2
  <2> QED
    BY <2>1, <2>2
<1>5. ASSUME NEW j \in 1..(Len(s) - 1)
      PROVE  (a \o b)[j] = IF j < i THEN s[j] ELSE s[j + 1]
  <2>1. CASE j < i
    BY <1>1, <1>4, <2>1
  <2>2. CASE j >= i
    <3>1. j - (i - 1) \in 1..(Len(s) - i) /\ ~(j <= i - 1)
      BY <2>2
    <3>2. b[j - (i - 1)] = s[j + 1]
      BY <1>2, <3>1
    <3> QED
      BY <1>4, <2>2, <3>1, <3>2
  <2>3. j < i \/ j >= i
    BY <1>0
  <2> QED
    BY <2>1, <2>2, <2>3
<1>6. DOMAIN (a \o b) = 1..(Len(s) - 1)
  BY <1>0, <1>4
<1>7. ASSUME NEW j \in DOMAIN (a \o b) PROVE j \in DOMAIN s /\ j + 1 \in DOMAIN s
  BY <1>0, <1>6, <1>7
<1> QED
  BY <1>3, <1>4, <1>5, <1>6, <1>7

\* What putting an element in front does.
LEMMA Prepended ==
  ASSUME NEW S, NEW s \in Seq(S), NEW x \in S
  PROVE  /\ <<x>> \o s \in Seq(S)
         /\ Len(<<x>> \o s) = Len(s) + 1
         /\ (<<x>> \o s)[1] = x
         /\ \A i \in DOMAIN s : i + 1 \in DOMAIN (<<x>> \o s) /\ (<<x>> \o s)[i + 1] = s[i]
         /\ \A i \in DOMAIN (<<x>> \o s) :
              i # 1 => i \in Nat /\ i - 1 \in DOMAIN s /\ (<<x>> \o s)[i] = s[i - 1]
<1>1. <<x>> \in Seq(S) /\ Len(<<x>>) = 1 /\ <<x>>[1] = x
  OBVIOUS
<1> DEFINE a == <<x>>
<1> HIDE DEF a
<1>2. /\ a \o s \in Seq(S) /\ Len(a \o s) = Len(s) + 1
      /\ \A i \in 1..(Len(s) + 1) : (a \o s)[i] = IF i <= 1 THEN a[i] ELSE s[i - 1]
  BY <1>1, ConcatProperties DEF a
<1>3. (a \o s)[1] = x
  BY <1>1, <1>2 DEF a
<1>4. ASSUME NEW i \in DOMAIN s PROVE i + 1 \in DOMAIN (a \o s) /\ (a \o s)[i + 1] = s[i]
  <2>1. i \in 1..Len(s) /\ i + 1 \in 1..(Len(s) + 1) /\ ~(i + 1 <= 1) /\ (i + 1) - 1 = i
    OBVIOUS
  <2> QED
    BY <1>2, <2>1
<1>5. ASSUME NEW i \in DOMAIN (a \o s), i # 1
      PROVE  i \in Nat /\ i - 1 \in DOMAIN s /\ (a \o s)[i] = s[i - 1]
  <2>1. i \in 1..(Len(s) + 1) /\ ~(i <= 1) /\ i - 1 \in 1..Len(s)
    BY <1>2, <1>5
  <2> QED
    BY <1>2, <2>1
<1> QED
  BY <1>2, <1>3, <1>4, <1>5 DEF a

\* An element of a concatenation is one of its parts'.
LEMMA RangeConcat ==
  ASSUME NEW S, NEW s \in Seq(S), NEW t \in Seq(S)
  PROVE  Range(s \o t) = Range(s) \cup Range(t)
<1>1. /\ s \o t \in Seq(S) /\ Len(s \o t) = Len(s) + Len(t)
      /\ \A i \in 1..(Len(s) + Len(t)) : (s \o t)[i] = IF i <= Len(s) THEN s[i] ELSE t[i - Len(s)]
  BY ConcatProperties
<1>2. ASSUME NEW x \in Range(s) PROVE x \in Range(s \o t)
  <2> PICK i \in 1..Len(s) : s[i] = x
    BY <1>2 DEF Range
  <2>1. i \in 1..(Len(s) + Len(t)) /\ (s \o t)[i] = x
    BY <1>1
  <2> QED
    BY <1>1, <2>1 DEF Range
<1>3. ASSUME NEW x \in Range(t) PROVE x \in Range(s \o t)
  <2> PICK i \in 1..Len(t) : t[i] = x
    BY <1>3 DEF Range
  <2>1. /\ Len(s) + i \in 1..(Len(s) + Len(t))
        /\ ~(Len(s) + i <= Len(s)) /\ (Len(s) + i) - Len(s) = i
    OBVIOUS
  <2>2. (s \o t)[Len(s) + i] = x
    BY <1>1, <2>1
  <2> QED
    BY <1>1, <2>1, <2>2 DEF Range
<1>4. ASSUME NEW x \in Range(s \o t) PROVE x \in Range(s) \cup Range(t)
  <2> PICK i \in 1..(Len(s) + Len(t)) : (s \o t)[i] = x
    BY <1>1, <1>4 DEF Range
  <2>1. CASE i <= Len(s)
    <3>1. i \in DOMAIN s /\ s[i] = x
      BY <1>1, <2>1
    <3> QED
      BY <3>1 DEF Range
  <2>2. CASE ~(i <= Len(s))
    <3>1. i - Len(s) \in DOMAIN t /\ t[i - Len(s)] = x
      BY <1>1, <2>2
    <3> QED
      BY <3>1 DEF Range
  <2> QED
    BY <2>1, <2>2
<1> QED
  BY <1>2, <1>3, <1>4

LEMMA RangeHeadTail ==
  ASSUME NEW S, NEW s \in Seq(S), s # <<>>
  PROVE  Range(s) = {Head(s)} \cup Range(Tail(s))
<1>1. /\ Tail(s) \in Seq(S) /\ Len(Tail(s)) = Len(s) - 1
      /\ \A i \in 1..Len(Tail(s)) : Tail(s)[i] = s[i + 1]
  BY HeadTailProperties
<1>2. Len(s) \in Nat \ {0} /\ Head(s) = s[1] /\ DOMAIN s = 1..Len(s)
  OBVIOUS
<1>3. ASSUME NEW i \in DOMAIN s PROVE s[i] = Head(s) \/ s[i] \in Range(Tail(s))
  <2>1. CASE i = 1
    BY <1>2, <2>1
  <2>2. CASE i # 1
    <3>1. i - 1 \in 1..Len(Tail(s)) /\ (i - 1) + 1 = i
      BY <1>1, <1>2, <2>2
    <3>2. Tail(s)[i - 1] = s[i]
      BY <1>1, <3>1
    <3> QED
      BY <1>1, <3>1, <3>2 DEF Range
  <2> QED
    BY <2>1, <2>2
<1>4. ASSUME NEW i \in DOMAIN Tail(s) PROVE Tail(s)[i] \in Range(s)
  <2>1. i + 1 \in DOMAIN s /\ Tail(s)[i] = s[i + 1]
    BY <1>1, <1>2
  <2> QED
    BY <2>1 DEF Range
<1>5. Head(s) \in Range(s)
  BY <1>2 DEF Range
<1> QED
  BY <1>3, <1>4, <1>5 DEF Range

\* A sequence has as many elements as places, unless one is repeated.
LEMMA CountOf ==
  ASSUME NEW S, NEW s \in Seq(S)
  PROVE  /\ IsFiniteSet(Range(s)) /\ Cardinality(Range(s)) \in Nat
         /\ IsInjective(s) => Cardinality(Range(s)) = Len(s)
<1>1. /\ Len(s) \in Nat /\ IsFiniteSet(1..Len(s)) /\ Cardinality(1..Len(s)) = Len(s)
  <2>1. 1 \in Int /\ Len(s) \in Int /\ Len(s) \in Nat
    OBVIOUS
  <2>2. IsFiniteSet(1..Len(s)) /\ Cardinality(1..Len(s)) = IF 1 > Len(s) THEN 0 ELSE Len(s) - 1 + 1
    BY <2>1, FS_Interval
  <2> QED
    BY <2>1, <2>2
<1>2. s \in Surjection(1..Len(s), Range(s))
  BY DEF Surjection, Range
<1>3. IsInjective(s) => s \in Injection(1..Len(s), Range(s))
  BY <1>2 DEF Surjection, Injection, IsInjective
<1>4. /\ IsFiniteSet(Range(s))
      /\ Cardinality(Range(s)) = Cardinality(1..Len(s)) <=> s \in Injection(1..Len(s), Range(s))
  BY <1>1, <1>2, FS_Surjection
<1> QED
  BY <1>1, <1>3, <1>4, FS_CardinalityType

LEMMA ConcatInjective ==
  ASSUME NEW S, NEW s \in Seq(S), NEW t \in Seq(S), IsInjective(s), IsInjective(t),
         \A j \in DOMAIN t : t[j] \notin Range(s)
  PROVE  IsInjective(s \o t)
<1>1. /\ s \o t \in Seq(S) /\ Len(s \o t) = Len(s) + Len(t)
      /\ \A i \in 1..(Len(s) + Len(t)) : (s \o t)[i] = IF i <= Len(s) THEN s[i] ELSE t[i - Len(s)]
  BY ConcatProperties
<1> SUFFICES ASSUME NEW i \in 1..(Len(s) + Len(t)), NEW j \in 1..(Len(s) + Len(t)),
                    (s \o t)[i] = (s \o t)[j]
             PROVE  i = j
  BY <1>1 DEF IsInjective
<1>2. Len(s) \in Nat /\ Len(t) \in Nat /\ DOMAIN s = 1..Len(s) /\ DOMAIN t = 1..Len(t)
  OBVIOUS
<1>3. ASSUME NEW k \in 1..(Len(s) + Len(t))
      PROVE  \/ k <= Len(s) /\ k \in DOMAIN s /\ (s \o t)[k] = s[k] /\ s[k] \in Range(s)
             \/ ~(k <= Len(s)) /\ k - Len(s) \in DOMAIN t /\ (s \o t)[k] = t[k - Len(s)]
  BY <1>1, <1>2 DEF Range
<1>4. CASE i <= Len(s) /\ j <= Len(s)
  BY <1>3, <1>4 DEF IsInjective
<1>5. CASE ~(i <= Len(s)) /\ ~(j <= Len(s))
  <2>1. i - Len(s) = j - Len(s)
    BY <1>3, <1>5 DEF IsInjective
  <2> QED
    BY <1>2, <2>1
<1> QED
  BY <1>3, <1>4, <1>5

LEMMA TailInjective ==
  ASSUME NEW S, NEW s \in Seq(S), s # <<>>, IsInjective(s)
  PROVE  IsInjective(Tail(s)) /\ Head(s) \notin Range(Tail(s))
<1>1. /\ Tail(s) \in Seq(S) /\ Len(Tail(s)) = Len(s) - 1
      /\ \A i \in 1..Len(Tail(s)) : Tail(s)[i] = s[i + 1]
  BY HeadTailProperties
<1>2. Len(s) \in Nat \ {0} /\ Head(s) = s[1] /\ DOMAIN s = 1..Len(s) /\ DOMAIN Tail(s) = 1..Len(Tail(s))
  BY <1>1
<1>3. ASSUME NEW i \in DOMAIN Tail(s) PROVE i + 1 \in DOMAIN s /\ i + 1 # 1 /\ Tail(s)[i] = s[i + 1] /\ i \in Nat
  BY <1>1, <1>2
<1>4. 1 \in DOMAIN s
  BY <1>2
<1>5. Head(s) \notin Range(Tail(s))
  BY <1>2, <1>3, <1>4 DEF IsInjective, Range
<1>6. ASSUME NEW i \in DOMAIN Tail(s), NEW j \in DOMAIN Tail(s), Tail(s)[i] = Tail(s)[j] PROVE i = j
  <2>1. i + 1 = j + 1
    BY <1>3, <1>6 DEF IsInjective
  <2> QED
    BY <1>3, <2>1
<1> QED
  BY <1>5, <1>6 DEF IsInjective

-----------------------------------------------------------------------------
(* List: pages and types.                                                  *)

\* How page and Shown move together.
LEMMA ShownFacts ==
  ASSUME PerPage \in Nat \ {0}, page \in Nat \ {0}
  PROVE  /\ Shown \in Nat
         /\ page = 1 => Shown = 0
         /\ page' = page + 1 => Shown' = Shown + PerPage
         /\ page' = 1 => Shown' = 0
         /\ page' = page => Shown' = Shown
  BY DEF Shown

\* A page holds what the pages before it have left, up to PerPage entries.
LEMMA WindowFacts ==
  ASSUME NEW S, NEW list \in Seq(S), PerPage \in Nat \ {0}, Shown \in Nat
  PROVE  /\ Window(list) \in Seq(S)
         /\ Len(Window(list)) <= PerPage
         /\ \A k \in DOMAIN Window(list) : Shown + k \in DOMAIN list /\ Window(list)[k] = list[Shown + k]
         /\ \A i \in DOMAIN list :
              i > Shown => \/ i > Shown + PerPage /\ HasNext(list)
                           \/ \E k \in DOMAIN Window(list) : Window(list)[k] = list[i]
<1> DEFINE last == IF Shown + PerPage < Len(list) THEN Shown + PerPage ELSE Len(list)
<1>1. last \in Nat /\ last <= Len(list) /\ last <= Shown + PerPage
  OBVIOUS
<1>2. Window(list) = SubSeq(list, Shown + 1, last)
  BY DEF Window
<1> HIDE DEF last
<1>3. Window(list) \in Seq(S) /\ DOMAIN Window(list) = 1..(last - Shown)
      /\ \A k \in 1..(last - Shown) : Window(list)[k] = list[Shown + k]
  BY <1>1, <1>2
<1>4. ASSUME NEW i \in DOMAIN list, i > Shown
      PROVE  \/ i > Shown + PerPage /\ HasNext(list)
             \/ \E k \in DOMAIN Window(list) : Window(list)[k] = list[i]
  <2>1. CASE i <= last
    <3>1. i - Shown \in DOMAIN Window(list) /\ Window(list)[i - Shown] = list[i]
      BY <1>1, <1>3, <1>4, <2>1
    <3> QED
      BY <3>1
  <2>2. CASE i > last
    BY <1>1, <1>4, <2>2 DEF last, HasNext
  <2> QED
    BY <1>1, <2>1, <2>2
<1> QED
  BY <1>1, <1>3, <1>4

\* The history of writes, and the IDs that are taken from it.
LEMMA CountedFacts ==
  ASSUME ListAssumption, writes \in [Kinds -> 0..MaxWrites]
  PROVE  /\ FirstPushed + writes["push"] \in Versions
         /\ \A k \in Kinds : writes[k] \in Nat
         /\ \A k \in Kinds : Counted(k) =>
              /\ writes' \in [Kinds -> 0..MaxWrites]
              /\ writes'[k] = writes[k] + 1
              /\ \A j \in Kinds : j # k => writes'[j] = writes[j]
<1>1. MaxWrites \in Nat
  BY DEF ListAssumption
<1>2. \A k \in Kinds : writes[k] \in Nat /\ writes[k] <= MaxWrites
  BY <1>1
<1>3. writes["push"] \in Nat /\ writes["create"] \in Nat /\ writes["delete"] \in Nat
  BY <1>2 DEF Kinds
<1>4. ASSUME NEW k \in Kinds, Counted(k)
      PROVE  /\ writes' \in [Kinds -> 0..MaxWrites]
             /\ writes'[k] = writes[k] + 1
             /\ \A j \in Kinds : j # k => writes'[j] = writes[j]
  <2>1. writes' = [writes EXCEPT ![k] = writes[k] + 1]
    BY <1>4 DEF Counted
  <2>2. writes[k] < MaxWrites
    BY <1>1, <1>3, <1>4 DEF Counted, Kinds
  <2>3. writes[k] + 1 \in 0..MaxWrites
    BY <1>1, <1>2, <2>2
  <2> QED
    BY <2>1, <2>3
<1> QED
  BY <1>2, <1>3, <1>4 DEF FirstPushed, Versions

LEMMA ListingFacts ==
  ASSUME NEW p \in Packages, NEW w \in Seq(Versions)
  PROVE  /\ Listing(p, w) \in Seq(Pairs)
         /\ Len(Listing(p, w)) = Len(w)
         /\ Range(Listing(p, w)) = {p} \X Range(w)
<1>1. DOMAIN w = 1..Len(w) /\ Listing(p, w) = [k \in 1..Len(w) |-> <<p, w[k]>>]
  BY DEF Listing
<1>2. \A k \in 1..Len(w) : <<p, w[k]>> \in Packages \X Versions
  OBVIOUS
<1>3. [k \in 1..Len(w) |-> <<p, w[k]>>] \in Seq(Packages \X Versions)
  BY <1>2
<1>4. Len(Listing(p, w)) = Len(w)
  BY <1>1
<1>5. Range(Listing(p, w)) = {p} \X Range(w)
  BY <1>1 DEF Range
<1> QED
  BY <1>1, <1>3, <1>4, <1>5 DEF Pairs

\* Every variable of List keeps its type, and while versions are listed there
\* is a package they are of.
THEOREM ListTypeCorrect == ListSpec => []ListTypeOK
<1> USE ListAssumption DEF ListTypeOK
<1>1. ListInit => ListTypeOK
  BY DEF ListInit, Kinds, Pairs, Versions, Range
<1>2. ListTypeOK /\ [ListNext]_listVars => ListTypeOK'
  <2> SUFFICES ASSUME ListTypeOK, [ListNext]_listVars PROVE ListTypeOK'
    OBVIOUS
  <2>0. ASSUME NEW k \in Kinds, Counted(k) PROVE writes' \in [Kinds -> 0..MaxWrites]
    BY <2>0, CountedFacts
  <2>1. ASSUME NEW p \in Packages, Push(p) PROVE ListTypeOK'
    <3>1. FirstPushed + writes["push"] \in Versions
      BY CountedFacts
    <3>2. <<FirstPushed + writes["push"]>> \o stored[p] \in Seq(Versions)
      BY <3>1
    <3> QED
      BY <2>0, <2>1, <3>2 DEF Push, listing, Kinds
  <2>2. ASSUME NEW p \in Packages, Create(p) PROVE ListTypeOK'
    <3>1. <<p>> \o site \in Seq(Packages)
      BY ConcatProperties
    <3> QED
      BY <2>0, <2>2, <3>1 DEF Create, listing, Kinds
  <2>3. ASSUME NEW p \in Packages, NEW i \in DOMAIN stored[p], DeleteVersion(p, i) PROVE ListTypeOK'
    <3>1. RemoveAt(stored[p], i) \in Seq(Versions)
      BY RemoveFacts
    <3> QED
      BY <2>0, <2>3, <3>1 DEF DeleteVersion, listing, Kinds
  <2>4. ASSUME NEW i \in DOMAIN site, DeletePackage(i) PROVE ListTypeOK'
    <3>1. RemoveAt(site, i) \in Seq(Packages)
      BY RemoveFacts
    <3>2. stored' = [stored EXCEPT ![site[i]] = <<>>] /\ <<>> \in Seq(Versions)
      BY <2>4 DEF DeletePackage
    <3>3. stored' \in [Packages -> Seq(Versions)]
      BY <3>2
    <3>4. site' \in Seq(Packages) /\ steady' \subseteq Pairs
      BY <2>4, <3>1 DEF DeletePackage
    <3> QED
      BY <2>0, <2>4, <3>3, <3>4 DEF DeletePackage, listing, Kinds
  <2>5. ASSUME NEW rest \in Seq(Packages), GoOn(rest)
        PROVE  /\ todo' \in Seq(Packages) /\ page' \in Nat \ {0}
               /\ phase' \in {"packages", "versions", "ok", "error"}
               /\ phase' = "versions" => todo' # <<>>
    BY <2>5 DEF GoOn
  <2>6. Shown \in Nat
    BY ShownFacts
  <2>7. CASE PackagesPage
    <3>1. names' \in Seq(Packages)
      BY <2>6, <2>7, WindowFacts DEF PackagesPage
    <3>2. CASE HasNext(site)
      BY <2>7, <3>1, <3>2 DEF PackagesPage, Quiet, registry
    <3>3. CASE ~HasNext(site)
      BY <2>5, <2>7, <3>1, <3>3 DEF PackagesPage, Quiet, registry
    <3> QED
      BY <3>2, <3>3
  <2>8. ASSUME phase = "versions" PROVE Tail(todo) \in Seq(Packages)
    BY <2>8, HeadTailProperties
  <2>9. CASE Skip
    BY <2>5, <2>8, <2>9 DEF Skip, Quiet, registry
  <2>10. CASE VersionsPage
    <3>1. Head(todo) \in Packages
      BY <2>10 DEF VersionsPage
    <3>2. Window(stored[Head(todo)]) \in Seq(Versions)
      BY <2>6, <3>1, WindowFacts
    <3>3. Listing(Head(todo), Window(stored[Head(todo)])) \in Seq(Pairs)
      BY <3>1, <3>2, ListingFacts
    <3>4. artifacts' \in Seq(Pairs)
      BY <2>10, <3>3 DEF VersionsPage
    <3>5. CASE HasNext(stored[Head(todo)])
      BY <2>10, <3>4, <3>5, SMTT(30) DEF VersionsPage, Quiet, registry
    <3>6. CASE ~HasNext(stored[Head(todo)])
      BY <2>5, <2>8, <2>10, <3>4, <3>6 DEF VersionsPage, Quiet, registry
    <3> QED
      BY <3>5, <3>6
  <2>11. CASE FailList
    BY <2>11 DEF FailList, Quiet, registry
  <2>12. CASE UNCHANGED listVars
    BY <2>12 DEF listVars, registry, listing
  <2> QED
    BY <2>1, <2>2, <2>3, <2>4, <2>7, <2>9, <2>10, <2>11, <2>12 DEF ListNext, OtherClients, List
<1> QED
  BY <1>1, <1>2, PTL DEF ListSpec

-----------------------------------------------------------------------------
(* List: nothing that stays is lost.                                       *)

\* A version of p that no page has shown yet.
ToCome(p, v) == \E i \in DOMAIN stored[p] : i > Shown /\ stored[p][i] = v

\* What has been there all the time is there.
InStore == \A s \in steady : s[1] \in Range(site) /\ s[2] \in Range(stored[s[1]])

\* p has been shown, or will be.
PackageDue(p) == p \in Range(names) \/ \E i \in DOMAIN site : i > Shown /\ site[i] = p

\* A version is listed, or will be with its package, or is to come.
VersionDue(s) ==
  \/ s \in Range(artifacts)
  \/ s[1] \in Range(Tail(todo))
  \/ s[1] = Head(todo) /\ ToCome(s[1], s[2])

\* As long as nothing is deleted, all that has been there all the time is
\* listed already or still ahead of the window.
CompleteInv ==
  writes["delete"] = 0 =>
    /\ InStore
    /\ phase = "packages" => \A s \in steady : PackageDue(s[1])
    /\ phase = "versions" => \A s \in SteadySelected : VersionDue(s)
    /\ phase = "ok" => SteadySelected \subseteq Range(artifacts)

\* A write that is no deletion shifts lists to the right.
Shifted(old, new) == \A i \in DOMAIN old : \E j \in DOMAIN new : j >= i /\ new[j] = old[i]

LEMMA ShiftedStays ==
  ASSUME NEW S, NEW s \in Seq(S)
  PROVE  Shifted(s, s)
  BY DEF Shifted

LEMMA ShiftedPrepended ==
  ASSUME NEW S, NEW s \in Seq(S), NEW x \in S
  PROVE  Shifted(s, <<x>> \o s)
<1>1. ASSUME NEW i \in DOMAIN s
      PROVE  /\ i + 1 >= i
             /\ i + 1 \in DOMAIN (<<x>> \o s) /\ (<<x>> \o s)[i + 1] = s[i]
  <2>1. i \in Nat
    OBVIOUS
  <2> QED
    BY <2>1, Prepended
<1> QED
  BY <1>1 DEF Shifted

\* What a push and a new package have in common.
Growth ==
  /\ Shifted(site, site')
  /\ \A p \in Packages : Shifted(stored[p], stored'[p])
  /\ UNCHANGED <<listing, steady, writes["delete"]>>

LEMMA GrowthOrDeletion ==
  ASSUME ListTypeOK, OtherClients
  PROVE  Growth \/ writes'["delete"] # 0
<1>1. ASSUME NEW p \in Packages, Push(p) PROVE Growth
  <2>1. FirstPushed + writes["push"] \in Versions
    BY DEF ListTypeOK, FirstPushed, Versions, Kinds
  <2>2. ASSUME NEW q \in Packages PROVE Shifted(stored[q], stored'[q])
    <3>1. stored[q] \in Seq(Versions)
      BY DEF ListTypeOK
    <3>3. Shifted(stored[q], stored[q])
      BY <3>1, ShiftedStays
    <3>2. Shifted(stored[q], <<FirstPushed + writes["push"]>> \o stored[q])
      BY <2>1, <3>1, ShiftedPrepended
    <3> QED
      BY <1>1, <3>2, <3>3 DEF Push, ListTypeOK
  <2>3. Shifted(site, site')
    BY <1>1, ShiftedStays DEF Push, ListTypeOK
  <2> QED
    BY <1>1, <2>2, <2>3 DEF Growth, Push, Counted, ListTypeOK, Kinds
<1>2. ASSUME NEW p \in Packages, Create(p) PROVE Growth
  <2>1. Shifted(site, site')
    BY <1>2, ShiftedPrepended DEF Create, ListTypeOK
  <2>2. ASSUME NEW q \in Packages PROVE Shifted(stored[q], stored'[q])
    <3>1. stored[q] \in Seq(Versions)
      BY DEF ListTypeOK
    <3> QED
      BY <1>2, <3>1, ShiftedStays DEF Create
  <2> QED
    BY <1>2, <2>1, <2>2 DEF Growth, Create, Counted, ListTypeOK, Kinds
<1>3. ASSUME Counted("delete") PROVE writes'["delete"] # 0
  BY <1>3 DEF Counted, ListTypeOK, Kinds
<1> QED
  BY <1>1, <1>2, <1>3 DEF OtherClients, DeleteVersion, DeletePackage

\* What no page has shown is on this page, or comes after it.
LEMMA DueShown ==
  ASSUME NEW S, NEW list \in Seq(S), PerPage \in Nat \ {0}, page \in Nat \ {0},
         NEW i \in DOMAIN list, i > Shown
  PROVE  \/ list[i] \in Range(Window(list))
         \/ HasNext(list) /\ (page' = page + 1 => i > Shown')
<1>1. Shown \in Nat /\ (page' = page + 1 => Shown' = Shown + PerPage)
  BY ShownFacts
<1>2. CASE i > Shown + PerPage /\ HasNext(list)
  BY <1>1, <1>2
<1>3. CASE \E k \in DOMAIN Window(list) : Window(list)[k] = list[i]
  BY <1>3 DEF Range
<1> QED
  BY <1>1, <1>2, <1>3, WindowFacts

\* CompleteWithoutDeletes: a List that succeeds while nothing is deleted has
\* every version of a selected package that was there all the time.
THEOREM Complete == ListSpec => []CompleteWithoutDeletes
<1> USE ListAssumption
<1>1. ListInit => CompleteInv
  <2> SUFFICES ASSUME ListInit PROVE CompleteInv
    OBVIOUS
  <2>1. Shown = 0
    BY ShownFacts DEF ListInit
  <2>2. InStore
    BY DEF ListInit, InStore
  <2>3. ASSUME NEW p \in Range(site) PROVE \E i \in DOMAIN site : i > Shown /\ site[i] = p
    BY <2>1, <2>3 DEF Range, ListInit
  <2> QED
    BY <2>2, <2>3 DEF ListInit, CompleteInv, PackageDue, InStore
<1>2. ListTypeOK /\ ListTypeOK' /\ CompleteInv /\ [ListNext]_listVars => CompleteInv'
  <2> SUFFICES ASSUME ListTypeOK, ListTypeOK', CompleteInv, [ListNext]_listVars, writes'["delete"] = 0
               PROVE  /\ InStore'
                      /\ phase' = "packages" => \A s \in steady' : PackageDue(s[1])'
                      /\ phase' = "versions" => \A s \in SteadySelected' : VersionDue(s)'
                      /\ phase' = "ok" => SteadySelected' \subseteq Range(artifacts')
    BY DEF CompleteInv
  <2> USE DEF ListTypeOK
  <2>1. CASE Growth
    <3>1. /\ names' = names /\ todo' = todo /\ phase' = phase /\ page' = page
          /\ artifacts' = artifacts /\ steady' = steady /\ writes["delete"] = 0
          /\ Shown' = Shown /\ Shown \in Nat
      BY <2>1, ShownFacts DEF Growth, listing
    <3>2. InStore
      BY <3>1 DEF CompleteInv
    <3>3. ASSUME NEW p \in Packages, NEW i \in DOMAIN stored[p]
          PROVE  \E j \in DOMAIN stored'[p] : j >= i /\ stored'[p][j] = stored[p][i]
      BY <2>1 DEF Growth, Shifted
    <3>4. ASSUME NEW i \in DOMAIN site
          PROVE  \E j \in DOMAIN site' : j >= i /\ site'[j] = site[i]
      BY <2>1 DEF Growth, Shifted
    <3>5. ASSUME NEW s \in steady PROVE s[1] \in Packages
      BY DEF Pairs
    <3>6. InStore'
      <4> SUFFICES ASSUME NEW s \in steady PROVE s[1] \in Range(site') /\ s[2] \in Range(stored'[s[1]])
        BY <3>1 DEF InStore
      <4>1. s[1] \in Range(site) /\ s[2] \in Range(stored[s[1]])
        BY <3>2 DEF InStore
      <4>2. s[1] \in Range(site')
        BY <3>4, <4>1 DEF Range
      <4>3. s[2] \in Range(stored'[s[1]])
        <5> PICK p \in Packages : p = s[1]
          BY <3>5
        <5> PICK i \in DOMAIN stored[p] : stored[p][i] = s[2]
          BY <4>1 DEF Range
        <5> PICK j \in DOMAIN stored'[p] : stored'[p][j] = stored[p][i]
          BY <3>3
        <5> QED
          BY DEF Range
      <4> QED
        BY <4>2, <4>3
    <3>7. ASSUME phase = "packages", NEW s \in steady PROVE PackageDue(s[1])'
      <4>1. PackageDue(s[1])
        BY <3>1, <3>7 DEF CompleteInv
      <4>2. ASSUME NEW i \in DOMAIN site, i > Shown, site[i] = s[1]
            PROVE  \E j \in DOMAIN site' : j > Shown' /\ site'[j] = s[1]
        <5> PICK j \in DOMAIN site' : j >= i /\ site'[j] = site[i]
          BY <3>4
        <5>1. j > Shown'
          BY <3>1, <4>2
        <5> QED
          BY <4>2, <5>1
      <4> QED
        BY <3>1, <4>1, <4>2 DEF PackageDue
    <3>8. ASSUME phase = "versions", NEW s \in SteadySelected PROVE VersionDue(s)'
      <4>1. VersionDue(s) /\ s[1] \in Packages
        BY <3>1, <3>5, <3>8 DEF CompleteInv, SteadySelected
      <4>2. ASSUME NEW i \in DOMAIN stored[s[1]], i > Shown, stored[s[1]][i] = s[2]
            PROVE  \E j \in DOMAIN stored'[s[1]] : j > Shown' /\ stored'[s[1]][j] = s[2]
        <5> PICK j \in DOMAIN stored'[s[1]] : j >= i /\ stored'[s[1]][j] = stored[s[1]][i]
          BY <3>3, <4>1
        <5>1. j > Shown'
          BY <3>1, <4>1, <4>2
        <5> QED
          BY <4>2, <5>1
      <4> QED
        BY <3>1, <4>1, <4>2 DEF VersionDue, ToCome
    <3> QED
      BY <3>1, <3>6, <3>7, <3>8 DEF CompleteInv, SteadySelected
  <2>2. CASE List
    <3>1. site' = site /\ stored' = stored /\ writes' = writes /\ steady' = steady
      BY <2>2 DEF List, PackagesPage, Skip, VersionsPage, FailList, Quiet, registry
    <3>2. InStore /\ InStore'
      BY <3>1 DEF CompleteInv, InStore
    <3>3. Shown \in Nat
      BY ShownFacts
    <3>4. ASSUME NEW s \in steady PROVE s[1] \in Packages
      BY DEF Pairs
    \* The next package is listed from its first version.
    <3>5. ASSUME NEW rest \in Seq(Packages), GoOn(rest), phase' = "versions",
                 NEW s \in steady, s[1] \in Range(rest)
          PROVE  VersionDue(s)'
      <4>1. todo' = rest /\ page' = 1 /\ rest # <<>>
        BY <3>5 DEF GoOn
      <4>2. Shown' = 0
        BY <4>1, ShownFacts
      <4>3. s[1] \in Range(Tail(rest)) \/ s[1] = Head(rest)
        BY <3>5, <4>1, RangeHeadTail
      <4>4. s[2] \in Range(stored[s[1]])
        BY <3>2 DEF InStore
      <4>5. ToCome(s[1], s[2])'
        <5> PICK list : list = stored[s[1]]
          OBVIOUS
        <5> PICK i \in DOMAIN list : list[i] = s[2]
          BY <4>4 DEF Range
        <5>1. list \in Seq(Versions)
          BY <3>4
        <5>2. i > 0
          <6>1. DOMAIN list = 1..Len(list) /\ Len(list) \in Nat
            BY <5>1, LenProperties
          <6> QED
            BY <6>1
        <5> QED
          BY <3>1, <4>2, <5>2 DEF ToCome
      <4> QED
        BY <4>1, <4>3, <4>5 DEF VersionDue
    <3>6. CASE PackagesPage
      <4>1. /\ Window(site) \in Seq(Packages)
            /\ names' = names \o Window(site)
        BY <3>3, <3>6, WindowFacts DEF PackagesPage
      <4>2. Range(names') = Range(names) \cup Range(Window(site)) /\ names' \in Seq(Packages)
        BY <4>1, RangeConcat, ConcatProperties
      <4>3. ASSUME NEW s \in steady
            PROVE  \/ s[1] \in Range(names')
                   \/ HasNext(site) /\ (page' = page + 1 => PackageDue(s[1])')
        <5>1. PackageDue(s[1])
          BY <3>1, <3>6 DEF CompleteInv, PackagesPage
        <5>2. ASSUME NEW i \in DOMAIN site, i > Shown, site[i] = s[1]
              PROVE  \/ s[1] \in Range(Window(site))
                     \/ HasNext(site) /\ (page' = page + 1 => i > Shown')
          <6>1. /\ site \in Seq(Packages) /\ PerPage \in Nat \ {0} /\ page \in Nat \ {0}
            OBVIOUS
          <6> QED
            BY <5>2, <6>1, DueShown
        <5> QED
          BY <3>1, <4>2, <5>1, <5>2 DEF PackageDue
      <4>4. CASE HasNext(site)
        <5>1. page' = page + 1 /\ phase' = "packages"
          BY <3>6, <4>4 DEF PackagesPage
        <5> QED
          BY <3>1, <3>2, <4>3, <5>1 DEF PackageDue
      <4>5. CASE ~HasNext(site)
        <5>1. GoOn(names')
          BY <3>6, <4>5 DEF PackagesPage
        <5>2. ASSUME phase' = "versions", NEW s \in steady PROVE VersionDue(s)'
          BY <3>5, <4>2, <4>3, <4>5, <5>1, <5>2
        <5>3. ASSUME NEW s \in steady, phase' = "ok" PROVE FALSE
          <6>1. s[1] \in Range(names') /\ names' = <<>>
            BY <4>3, <4>5, <5>1, <5>3 DEF GoOn
          <6> QED
            BY <6>1 DEF Range
        <5>4. phase' # "packages"
          BY <5>1 DEF GoOn
        <5> QED
          BY <3>1, <3>2, <5>2, <5>3, <5>4 DEF SteadySelected
      <4> QED
        BY <4>4, <4>5
    <3>7. ASSUME phase = "versions"
          PROVE  /\ Head(todo) \in Packages /\ Tail(todo) \in Seq(Packages)
                 /\ \A s \in SteadySelected : VersionDue(s) /\ s \in steady /\ s[1] \in Selected
      BY <3>1, <3>7, HeadTailProperties DEF CompleteInv, SteadySelected
    \* A package that has been gone through leaves nothing behind.
    <3>8. ASSUME phase = "versions", GoOn(Tail(todo)), Range(artifacts) \subseteq Range(artifacts'),
                 \A s \in SteadySelected : s[1] = Head(todo) => s \in Range(artifacts') \/ s[1] \in Range(Tail(todo))
          PROVE  /\ phase' # "packages"
                 /\ phase' = "versions" => \A s \in SteadySelected : VersionDue(s)'
                 /\ phase' = "ok" => SteadySelected \subseteq Range(artifacts')
      <4>1. ASSUME NEW s \in SteadySelected PROVE s \in Range(artifacts') \/ s[1] \in Range(Tail(todo))
        BY <3>7, <3>8 DEF VersionDue
      <4>2. ASSUME phase' = "versions", NEW s \in SteadySelected PROVE VersionDue(s)'
        <5>1. CASE s \in Range(artifacts')
          BY <5>1 DEF VersionDue
        <5>2. CASE s[1] \in Range(Tail(todo))
          BY <3>5, <3>7, <3>8, <4>2, <5>2
        <5> QED
          BY <4>1, <5>1, <5>2
      <4>3. phase' = "ok" => Range(Tail(todo)) = {}
        BY <3>8 DEF GoOn, Range
      <4> QED
        BY <3>8, <4>1, <4>2, <4>3 DEF GoOn
    <3>9. CASE Skip
      <4>1. phase = "versions" /\ GoOn(Tail(todo)) /\ artifacts' = artifacts /\ Head(todo) \notin Selected
        BY <3>9 DEF Skip
      <4> QED
        BY <3>1, <3>2, <3>7, <3>8, <4>1 DEF SteadySelected
    <3>10. CASE VersionsPage
      <4> DEFINE p == Head(todo)
                 w == Window(stored[p])
      <4>1. phase = "versions" /\ p \in Packages /\ artifacts' = artifacts \o Listing(p, w)
        BY <3>7, <3>10 DEF VersionsPage
      <4>2. w \in Seq(Versions)
        BY <3>3, <4>1, WindowFacts
      <4>3. Listing(p, w) \in Seq(Pairs)
        BY <4>1, <4>2, ListingFacts
      <4>4. Range(artifacts') = Range(artifacts) \cup Range(Listing(p, w))
        BY <4>1, <4>3, RangeConcat
      <4>5. ASSUME NEW s \in SteadySelected, s[1] = p, s[2] \in Range(w) PROVE s \in Range(artifacts')
        <5>1. s = <<p, s[2]>>
          BY <4>5 DEF SteadySelected, Pairs
        <5>2. <<p, s[2]>> \in Range(Listing(p, w))
          BY <4>1, <4>2, <4>5, ListingFacts
        <5> QED
          BY <4>4, <5>1, <5>2
      <4>6. ASSUME NEW s \in SteadySelected, s[1] = p, ToCome(s[1], s[2])
            PROVE  \/ s[2] \in Range(w)
                   \/ HasNext(stored[p]) /\ (page' = page + 1 => ToCome(s[1], s[2])')
        <5> PICK i \in DOMAIN stored[p] : i > Shown /\ stored[p][i] = s[2]
          BY <4>6 DEF ToCome
        <5>1. \/ s[2] \in Range(w)
              \/ HasNext(stored[p]) /\ (page' = page + 1 => i > Shown')
          <6>1. stored[p] \in Seq(Versions) /\ PerPage \in Nat \ {0} /\ page \in Nat \ {0}
            BY <4>1
          <6> QED
            BY <6>1, DueShown
        <5> QED
          BY <3>1, <4>6, <5>1 DEF ToCome
      <4>7. ASSUME NEW s \in SteadySelected, s[1] = p
            PROVE  \/ s \in Range(artifacts') \/ s[1] \in Range(Tail(todo))
                   \/ HasNext(stored[p]) /\ (page' = page + 1 => ToCome(s[1], s[2])')
        BY <3>7, <4>1, <4>4, <4>5, <4>6, <4>7 DEF VersionDue
      <4>8. CASE HasNext(stored[p])
        <5>1. page' = page + 1 /\ phase' = phase /\ todo' = todo
          BY <3>10, <4>8 DEF VersionsPage
        <5>2. ASSUME NEW s \in SteadySelected PROVE VersionDue(s)'
          <6>1. CASE s[1] = p
            BY <4>7, <5>1, <6>1 DEF VersionDue
          <6>2. CASE s[1] # p
            BY <3>7, <4>1, <4>4, <5>1, <6>2 DEF VersionDue
          <6> QED
            BY <6>1, <6>2
        <5> QED
          BY <3>1, <3>2, <4>1, <5>1, <5>2 DEF SteadySelected
      <4>9. CASE ~HasNext(stored[p])
        <5>1. GoOn(Tail(todo))
          BY <3>10, <4>9 DEF VersionsPage
        <5> QED
          BY <3>1, <3>2, <3>8, <4>1, <4>4, <4>7, <4>9, <5>1 DEF SteadySelected
      <4> QED
        BY <4>8, <4>9
    <3>11. CASE FailList
      BY <3>1, <3>2, <3>11 DEF FailList
    <3> QED
      BY <2>2, <3>6, <3>9, <3>10, <3>11 DEF List
  <2>3. CASE UNCHANGED listVars
    <3>1. Shown' = Shown
      BY <2>3, ShownFacts DEF listVars, listing
    <3> QED
      BY <2>3, <3>1 DEF listVars, listing, registry, CompleteInv, InStore, PackageDue, VersionDue, ToCome, SteadySelected
  <2> QED
    BY <2>1, <2>2, <2>3, GrowthOrDeletion DEF ListNext
<1>3. CompleteInv => CompleteWithoutDeletes
  BY DEF CompleteInv, CompleteWithoutDeletes
<1> QED
  BY <1>1, <1>2, <1>3, ListTypeCorrect, PTL DEF ListSpec

-----------------------------------------------------------------------------
(* List: what is repeated.                                                 *)

\* The registry names no package twice and gives no ID twice.
Distinct ==
  /\ IsInjective(site)
  /\ \A p \in Packages :
       IsInjective(stored[p]) /\ \A v \in Range(stored[p]) : v < FirstPushed + writes["push"]

\* The entries of p that will be shown again.
Again(p) == {s \in Range(artifacts) : s[1] = p /\ ToCome(p, s[2])}

\* The pages of packages have shown each once, those to come not at all.
NamesOnce ==
  /\ artifacts = <<>>
  /\ IsInjective(names)
  /\ \A i \in DOMAIN site : i > Shown => site[i] \notin Range(names)

\* No version of a package further down has been listed.
TodoOnce ==
  /\ IsInjective(todo)
  /\ \A s \in Range(artifacts) : s[1] \notin Range(Tail(todo))

\* With n entries to be repeated still, pushes account for all repetitions.
Few(n) == Len(artifacts) + n <= Cardinality(Range(artifacts)) + writes["push"]

\* Each push pays for one repetition, when it happens or when it is bound to.
RepeatsInv ==
  /\ Distinct
  /\ writes["create"] = 0 =>
       /\ phase = "packages" => NamesOnce
       /\ phase = "versions" => TodoOnce /\ Few(Cardinality(Again(Head(todo))))
       /\ phase \in {"ok", "error"} => Few(0)

\* A deletion shifts lists to the left, and repeats nothing.
Shrunk(old, new) ==
  /\ \A j \in DOMAIN new : \E k \in DOMAIN old : k >= j /\ new[j] = old[k]
  /\ IsInjective(old) => IsInjective(new)

LEMMA ShrunkStays ==
  ASSUME NEW S, NEW s \in Seq(S)
  PROVE  Shrunk(s, s) /\ Shrunk(s, <<>>)
  BY DEF Shrunk, IsInjective

LEMMA ShrunkRemoved ==
  ASSUME NEW S, NEW s \in Seq(S), NEW i \in DOMAIN s
  PROVE  Shrunk(s, RemoveAt(s, i))
<1>1. /\ RemoveAt(s, i) \in Seq(S)
      /\ \A j \in DOMAIN RemoveAt(s, i) :
              /\ j \in DOMAIN s /\ j + 1 \in DOMAIN s
              /\ RemoveAt(s, i)[j] = IF j < i THEN s[j] ELSE s[j + 1]
  BY RemoveFacts
<1> DEFINE r == RemoveAt(s, i)
<1> HIDE DEF r
<1>2. ASSUME NEW j \in DOMAIN r PROVE \E k \in DOMAIN s : k >= j /\ r[j] = s[k]
  <2>1. j \in Nat /\ j \in DOMAIN s /\ j + 1 \in DOMAIN s /\ (r[j] = s[j] \/ r[j] = s[j + 1])
    BY <1>1 DEF r
  <2>2. j >= j /\ j + 1 >= j
    BY <2>1
  <2> QED
    BY <2>1, <2>2
<1>3. ASSUME IsInjective(s), NEW j \in DOMAIN r, NEW k \in DOMAIN r, r[j] = r[k] PROVE j = k
  <2>1. /\ j \in DOMAIN s /\ j + 1 \in DOMAIN s /\ r[j] = IF j < i THEN s[j] ELSE s[j + 1]
        /\ k \in DOMAIN s /\ k + 1 \in DOMAIN s /\ r[k] = IF k < i THEN s[k] ELSE s[k + 1]
    BY <1>1 DEF r
  <2>2. (IF j < i THEN j ELSE j + 1) = (IF k < i THEN k ELSE k + 1)
    BY <1>3, <2>1 DEF IsInjective
  <2>3. i \in Nat /\ j \in Nat /\ k \in Nat
    BY <2>1
  <2> QED
    BY <2>2, <2>3
<1> QED
  BY <1>2, <1>3 DEF Shrunk, IsInjective, r

\* What the two deletions have in common.
Loss ==
  /\ Shrunk(site, site')
  /\ \A p \in Packages : Shrunk(stored[p], stored'[p])
  /\ UNCHANGED <<listing, writes["push"], writes["create"]>>

LEMMA DeletionLoses ==
  ASSUME ListTypeOK, NEW p \in Packages, NEW i \in DOMAIN stored[p], DeleteVersion(p, i)
  PROVE  Loss
<1>1. ASSUME NEW q \in Packages PROVE Shrunk(stored[q], stored[q])
  <2>1. stored[q] \in Seq(Versions)
    BY DEF ListTypeOK
  <2> QED
    BY <2>1, ShrunkStays
<1>2. Shrunk(stored[p], RemoveAt(stored[p], i))
  <2>1. stored[p] \in Seq(Versions)
    BY DEF ListTypeOK
  <2> QED
    BY <2>1, ShrunkRemoved
<1>3. Shrunk(site, site)
  BY ShrunkStays DEF ListTypeOK
<1> QED
  BY <1>1, <1>2, <1>3 DEF Loss, DeleteVersion, Counted, ListTypeOK, Kinds

LEMMA DisposalLoses ==
  ASSUME ListTypeOK, NEW i \in DOMAIN site, DeletePackage(i)
  PROVE  Loss
<1>1. ASSUME NEW q \in Packages PROVE Shrunk(stored[q], stored[q]) /\ Shrunk(stored[q], <<>>)
  <2>1. stored[q] \in Seq(Versions)
    BY DEF ListTypeOK
  <2> QED
    BY <2>1, ShrunkStays
<1>2. Shrunk(site, RemoveAt(site, i))
  <2>1. site \in Seq(Packages)
    BY DEF ListTypeOK
  <2> QED
    BY <2>1, ShrunkRemoved
<1> QED
  BY <1>1, <1>2 DEF Loss, DeletePackage, Counted, ListTypeOK, Kinds

\* The counts of a page of versions: w is appended to the artifacts, and of
\* what was going to be shown again only left may still be.
LEMMA PageCounts ==
  ASSUME NEW a \in Seq(Pairs), NEW w \in Seq(Pairs), IsInjective(w), NEW n \in Nat,
         NEW again \in SUBSET Range(a), NEW left \in SUBSET again,
         Len(a) + Cardinality(again) <= Cardinality(Range(a)) + n,
         Range(a) \cap Range(w) \subseteq again, left \cap Range(w) = {}
  PROVE  Len(a \o w) + Cardinality(left) <= Cardinality(Range(a \o w)) + n
<1> DEFINE both == Range(a) \cap Range(w)
<1>1. /\ IsFiniteSet(Range(a)) /\ Cardinality(Range(a)) \in Nat
      /\ IsFiniteSet(Range(w)) /\ Cardinality(Range(w)) = Len(w)
  BY CountOf
<1>2. Range(a \o w) = Range(a) \cup Range(w) /\ Len(a \o w) = Len(a) + Len(w)
  BY RangeConcat, ConcatProperties
<1>3. Cardinality(Range(a) \cup Range(w)) = Cardinality(Range(a)) + Cardinality(Range(w)) - Cardinality(both)
  BY <1>1, FS_Union
<1>4. IsFiniteSet(again) /\ both \in SUBSET again
  BY <1>1, FS_Subset
<1>5. IsFiniteSet(both) /\ IsFiniteSet(left) /\ both \cap left = {}
  BY <1>4, FS_Subset
<1>6. Cardinality(both \cup left) = Cardinality(both) + Cardinality(left) - Cardinality({})
  BY <1>5, FS_Union
<1>7. Cardinality({}) = 0
  BY FS_EmptySet
<1>8. Cardinality(both \cup left) <= Cardinality(again)
  BY <1>4, FS_Subset
<1>9. /\ Cardinality(both) \in Nat /\ Cardinality(left) \in Nat /\ Cardinality(again) \in Nat
      /\ Cardinality(both \cup left) \in Nat
  BY <1>4, <1>5, FS_CardinalityType, FS_Union
<1>10. Len(a) \in Nat /\ Len(w) \in Nat
  OBVIOUS
<1>11. Cardinality(both) + Cardinality(left) <= Cardinality(again)
  BY <1>6, <1>7, <1>8, <1>9
<1>12. Len(a) + Cardinality(left) + Cardinality(both) <= Cardinality(Range(a)) + n
  BY <1>1, <1>9, <1>10, <1>11
<1>13. Len(a \o w) = Len(a) + Len(w) /\ Cardinality(Range(a \o w)) = Cardinality(Range(a)) + Len(w) - Cardinality(both)
  BY <1>1, <1>2, <1>3
<1> HIDE DEF both
<1> QED
  BY <1>1, <1>9, <1>10, <1>12, <1>13, SMTT(30)

LEMMA AgainTyped ==
  ASSUME ListTypeOK, NEW p
  PROVE  /\ Again(p) \in SUBSET Range(artifacts)
         /\ IsFiniteSet(Again(p)) /\ Cardinality(Again(p)) \in Nat
         /\ IsFiniteSet(Range(artifacts)) /\ Cardinality(Range(artifacts)) \in Nat
<1>1. IsFiniteSet(Range(artifacts)) /\ Cardinality(Range(artifacts)) \in Nat
  BY CountOf DEF ListTypeOK
<1>2. Again(p) \in SUBSET Range(artifacts)
  BY DEF Again
<1> QED
  BY <1>1, <1>2, FS_Subset, FS_CardinalityType

LEMMA After ==
  ASSUME NEW j \in Nat, NEW n \in Nat, j > n, j # n + 1
  PROVE  j - 1 > n /\ j # 1
OBVIOUS

\* A push moves at most one listed version back into the pages to come.
LEMMA PushRepeats ==
  ASSUME ListTypeOK, NEW p \in Packages, Push(p), NEW q \in Packages
  PROVE  \E x : Again(q)' \subseteq Again(q) \cup {x}
<1> USE ListAssumption DEF ListTypeOK
<1>1. /\ artifacts' = artifacts /\ page' = page /\ Shown \in Nat /\ Shown' = Shown
  BY ShownFacts DEF Push, listing
<1>2. CASE q # p
  <2>1. stored'[q] = stored[q]
    BY <1>2 DEF Push
  <2>2. Again(q)' = Again(q)
    BY <1>1, <2>1 DEF Again, ToCome
  <2> QED
    BY <2>2
<1>3. CASE q = p
  <2> DEFINE v == FirstPushed + writes["push"]
             x == <<p, stored'[p][Shown + 1]>>
  <2>1. v \in Versions
    BY CountedFacts
  <2> HIDE DEF v
  <2>2. stored[p] \in Seq(Versions) /\ stored'[p] = <<v>> \o stored[p]
    BY DEF Push, v
  <2>3. \A i \in DOMAIN stored'[p] :
          i # 1 => i \in Nat /\ i - 1 \in DOMAIN stored[p] /\ stored'[p][i] = stored[p][i - 1]
    BY <2>1, <2>2, Prepended
  <2>5. DOMAIN stored'[p] \subseteq Nat
    <3>1. <<v>> \o stored[p] \in Seq(Versions)
      BY <2>1, <2>2, Prepended
    <3> QED
      BY <2>2, <3>1
  <2>4. ASSUME NEW s \in Again(p)' PROVE s \in Again(p) \/ s = x
    <3> PICK j \in DOMAIN stored'[p] : j > Shown /\ stored'[p][j] = s[2]
      BY <1>1, <2>4 DEF Again, ToCome
    <3>1. s \in Range(artifacts) /\ s[1] = p /\ s \in Pairs
      BY <1>1, <2>4 DEF Again, Range
    <3>2. CASE j = Shown + 1
      BY <3>1, <3>2 DEF Pairs
    <3>3. CASE j # Shown + 1
      <4>0. j \in Nat /\ Shown \in Nat /\ j > Shown
        BY <1>1, <2>5
      <4>1. j - 1 > Shown /\ j # 1
        BY <3>3, <4>0, After
      <4>2. j - 1 \in DOMAIN stored[p] /\ stored[p][j - 1] = s[2]
        BY <2>3, <4>1
      <4> QED
        BY <3>1, <4>1, <4>2 DEF Again, ToCome
    <3> QED
      BY <3>2, <3>3
  <2> QED
    BY <1>3, <2>4
<1> QED
  BY <1>2, <1>3

\* A pushed version has an ID of its own.
LEMMA PushDistinct ==
  ASSUME ListTypeOK, Distinct, NEW p \in Packages, Push(p)
  PROVE  Distinct'
<1> DEFINE v == FirstPushed + writes["push"]
<1>a. "push" \in Kinds
  BY DEF Kinds
<1>b. writes \in [Kinds -> 0..MaxWrites] /\ Counted("push")
  BY DEF ListTypeOK, Push
<1>0. /\ v \in Versions /\ writes["push"] \in Nat /\ writes'["push"] = writes["push"] + 1
  BY <1>a, <1>b, ListAssumption, CountedFacts
<1>1. v \in Versions /\ v \in Nat /\ v < FirstPushed + writes'["push"] /\ writes["push"] <= writes'["push"]
  BY <1>0 DEF FirstPushed, Versions
<1>2. \A q \in Packages : \A y \in Range(stored[q]) : y < v
  BY DEF Distinct
<1>3. stored[p] \in Seq(Versions) /\ stored'[p] = <<v>> \o stored[p]
  BY DEF ListTypeOK, Push
<1>4. v < FirstPushed + writes'["push"]
  BY <1>1
<1>5. writes["push"] \in Nat /\ writes'["push"] \in Nat /\ FirstPushed \in Nat
  BY <1>0 DEF FirstPushed
<1> HIDE DEF v
<1>6. /\ stored'[p][1] = v
      /\ \A i \in DOMAIN stored'[p] :
           i # 1 => i \in Nat /\ i - 1 \in DOMAIN stored[p] /\ stored'[p][i] = stored[p][i - 1]
  BY <1>1, <1>3, Prepended
<1>7. ASSUME NEW i \in DOMAIN stored[p] PROVE stored[p][i] # v /\ stored[p][i] < v /\ stored[p][i] \in Nat
  <2>1. stored[p][i] \in Nat /\ stored[p][i] \in Range(stored[p])
    BY <1>3 DEF Range, Versions
  <2> QED
    BY <1>1, <1>2, <2>1
<1>8. IsInjective(stored'[p])
  <2> SUFFICES ASSUME NEW i \in DOMAIN stored'[p], NEW j \in DOMAIN stored'[p], stored'[p][i] = stored'[p][j]
               PROVE  i = j
    BY DEF IsInjective
  <2>1. CASE i = 1
    BY <1>6, <1>7, <2>1
  <2>2. CASE j = 1
    BY <1>6, <1>7, <2>2
  <2>3. CASE i # 1 /\ j # 1
    <3>1. /\ i - 1 \in DOMAIN stored[p] /\ j - 1 \in DOMAIN stored[p] /\ i \in Nat /\ j \in Nat
          /\ stored[p][i - 1] = stored[p][j - 1]
      BY <1>6, <2>3
    <3>2. i - 1 = j - 1
      BY <3>1 DEF Distinct, IsInjective
    <3> QED
      BY <3>1, <3>2
  <2> QED
    BY <2>1, <2>2, <2>3
<1>9. ASSUME NEW y \in Range(stored'[p]) PROVE y < FirstPushed + writes'["push"]
  <2>1. y = v \/ (y < v /\ y \in Nat)
    <3> PICK i \in DOMAIN stored'[p] : stored'[p][i] = y
      BY <1>9 DEF Range
    <3> QED
      BY <1>6, <1>7
  <2> QED
    BY <1>1, <1>4, <1>5, <2>1
<1>10. ASSUME NEW q \in Packages, q # p, NEW y \in Range(stored[q]) PROVE y < FirstPushed + writes'["push"]
  <2>1. y \in Nat /\ y < v
    BY <1>2, <1>10 DEF ListTypeOK, Range, Versions
  <2> QED
    BY <1>1, <1>4, <1>5, <2>1
<1>11. site' = site /\ \A q \in Packages : q # p => stored'[q] = stored[q]
  BY DEF Push, ListTypeOK
<1> QED
  BY <1>8, <1>9, <1>10, <1>11 DEF Distinct

\* A deletion brings nothing back into the pages to come.
LEMMA LossKeeps ==
  ASSUME ListTypeOK, ListTypeOK', Distinct, Loss
  PROVE  Distinct' /\ \A p \in Packages : Again(p)' \subseteq Again(p)
<1>1. /\ artifacts' = artifacts /\ writes'["push"] = writes["push"]
      /\ page' = page
  BY DEF Loss, listing
<1>2. Shown' = Shown /\ Shown \in Nat
  BY <1>1, ListAssumption, ShownFacts DEF ListTypeOK
<1>3. Distinct'
  BY <1>1 DEF Loss, Shrunk, Distinct, Range
<1>4. ASSUME NEW p \in Packages, NEW s \in Again(p)' PROVE s \in Again(p)
  <2> PICK j \in DOMAIN stored'[p] : j > Shown /\ stored'[p][j] = s[2]
    BY <1>2, <1>4 DEF Again, ToCome
  <2> PICK k \in DOMAIN stored[p] : k >= j /\ stored'[p][j] = stored[p][k]
    BY DEF Loss, Shrunk
  <2>1. k > Shown
    <3>1. stored[p] \in Seq(Versions) /\ stored'[p] \in Seq(Versions)
      BY DEF ListTypeOK
    <3>2. j \in Nat /\ k \in Nat
      BY <3>1
    <3> QED
      BY <1>2, <3>2
  <2> QED
    BY <1>1, <1>4, <2>1 DEF Again, ToCome
<1> QED
  BY <1>3, <1>4

\* RepeatsBounded: as long as no package is created, a List repeats at most as
\* many entries as versions were pushed meanwhile.
THEOREM Repeats == ListSpec => []RepeatsBounded
<1> USE ListAssumption
<1>1. ListInit => RepeatsInv
  <2> SUFFICES ASSUME ListInit PROVE RepeatsInv
    OBVIOUS
  <2>1. Distinct
    BY DEF ListInit, Distinct, Kinds, FirstPushed, Range, Versions
  <2>2. NamesOnce
    BY DEF ListInit, NamesOnce, IsInjective, Range
  <2> QED
    BY <2>1, <2>2 DEF ListInit, RepeatsInv
<1>2. ListTypeOK /\ ListTypeOK' /\ RepeatsInv /\ [ListNext]_listVars => RepeatsInv'
  <2> SUFFICES ASSUME ListTypeOK, ListTypeOK', RepeatsInv, [ListNext]_listVars PROVE RepeatsInv'
    OBVIOUS
  <2>0. /\ Shown \in Nat /\ Distinct
        /\ writes["push"] \in Nat /\ writes["create"] \in Nat /\ Len(artifacts) \in Nat
    BY ShownFacts DEF ListTypeOK, RepeatsInv, Kinds
  \* Writes leave the call alone: what they change is how much comes again.
  <2>1. ASSUME Distinct', UNCHANGED listing, writes'["create"] = 0 => writes["create"] = 0,
               \A j \in DOMAIN site' : j > Shown => \E k \in DOMAIN site : k > Shown /\ site'[j] = site[k],
               NEW n \in Nat, writes'["push"] = writes["push"] + n,
               \A p \in Packages : Cardinality(Again(p)') <= Cardinality(Again(p)) + n
        PROVE  RepeatsInv'
    <3>1. /\ names' = names /\ todo' = todo /\ phase' = phase /\ page' = page /\ artifacts' = artifacts
          /\ Shown' = Shown
      BY <2>1, ShownFacts DEF listing, ListTypeOK
    <3> SUFFICES ASSUME writes'["create"] = 0
                 PROVE  /\ phase = "packages" => NamesOnce'
                        /\ phase = "versions" => TodoOnce' /\ Few(Cardinality(Again(Head(todo))))'
                        /\ phase \in {"ok", "error"} => Few(0)'
      BY <2>1, <3>1 DEF RepeatsInv
    <3>2. writes["create"] = 0
      BY <2>1
    <3>3. ASSUME phase = "packages" PROVE NamesOnce'
      BY <2>1, <3>1, <3>2, <3>3 DEF RepeatsInv, NamesOnce
    <3>4. Cardinality(Range(artifacts)) \in Nat
      BY AgainTyped
    <3>5. ASSUME phase = "versions" PROVE TodoOnce' /\ Few(Cardinality(Again(Head(todo))))'
      <4> PICK p \in Packages : p = Head(todo)
        BY <3>5, HeadTailProperties DEF ListTypeOK
      <4>2. Cardinality(Again(p)) \in Nat /\ Cardinality(Again(p)') \in Nat
            /\ Cardinality(Again(p)') <= Cardinality(Again(p)) + n
        <5>1. Cardinality(Again(p)) \in Nat /\ IsFiniteSet(Range(artifacts))
          BY AgainTyped
        <5>2. Again(p)' \in SUBSET Range(artifacts)
          BY <3>1 DEF Again
        <5>3. Cardinality(Again(p)') \in Nat
          BY <5>1, <5>2, FS_Subset, FS_CardinalityType
        <5> QED
          BY <2>1, <5>1, <5>3
      <4>3. TodoOnce /\ Few(Cardinality(Again(p)))
        BY <3>2, <3>5 DEF RepeatsInv
      <4>4. Again(Head(todo))' = Again(p)'
        BY <3>1 DEF Again, ToCome
      <4>5. TodoOnce'
        BY <3>1, <4>3 DEF TodoOnce
      <4>6. Len(artifacts') + Cardinality(Again(Head(todo))') <= Cardinality(Range(artifacts')) + writes'["push"]
        BY <2>0, <2>1, <3>1, <3>4, <4>2, <4>3, <4>4 DEF Few
      <4> QED
        BY <4>5, <4>6 DEF Few
    <3>6. ASSUME phase \in {"ok", "error"} PROVE Few(0)'
      <4>1. Few(0)
        BY <3>2, <3>6 DEF RepeatsInv
      <4> QED
        BY <2>0, <2>1, <3>1, <3>4, <4>1 DEF Few
    <3> QED
      BY <3>3, <3>5, <3>6
  <2>2. ASSUME NEW p \in Packages, Push(p) PROVE RepeatsInv'
    <3>1. Distinct'
      BY <2>0, <2>2, PushDistinct
    <3>2. writes'["push"] = writes["push"] + 1 /\ writes'["create"] = writes["create"]
          /\ site' = site /\ UNCHANGED listing
      BY <2>2 DEF Push, Counted, ListTypeOK, Kinds
    <3>3. ASSUME NEW q \in Packages PROVE Cardinality(Again(q)') <= Cardinality(Again(q)) + 1
      <4> PICK x : Again(q)' \subseteq Again(q) \cup {x}
        BY <2>2, PushRepeats
      <4>1. IsFiniteSet(Again(q)) /\ Cardinality(Again(q)) \in Nat
        BY AgainTyped
      <4> DEFINE more == Again(q) \cup {x}
                 new == Again(q)'
      <4>2. IsFiniteSet(more) /\ Cardinality(more) <= Cardinality(Again(q)) + 1 /\ Cardinality(more) \in Nat
        <5> PICK old : old = Again(q)
          OBVIOUS
        <5>1. /\ IsFiniteSet(old \cup {x})
              /\ Cardinality(old \cup {x}) = IF x \in old THEN Cardinality(old) ELSE Cardinality(old) + 1
          BY <4>1, FS_AddElement
        <5> QED
          BY <4>1, <5>1
      <4> HIDE DEF more, new
      <4>3. new \in SUBSET more
        BY DEF more, new
      <4>4. Cardinality(new) <= Cardinality(more) /\ Cardinality(new) \in Nat
        BY <4>2, <4>3, FS_Subset, FS_CardinalityType
      <4> QED
        BY <4>1, <4>2, <4>4 DEF new
    <3> QED
      BY <2>1, <3>1, <3>2, <3>3
  <2>3. ASSUME NEW p \in Packages, Create(p) PROVE RepeatsInv'
    <3>1. writes'["create"] = writes["create"] + 1 /\ writes'["push"] = writes["push"]
      BY <2>3 DEF Create, Counted, ListTypeOK, Kinds
    <3>2. site' = <<p>> \o site /\ p \notin Range(site) /\ stored' = stored /\ site \in Seq(Packages)
      BY <2>3 DEF Create, ListTypeOK
    <3>3. IsInjective(<<p>>) /\ Range(<<p>>) = {p} /\ <<p>> \in Seq(Packages)
      BY DEF IsInjective, Range
    <3>4. IsInjective(site')
      <4>1. IsInjective(site)
        BY <2>0 DEF Distinct
      <4>2. \A j \in DOMAIN site : site[j] \notin Range(<<p>>)
        BY <3>2, <3>3 DEF Range
      <4> QED
        BY <3>2, <3>3, <4>1, <4>2, ConcatInjective
    <3>5. Distinct'
      BY <2>0, <3>1, <3>2, <3>4 DEF Distinct
    <3> QED
      BY <2>0, <3>1, <3>5 DEF RepeatsInv
  <2>4. ASSUME Loss PROVE RepeatsInv'
    <3>1. Distinct' /\ \A p \in Packages : Again(p)' \subseteq Again(p)
      BY <2>0, <2>4, LossKeeps
    <3>2. UNCHANGED listing /\ writes'["create"] = writes["create"] /\ writes'["push"] = writes["push"] + 0
      BY <2>0, <2>4 DEF Loss
    <3>3. ASSUME NEW j \in DOMAIN site', j > Shown PROVE \E k \in DOMAIN site : k > Shown /\ site'[j] = site[k]
      <4> PICK k \in DOMAIN site : k >= j /\ site'[j] = site[k]
        BY <2>4 DEF Loss, Shrunk
      <4>1. j \in Nat /\ k \in Nat
        <5>1. site \in Seq(Packages) /\ site' \in Seq(Packages)
          BY DEF ListTypeOK
        <5> QED
          BY <5>1
      <4>2. k > Shown
        BY <2>0, <3>3, <4>1
      <4> QED
        BY <4>2
    <3>4. ASSUME NEW p \in Packages PROVE Cardinality(Again(p)') <= Cardinality(Again(p)) + 0
      <4> DEFINE old == Again(p)
                 new == Again(p)'
      <4>1. IsFiniteSet(old) /\ Cardinality(old) \in Nat /\ new \in SUBSET old
        BY <3>1, AgainTyped
      <4> HIDE DEF old, new
      <4>2. Cardinality(new) <= Cardinality(old) + 0
        BY <4>1, FS_Subset, FS_CardinalityType
      <4> QED
        BY <4>2 DEF old, new
    <3> QED
      BY <2>1, <3>1, <3>2, <3>3, <3>4
  <2>5. CASE OtherClients
    BY <2>2, <2>3, <2>4, <2>5, DeletionLoses, DisposalLoses DEF OtherClients
  <2>6. CASE List
    <3>1. site' = site /\ stored' = stored /\ writes' = writes
      BY <2>6 DEF List, PackagesPage, Skip, VersionsPage, FailList, Quiet, registry
    <3>2. Distinct'
      BY <2>0, <3>1 DEF Distinct
    <3> SUFFICES ASSUME writes["create"] = 0
                 PROVE  /\ phase' = "packages" => NamesOnce'
                        /\ phase' = "versions" => TodoOnce' /\ Few(Cardinality(Again(Head(todo))))'
                        /\ phase' \in {"ok", "error"} => Few(0)'
      BY <3>1, <3>2 DEF RepeatsInv
    \* A package nothing of which is listed yet begins with nothing to repeat.
    <3>7. ASSUME NEW rest \in Seq(Packages), GoOn(rest), IsInjective(rest), Few(0)',
                 \A s \in Range(artifacts') : s[1] \notin Range(rest)
          PROVE  /\ phase' # "packages"
                 /\ phase' = "versions" => TodoOnce' /\ Few(Cardinality(Again(Head(todo))))'
                 /\ phase' \in {"ok", "error"} => Few(0)'
      <4>1. todo' = rest /\ phase' # "packages" /\ (phase' = "versions" => rest # <<>>)
        BY <3>7 DEF GoOn
      <4>2. ASSUME rest # <<>> PROVE TodoOnce' /\ Again(Head(rest))' = {}
        <5>1. Range(rest) = {Head(rest)} \cup Range(Tail(rest))
          BY <4>2, RangeHeadTail
        <5>2. TodoOnce'
          BY <3>7, <4>1, <5>1 DEF TodoOnce
        <5>3. Again(Head(rest))' = {}
          BY <3>7, <5>1 DEF Again
        <5> QED
          BY <5>2, <5>3
      <4>3. ASSUME phase' = "versions" PROVE Few(Cardinality(Again(Head(todo))))'
        <5>1. Again(Head(todo))' = {}
          BY <4>1, <4>2, <4>3
        <5>2. Cardinality(Again(Head(todo))') = 0
          BY <5>1, FS_EmptySet
        <5> QED
          BY <3>7, <5>2 DEF Few
      <4> QED
        BY <3>7, <4>1, <4>2, <4>3
    <3>8. ASSUME phase = "versions"
          PROVE  /\ Head(todo) \in Packages /\ Tail(todo) \in Seq(Packages)
                 /\ IsInjective(Tail(todo)) /\ Head(todo) \notin Range(Tail(todo))
                 /\ IsInjective(todo) /\ \A s \in Range(artifacts) : s[1] \notin Range(Tail(todo))
                 /\ Len(artifacts) + Cardinality(Again(Head(todo))) <= Cardinality(Range(artifacts)) + writes["push"]
      <4>1. TodoOnce /\ Few(Cardinality(Again(Head(todo))))
        BY <3>8 DEF RepeatsInv
      <4>2. todo \in Seq(Packages) /\ todo # <<>>
        BY <3>8 DEF ListTypeOK
      <4> QED
        BY <4>1, <4>2, HeadTailProperties, TailInjective DEF TodoOnce, Few
    <3>9. ASSUME artifacts' = <<>>, Range(artifacts') = {} PROVE Few(0)'
      <4>1. Cardinality(Range(artifacts')) = 0
        BY <3>9, FS_EmptySet
      <4>2. Len(artifacts') = 0
        BY <3>9
      <4>3. Len(artifacts') + 0 <= Cardinality(Range(artifacts')) + writes'["push"]
        BY <2>0, <3>1, <4>1, <4>2
      <4> QED
        BY <4>3 DEF Few
    <3>3. CASE PackagesPage
      <4> DEFINE w == Window(site)
      <4>1. NamesOnce
        BY <3>3 DEF PackagesPage, RepeatsInv
      <4>2. /\ w \in Seq(Packages) /\ Len(w) <= PerPage
            /\ \A k \in DOMAIN w : Shown + k \in DOMAIN site /\ w[k] = site[Shown + k]
        BY <2>0, WindowFacts DEF ListTypeOK
      <4>3. IsInjective(site) /\ names \in Seq(Packages) /\ names' = names \o w /\ artifacts' = artifacts
        BY <2>0, <3>3 DEF Distinct, ListTypeOK, PackagesPage
      <4> HIDE DEF w
      <4>4. \A k \in DOMAIN w : k \in Nat /\ k > 0 /\ k <= PerPage
        BY <4>2
      <4>5. IsInjective(w)
        <5> SUFFICES ASSUME NEW j \in DOMAIN w, NEW k \in DOMAIN w, w[j] = w[k] PROVE j = k
          BY DEF IsInjective
        <5>1. Shown + j = Shown + k
          BY <4>2, <4>3 DEF IsInjective
        <5> QED
          BY <2>0, <4>4, <5>1
      <4>6. \A k \in DOMAIN w : w[k] \notin Range(names)
        BY <2>0, <4>1, <4>2, <4>4 DEF NamesOnce
      <4>7. IsInjective(names') /\ names' \in Seq(Packages) /\ Range(names') = Range(names) \cup Range(w)
        BY <4>1, <4>2, <4>3, <4>5, <4>6, ConcatInjective, RangeConcat, ConcatProperties DEF NamesOnce
      <4>8. CASE HasNext(site)
        <5>1. page' = page + 1 /\ phase' = "packages"
          BY <3>3, <4>8 DEF PackagesPage
        <5>2. Shown' = Shown + PerPage
          BY <5>1, ShownFacts DEF ListTypeOK
        <5>3. ASSUME NEW i \in DOMAIN site, i > Shown' PROVE site[i] \notin Range(names')
          <6>1. i \in Nat /\ i > Shown
            <7>1. site \in Seq(Packages) /\ PerPage \in Nat
              BY DEF ListTypeOK
            <7> QED
              BY <2>0, <5>2, <5>3, <7>1
          <6>2. site[i] \notin Range(names)
            BY <4>1, <6>1 DEF NamesOnce
          <6>3. ASSUME NEW k \in DOMAIN w, w[k] = site[i] PROVE FALSE
            <7>1. Shown + k = i
              BY <4>2, <4>3, <6>3 DEF IsInjective
            <7> QED
              BY <2>0, <4>4, <5>2, <5>3, <6>1, <7>1
          <6> QED
            BY <4>7, <6>2, <6>3 DEF Range
        <5>4. NamesOnce'
          BY <3>1, <4>1, <4>3, <4>7, <5>3 DEF NamesOnce
        <5> QED
          BY <5>1, <5>4
      <4>9. CASE ~HasNext(site)
        <5>1. GoOn(names')
          BY <3>3, <4>9 DEF PackagesPage
        <5>2. artifacts' = <<>> /\ Range(artifacts') = {}
          BY <4>1, <4>3 DEF NamesOnce, Range
        <5>3. Few(0)'
          BY <3>9, <5>2
        <5> QED
          BY <3>7, <4>7, <5>1, <5>2, <5>3
      <4> QED
        BY <4>8, <4>9
    <3>4. CASE Skip
      <4>1. phase = "versions" /\ GoOn(Tail(todo)) /\ artifacts' = artifacts
        BY <3>4 DEF Skip
      <4>2. Cardinality(Again(Head(todo))) \in Nat /\ Cardinality(Range(artifacts)) \in Nat
        BY AgainTyped
      <4>3. Few(0)'
        BY <2>0, <3>1, <3>8, <4>1, <4>2 DEF Few
      <4> QED
        BY <3>7, <3>8, <4>1, <4>3
    <3>5. CASE VersionsPage
      <4>1. phase = "versions"
        BY <3>5 DEF VersionsPage
      <4> PICK p \in Packages : p = Head(todo)
        BY <3>8, <4>1
      <4> PICK w : w = Window(stored[p])
        OBVIOUS
      <4> PICK more : more = Listing(p, w)
        OBVIOUS
      <4>2. stored[p] \in Seq(Versions) /\ IsInjective(stored[p])
        BY <2>0 DEF ListTypeOK, Distinct
      <4>3. /\ w \in Seq(Versions) /\ Len(w) <= PerPage
            /\ \A k \in DOMAIN w : Shown + k \in DOMAIN stored[p] /\ w[k] = stored[p][Shown + k]
        BY <2>0, <4>2, WindowFacts
      <4>4. \A k \in DOMAIN w : k \in Nat /\ k > 0 /\ k <= PerPage
        BY <4>3
      <4>5. more \in Seq(Pairs) /\ Range(more) = {p} \X Range(w) /\ artifacts' = artifacts \o more
        BY <3>5, <4>3, ListingFacts DEF VersionsPage
      <4>6. IsInjective(w)
        <5> SUFFICES ASSUME NEW j \in DOMAIN w, NEW k \in DOMAIN w, w[j] = w[k] PROVE j = k
          BY DEF IsInjective
        <5>1. Shown + j = Shown + k
          BY <4>2, <4>3 DEF IsInjective
        <5> QED
          BY <2>0, <4>4, <5>1
      <4>7. IsInjective(more)
        BY <4>6 DEF Listing, IsInjective
      <4>8. Range(artifacts) \cap Range(more) \subseteq Again(p)
        <5> SUFFICES ASSUME NEW s \in Range(artifacts), s \in Range(more) PROVE s \in Again(p)
          OBVIOUS
        <5>1. s[1] = p /\ s[2] \in Range(w)
          BY <4>5
        <5> PICK k \in DOMAIN w : w[k] = s[2]
          BY <5>1 DEF Range
        <5>2. Shown + k > Shown
          BY <2>0, <4>4
        <5> QED
          BY <4>3, <5>1, <5>2 DEF Again, ToCome
      <4>9. artifacts \in Seq(Pairs) /\ Again(p) \in SUBSET Range(artifacts)
        BY AgainTyped DEF ListTypeOK
      <4>10. Len(artifacts) + Cardinality(Again(p)) <= Cardinality(Range(artifacts)) + writes["push"]
        BY <3>8, <4>1
      <4>11. ASSUME NEW left \in SUBSET Again(p), left \cap Range(more) = {}
             PROVE  Few(Cardinality(left))'
        <5>1. Len(artifacts \o more) + Cardinality(left) <= Cardinality(Range(artifacts \o more)) + writes["push"]
          BY <2>0, <4>5, <4>7, <4>8, <4>9, <4>10, <4>11, PageCounts
        <5> QED
          BY <3>1, <4>5, <5>1 DEF Few
      <4>12. Range(artifacts') = Range(artifacts) \cup Range(more)
        BY <4>5, <4>9, RangeConcat
      <4>13. CASE HasNext(stored[p])
        <5>1. page' = page + 1 /\ phase' = "versions" /\ todo' = todo
          BY <3>5, <4>1, <4>13 DEF VersionsPage
        <5>2. Shown' = Shown + PerPage
          BY <5>1, ShownFacts DEF ListTypeOK
        <5> PICK left : left = Again(p)'
          OBVIOUS
        <5>3. ASSUME NEW s \in left PROVE s \in Again(p) /\ s \notin Range(more)
          <6> PICK i \in DOMAIN stored[p] : i > Shown' /\ stored[p][i] = s[2]
            BY <3>1, <5>3 DEF Again, ToCome
          <6>1. s[1] = p /\ s \in Range(artifacts) \cup Range(more)
            BY <4>12, <5>3 DEF Again
          <6>2. i \in Nat /\ i > Shown
            BY <2>0, <4>2, <5>2
          <6>3. ASSUME NEW k \in DOMAIN w, w[k] = s[2] PROVE FALSE
            <7>1. Shown + k = i
              BY <4>2, <4>3, <6>3 DEF IsInjective
            <7> QED
              BY <2>0, <4>4, <5>2, <6>2, <7>1
          <6>4. s \notin Range(more)
            BY <4>5, <6>3 DEF Range
          <6> QED
            BY <6>1, <6>2, <6>4 DEF Again, ToCome
        <5>4. Few(Cardinality(left))'
          BY <4>11, <5>3
        <5>5. Again(Head(todo))' = left
          BY <5>1 DEF Again, ToCome
        <5>6. TodoOnce'
          BY <3>8, <4>1, <4>5, <4>12, <5>1 DEF TodoOnce
        <5>7. Few(Cardinality(Again(Head(todo))))'
          BY <5>4, <5>5 DEF Few
        <5> QED
          BY <5>1, <5>6, <5>7
      <4>14. CASE ~HasNext(stored[p])
        <5>1. GoOn(Tail(todo))
          BY <3>5, <4>14 DEF VersionsPage
        <5>2. Few(0)'
          <6>1. Few(Cardinality({}))'
            BY <4>11
          <6> QED
            BY <6>1, FS_EmptySet DEF Few
        <5>3. \A s \in Range(artifacts') : s[1] \notin Range(Tail(todo))
          BY <3>8, <4>1, <4>5, <4>12
        <5> QED
          BY <3>7, <3>8, <4>1, <5>1, <5>2, <5>3
      <4> QED
        BY <4>13, <4>14
    <3>6. CASE FailList
      <4>1. phase' = "error" /\ artifacts' = <<>>
        BY <3>6 DEF FailList
      <4>2. Range(artifacts') = {}
        BY <4>1 DEF Range
      <4>3. Few(0)'
        BY <3>9, <4>1, <4>2
      <4> QED
        BY <4>1, <4>3
    <3> QED
      BY <2>6, <3>3, <3>4, <3>5, <3>6 DEF List
  <2>7. CASE UNCHANGED listVars
    <3>1. Shown' = Shown
      BY <2>7, ShownFacts DEF listVars, listing, ListTypeOK
    <3> QED
      BY <2>7, <3>1 DEF listVars, listing, registry, RepeatsInv, Distinct, NamesOnce, TodoOnce, Few, Again, ToCome
  <2> QED
    BY <2>5, <2>6, <2>7 DEF ListNext
<1>3. RepeatsInv /\ ListTypeOK => RepeatsBounded
  <2> SUFFICES ASSUME RepeatsInv, ListTypeOK, writes["create"] = 0
               PROVE  Len(artifacts) <= Cardinality(Range(artifacts)) + writes["push"]
    BY DEF RepeatsBounded
  <2>1. /\ writes["push"] \in Nat /\ Len(artifacts) \in Nat
        /\ Cardinality(Range(artifacts)) \in Nat /\ Cardinality(Again(Head(todo))) \in Nat
    BY AgainTyped DEF ListTypeOK, Kinds
  <2>2. CASE phase = "packages"
    <3>1. artifacts = <<>>
      BY <2>2 DEF RepeatsInv, NamesOnce
    <3> QED
      BY <2>1, <3>1
  <2>3. CASE phase = "versions"
    BY <2>1, <2>3 DEF RepeatsInv, Few
  <2>4. CASE phase \in {"ok", "error"}
    BY <2>1, <2>4 DEF RepeatsInv, Few
  <2> QED
    BY <2>2, <2>3, <2>4 DEF ListTypeOK
<1> QED
  BY <1>1, <1>2, <1>3, ListTypeCorrect, PTL DEF ListSpec
=============================================================================
