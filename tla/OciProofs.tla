------------------------------ MODULE OciProofs ------------------------------
(***************************************************************************)
(* Theorems about the OCI provider.                                        *)
(*                                                                         *)
(* Delete: for every plan, worker pool, set of tags and amount of drift    *)
(* OciApply takes only steps of Apply, so that what ApplyProofs establishes*)
(* carries over, and with it what the registry erased is what the apply    *)
(* reports.                                                                *)
(*                                                                         *)
(* List: for every registry, configuration, page size and interleaving of  *)
(* other clients, a listing that succeeds has every tag that stayed, shows *)
(* nothing that never was, and knows of every referrer that stayed.        *)
(***************************************************************************)
EXTENDS OciApply, OciList, FiniteSetTheorems, SequenceTheorems, TLAPS

P == INSTANCE ApplyProofs

-----------------------------------------------------------------------------
(* Every step of the composition is a step of Apply, or none.              *)

\* The only answers a worker hands on are errors of the provider interface.
ReplyOK == reply \in [Actions -> A!DeleteErrors \cup {"none"}]

LEMMA ReplyTyped == Spec => []ReplyOK
<1>1. Init => ReplyOK
  BY DEF Init, ReplyOK
<1>2. ReplyOK /\ [Next]_vars => ReplyOK'
  <2> SUFFICES ASSUME ReplyOK, [Next]_vars PROVE ReplyOK'
    OBVIOUS
  <2>1. ASSUME NEW a \in Actions, Process(a) PROVE ReplyOK'
    BY <2>1 DEF ReplyOK, Process, Accept, Answer, A!DeleteErrors
  <2>2. ASSUME reply' = reply PROVE ReplyOK'
    BY <2>2 DEF ReplyOK
  <2>3. CASE EngineStep
    BY <2>2, <2>3 DEF EngineStep, calls
  <2>4. ASSUME NEW w \in Workers, Delete(w) PROVE ReplyOK'
    BY <2>2, <2>4 DEF Delete, SendHead, ReceiveHead, SendDelete, Receive, GiveUp, calls
  <2>5. ASSUME NEW t \in Tags, NEW m \in Manifests, Push(t, m) PROVE ReplyOK'
    BY <2>2, <2>5 DEF Push, calls
  <2>6. ASSUME NEW m \in Manifests, Vanish(m) PROVE ReplyOK'
    BY <2>2, <2>6 DEF Vanish, calls
  <2>7. CASE UNCHANGED vars
    BY <2>2, <2>7 DEF vars, calls
  <2> QED
    BY <2>1, <2>3, <2>4, <2>5, <2>6, <2>7 DEF Next
<1> QED
  BY <1>1, <1>2, PTL DEF Spec

LEMMA Frame == UNCHANGED engine => UNCHANGED A!vars
  BY DEF engine, A!vars, A!pool, A!collected

LEMMA CallStep ==
  ASSUME ReplyOK, NEW w \in Workers, Delete(w)
  PROVE  A!Next \/ UNCHANGED engine
<1>1. ASSUME NEW e \in A!DeleteErrors, A!Return(w, e) PROVE A!Next
  BY <1>1 DEF A!Next
<1>2. CASE SendHead(w)
  BY <1>2 DEF SendHead
<1>3. CASE ReceiveHead(w)
  BY <1>1, <1>3 DEF ReceiveHead, A!DeleteErrors
<1>4. CASE SendDelete(w)
  BY <1>4 DEF SendDelete
<1>5. CASE Receive(w)
  <2>1. held[w] \in Actions
    BY <1>5, OciAssumption DEF Receive, InCall
  <2>2. reply[held[w]] \in A!DeleteErrors
    BY <1>5, <2>1 DEF Receive, ReplyOK
  <2> QED
    BY <1>1, <1>5, <2>2 DEF Receive
<1>6. CASE GiveUp(w)
  BY <1>1, <1>6 DEF GiveUp, A!DeleteErrors
<1> QED
  BY <1>2, <1>3, <1>4, <1>5, <1>6 DEF Delete

LEMMA StepOfApply == ReplyOK /\ [Next]_vars => [A!Next]_A!vars
<1> SUFFICES ASSUME ReplyOK, [Next]_vars PROVE A!Next \/ UNCHANGED A!vars
  OBVIOUS
<1>1. CASE EngineStep
  BY <1>1 DEF EngineStep, A!Next
<1>2. ASSUME NEW w \in Workers, Delete(w) PROVE A!Next \/ UNCHANGED A!vars
  BY <1>2, CallStep, Frame
<1>3. ASSUME UNCHANGED engine PROVE UNCHANGED A!vars
  BY <1>3, Frame
<1>4. ASSUME NEW a \in Actions, Process(a) PROVE UNCHANGED engine
  BY <1>4 DEF Process
<1>5. ASSUME NEW t \in Tags, NEW m \in Manifests, Push(t, m) PROVE UNCHANGED engine
  BY <1>5 DEF Push
<1>6. ASSUME NEW m \in Manifests, Vanish(m) PROVE UNCHANGED engine
  BY <1>6 DEF Vanish
<1>7. CASE UNCHANGED vars
  BY <1>3, <1>7 DEF vars
<1> QED
  BY <1>1, <1>2, <1>3, <1>4, <1>5, <1>6, <1>7 DEF Next

\* The safety half of ImplementsApply: with this provider, an apply is one of
\* the applies of module Apply, whatever the registry does.
THEOREM Composition == Spec => A!Spec
<1>1. Init => A!Init
  BY DEF Init
<1> QED
  BY <1>1, StepOfApply, ReplyTyped, PTL DEF Spec, A!Spec

\* So it has the invariant proved for Apply.
LEMMA EngineInvariant == Spec => []P!Inv
<1>1. P!ApplyAssumption
  BY OciAssumption DEF P!ApplyAssumption, Actions
<1>2. A!Init => P!Init
  BY DEF A!Init, P!Init, A!Actions, P!Actions
<1>3. [A!Next]_A!vars => [P!Next]_P!vars
  BY DEF A!Next, P!Next, A!vars, P!vars, A!pool, P!pool, A!collected, P!collected,
         A!Engine, P!Engine, A!Start, P!Start, A!ParentDone, P!ParentDone,
         A!FeederExit, P!FeederExit, A!Feed, P!Feed, A!Worker, P!Worker,
         A!Unconfigured, P!Unconfigured, A!Report, P!Report, A!Cancel, P!Cancel,
         A!Cancels, P!Cancels, A!Reported, P!Reported, A!Exit, P!Exit,
         A!CloseOutcomes, P!CloseOutcomes, A!Finish, P!Finish,
         A!Return, P!Return, A!StatusOf, P!StatusOf, A!DeleteErrors, P!DeleteErrors
<1>4. P!Spec => []P!Inv
  BY <1>1, P!Invariance
<1> QED
  BY <1>2, <1>3, <1>4, Composition, PTL DEF A!Spec, P!Spec

-----------------------------------------------------------------------------
(* Calls, replies and outcomes.                                            *)

\* The status s of action a agrees with what became of its DELETE: a skipped
\* action was not erased and no DELETE of it can still take effect.
Consistent(a, s) ==
  /\ s = "skipped" => a \notin erased /\ a \notin wire
  /\ s = "deleted" => a \in erased

CallsInv ==
  /\ stage \in [Actions -> {"start", "asked", "matched", "sent"}]
  /\ wire \subseteq Actions
  /\ erased \subseteq Actions
  /\ err = "stale" => main = "returned" /\ fed = 0
  /\ \A a \in Actions : stage[a] # "start" => a <= fed
  /\ \A a \in Actions : a \in wire => stage[a] = "sent" /\ reply[a] = "none"
  /\ \A a \in Actions : reply[a] # "none" => stage[a] = "sent"
  /\ \A a \in Actions : a \in erased <=> reply[a] = "nil"
  /\ \A w \in Workers : pc[w] = "reporting" => Consistent(held[w], status[w])
  /\ \A a \in Actions : Consistent(a, recorded[a])

\* What Ownership says of a worker inside a call.
LEMMA Caller ==
  ASSUME P!Inv, NEW w \in Workers, NEW s, InCall(w, s)
  PROVE  /\ held[w] \in Actions /\ held[w] <= fed
         /\ recorded[held[w]] = "none"
         /\ \A x \in Workers : pc[x] = "reporting" => held[x] # held[w]
BY OciAssumption DEF InCall, P!Inv, P!Ownership, P!Busy, P!TypeOK, Actions

LEMMA InitCalls == Init => CallsInv
BY OciAssumption DEF Init, A!Init, A!Actions, CallsInv, Consistent, Actions

LEMMA EngineCalls ==
  ASSUME CallsInv, P!Inv, EngineStep
  PROVE  CallsInv'
<1> USE DEF EngineStep, calls, registry
<1>1. ASSUME NEW fresh \in BOOLEAN, A!Start(fresh) PROVE CallsInv'
  BY <1>1 DEF A!Start, A!pool, CallsInv, Consistent, P!Inv, P!MainErr
<1>2. CASE A!ParentDone
  BY <1>2 DEF A!ParentDone, A!pool, A!collected, CallsInv, Consistent
<1>3. CASE A!FeederExit
  BY <1>3 DEF A!FeederExit, A!collected, CallsInv, Consistent
<1>4. ASSUME NEW w \in Workers, A!Feed(w) PROVE CallsInv'
  <2>1. fed \in Nat /\ fed' = fed + 1
    BY <1>4 DEF A!Feed, P!Inv, P!TypeOK
  <2>2. \A a \in Actions : stage'[a] # "start" => a <= fed'
    BY <2>1, OciAssumption DEF CallsInv, Actions
  <2>3. \A x \in Workers : pc'[x] = "reporting" => Consistent(held[x], status[x])'
    BY <1>4 DEF A!Feed, CallsInv, Consistent, P!Inv, P!TypeOK
  <2> QED
    BY <1>4, <2>2, <2>3 DEF A!Feed, A!collected, CallsInv, Consistent, P!Inv, P!MainErr
<1>5. ASSUME NEW w \in Workers, A!Unconfigured(w) PROVE CallsInv'
  BY <1>5 DEF A!Unconfigured, A!collected, CallsInv, Consistent, P!Inv, P!TypeOK
<1>6. ASSUME NEW w \in Workers, A!Report(w) PROVE CallsInv'
  <2>1. held[w] \in Actions /\ Consistent(held[w], A!Reported(status[w]))
    BY <1>6, OciAssumption
       DEF A!Report, A!Reported, A!Cancels, CallsInv, Consistent, Actions,
           P!Inv, P!Ownership, P!Busy, P!TypeOK
  <2>2. \A a \in Actions : Consistent(a, recorded[a])'
    BY <1>6, <2>1 DEF A!Report, CallsInv, Consistent, P!Inv, P!TypeOK, P!Actions
  <2>3. \A x \in Workers : pc'[x] = "reporting" => Consistent(held[x], status[x])'
    BY <1>6 DEF A!Report, CallsInv, Consistent, P!Inv, P!TypeOK
  <2> QED
    BY <1>6, <2>2, <2>3 DEF A!Report, CallsInv
<1>7. ASSUME NEW w \in Workers, A!Cancel(w) \/ A!Exit(w) PROVE CallsInv'
  BY <1>7 DEF A!Cancel, A!Exit, A!collected, CallsInv, Consistent, P!Inv, P!TypeOK
<1>8. CASE A!CloseOutcomes
  BY <1>8 DEF A!CloseOutcomes, A!collected, CallsInv, Consistent
<1>9. CASE A!Finish
  BY <1>9 DEF A!Finish, A!pool, CallsInv, Consistent
<1> QED
  BY <1>1, <1>2, <1>3, <1>4, <1>5, <1>6, <1>7, <1>8, <1>9 DEF A!Engine, A!Worker

\* A call that returns with error e leaves a status that agrees with the reply.
LEMMA ReturnCalls ==
  ASSUME CallsInv, P!Inv, NEW w \in Workers, NEW e, A!Return(w, e),
         Consistent(held[w], A!StatusOf(e)), UNCHANGED <<calls, erased>>
  PROVE  CallsInv'
<1>1. \A x \in Workers : pc'[x] = "reporting" => Consistent(held[x], status[x])'
  BY DEF A!Return, CallsInv, Consistent, calls, P!Inv, P!TypeOK
<1> QED
  BY <1>1 DEF A!Return, A!collected, CallsInv, Consistent, calls

\* A call that goes on: its stage moves, and perhaps its DELETE goes out.
LEMMA AdvanceCalls ==
  ASSUME CallsInv, P!Inv, ReplyOK, NEW w \in Workers, NEW s \in {"start", "asked", "matched"},
         NEW t \in {"asked", "matched", "sent"}, InCall(w, s), Advance(w, t),
         wire' = wire \/ (t = "sent" /\ wire' = wire \cup {held[w]}),
         UNCHANGED <<engine, reply, erased>>
  PROVE  CallsInv'
<1>1. held[w] \in Actions /\ held[w] <= fed /\ recorded[held[w]] = "none"
  BY Caller
<1>2. stage[held[w]] # "sent" /\ held[w] \notin wire /\ reply[held[w]] = "none"
  BY <1>1 DEF InCall, CallsInv
<1>3. stage' = [stage EXCEPT ![held[w]] = t]
  BY DEF Advance
<1>4. \A x \in Workers : pc'[x] = "reporting" => Consistent(held[x], status[x])'
  BY Caller DEF CallsInv, Consistent, engine
<1>5. \A a \in Actions : Consistent(a, recorded[a])'
  BY <1>1 DEF CallsInv, Consistent, engine
<1>6. \A a \in Actions : a \in wire' => stage'[a] = "sent" /\ reply'[a] = "none"
  BY <1>1, <1>2, <1>3 DEF CallsInv
<1> QED
  BY <1>1, <1>2, <1>3, <1>4, <1>5, <1>6 DEF CallsInv, engine

LEMMA DeleteCalls ==
  ASSUME CallsInv, P!Inv, ReplyOK, NEW w \in Workers, Delete(w)
  PROVE  CallsInv'
<1> USE DEF registry, history
<1>1. CASE SendHead(w)
  BY <1>1, AdvanceCalls DEF SendHead
<1>2. CASE ReceiveHead(w)
  <2>1. held[w] \in Actions
    BY <1>2, Caller DEF ReceiveHead
  <2>2. Consistent(held[w], "skipped")
    BY <1>2, <2>1 DEF ReceiveHead, InCall, CallsInv, Consistent
  <2>3. ASSUME A!Return(w, "notFound"), UNCHANGED stage PROVE CallsInv'
    BY <1>2, <2>2, <2>3, ReturnCalls DEF ReceiveHead, A!StatusOf, calls
  <2>4. ASSUME A!Return(w, "precondition"), UNCHANGED stage PROVE CallsInv'
    BY <1>2, <2>4, ReturnCalls DEF ReceiveHead, A!StatusOf, calls, Consistent
  <2>5. ASSUME Advance(w, "matched"), UNCHANGED engine PROVE CallsInv'
    BY <1>2, <2>5, AdvanceCalls DEF ReceiveHead
  <2> QED
    BY <1>2, <2>3, <2>4, <2>5 DEF ReceiveHead
<1>3. CASE SendDelete(w)
  BY <1>3, AdvanceCalls DEF SendDelete
<1>4. CASE Receive(w)
  <2>1. held[w] \in Actions
    BY <1>4, Caller DEF Receive
  <2>2. Consistent(held[w], A!StatusOf(reply[held[w]]))
    BY <1>4, <2>1 DEF Receive, A!StatusOf, ReplyOK, A!DeleteErrors, CallsInv, Consistent
  <2> QED
    BY <1>4, <2>2, ReturnCalls DEF Receive
<1>5. CASE GiveUp(w)
  BY <1>5, ReturnCalls DEF GiveUp, A!StatusOf, Consistent
<1> QED
  BY <1>1, <1>2, <1>3, <1>4, <1>5 DEF Delete

LEMMA ProcessCalls ==
  ASSUME CallsInv, P!Inv, ReplyOK, NEW a \in Actions, Process(a)
  PROVE  CallsInv'
<1>1. a \in wire /\ wire' = wire \ {a} /\ stage[a] = "sent" /\ reply[a] = "none" /\ a \notin erased
  BY DEF Process, CallsInv
<1>2. PICK e \in A!DeleteErrors :
        /\ reply' = [reply EXCEPT ![a] = e]
        /\ erased' = IF e = "nil" THEN erased \cup {a} ELSE erased
  BY DEF Process, Accept, Answer, A!DeleteErrors
<1>3. UNCHANGED <<engine, stage>>
  BY DEF Process
<1>4. \A b \in Actions : b # a => (b \in erased' <=> b \in erased) /\ reply'[b] = reply[b]
  BY <1>2 DEF ReplyOK
<1>5. reply'[a] = e /\ (a \in erased' <=> e = "nil")
  BY <1>1, <1>2 DEF ReplyOK
<1>6. \A b \in Actions : \A s : Consistent(b, s) => Consistent(b, s)'
  BY <1>1, <1>2 DEF Consistent
<1>7. \A w \in Workers : pc[w] = "reporting" => held[w] \in Actions
  BY OciAssumption DEF P!Inv, P!Ownership, P!Busy, P!TypeOK, Actions
<1> QED
  BY <1>1, <1>2, <1>3, <1>4, <1>5, <1>6, <1>7 DEF CallsInv, engine, A!DeleteErrors, Consistent

LEMMA StepCalls ==
  ASSUME CallsInv, P!Inv, ReplyOK, [Next]_vars
  PROVE  CallsInv'
<1>1. ASSUME UNCHANGED <<engine, calls, erased>> PROVE CallsInv'
  BY <1>1 DEF engine, calls, CallsInv, Consistent
<1>2. ASSUME NEW t \in Tags, NEW m \in Manifests, Push(t, m) PROVE CallsInv'
  BY <1>1, <1>2 DEF Push
<1>3. ASSUME NEW m \in Manifests, Vanish(m) PROVE CallsInv'
  BY <1>1, <1>3 DEF Vanish, history
<1>4. CASE UNCHANGED vars
  BY <1>1, <1>4 DEF vars, history
<1> QED
  BY <1>2, <1>3, <1>4, EngineCalls, DeleteCalls, ProcessCalls DEF Next

LEMMA CallsInvariant == Spec => []CallsInv
BY InitCalls, StepCalls, EngineInvariant, ReplyTyped, PTL DEF Spec

\* Nothing this apply erased is reported as skipped, even when nobody waited
\* for the answer.
THEOREM ErasedReported == Spec => []ErasedAreReported
<1>1. CallsInv /\ P!Inv => ErasedAreReported
  <2> SUFFICES ASSUME CallsInv, P!Inv, main = "returned", NEW a \in Actions, a \in erased
               PROVE  recorded[a] \in {"deleted", "failed"}
    BY DEF ErasedAreReported, CallsInv
  <2>1. a <= fed /\ err # "stale"
    BY OciAssumption DEF CallsInv, Actions
  <2>2. \A w \in Workers : pc[w] = "exited"
    BY <2>1 DEF P!Inv, P!CloseOrder
  <2>3. recorded[a] # "none"
    BY <2>1, <2>2 DEF P!Inv, P!Ownership, P!Busy, P!Actions, Actions
  <2>4. recorded[a] # "skipped"
    BY DEF CallsInv, Consistent
  <2> QED
    BY <2>3, <2>4 DEF P!Inv, P!TypeOK, P!Statuses, P!Actions, Actions
<1> QED
  BY <1>1, CallsInvariant, EngineInvariant, PTL

\* What is reported as deleted was erased by a DELETE of this apply.
THEOREM DeletedErased == Spec => []DeletedWereErased
<1>1. CallsInv => DeletedWereErased
  BY DEF CallsInv, Consistent, DeletedWereErased
<1> QED
  BY <1>1, CallsInvariant, PTL

-----------------------------------------------------------------------------
(* Moved tags.                                                             *)

\* The plan was accepted.
Accepted == main # "checking" /\ err # "stale"

NamedInv ==
  /\ tagOf \in [Tags -> Manifests \cup {NoManifest}]
  /\ main = "checking" => \A a \in Actions : stage[a] = "start"
  /\ Accepted => \A a \in Actions : tagOf[FirstTag[a]] = a => a \in named
  /\ \A a \in Actions : stage[a] \in {"matched", "sent"} => a \in named

LEMMA InitNamed == Init => NamedInv
<1> SUFFICES ASSUME Init PROVE NamedInv
  OBVIOUS
<1>1. tagOf \in [Tags -> Manifests \cup {NoManifest}]
  BY DEF Init, Manifests
<1> QED
  BY <1>1 DEF Init, A!Init, NamedInv, Accepted

\* Deleting a manifest takes tags away and gives none.
LEMMA FewerTags ==
  ASSUME NamedInv, NEW m \in Manifests, tagOf' = WithoutTags(m)
  PROVE  /\ tagOf' \in [Tags -> Manifests \cup {NoManifest}]
         /\ \A a \in Actions : tagOf'[FirstTag[a]] = a => tagOf[FirstTag[a]] = a
BY OciAssumption DEF NamedInv, WithoutTags, NoManifest, Actions

LEMMA StepNamed ==
  ASSUME NamedInv, CallsInv, P!Inv, [Next]_vars
  PROVE  NamedInv'
<1>1. CASE EngineStep
  <2>1. ASSUME NEW fresh \in BOOLEAN, A!Start(fresh) PROVE NamedInv'
    BY <1>1, <2>1 DEF EngineStep, A!Start, NamedInv, Accepted, registry, calls
  <2>2. ASSUME main' # "checking", Accepted PROVE NamedInv'
    BY <1>1, <2>2 DEF EngineStep, NamedInv, Accepted, registry, calls
  <2>3. ASSUME UNCHANGED <<main, err>> PROVE NamedInv'
    BY <1>1, <2>3 DEF EngineStep, NamedInv, Accepted, registry, calls
  <2>4. ASSUME NEW w \in Workers, A!Feed(w) \/ A!Worker(w) PROVE UNCHANGED <<main, err>>
    BY <2>4 DEF A!Feed, A!Worker, A!Unconfigured, A!Report, A!Cancel, A!Exit, A!collected
  <2>5. CASE A!ParentDone \/ A!FeederExit \/ A!CloseOutcomes
    BY <2>3, <2>5 DEF A!ParentDone, A!FeederExit, A!CloseOutcomes, A!collected
  <2>6. CASE A!Finish
    BY <2>2, <2>6 DEF A!Finish, Accepted, CallsInv
  <2> QED
    BY <1>1, <2>1, <2>3, <2>4, <2>5, <2>6 DEF EngineStep, A!Engine
<1>2. ASSUME NEW w \in Workers, Delete(w) PROVE NamedInv'
  <2>1. PICK s : InCall(w, s)
    BY <1>2 DEF Delete, SendHead, ReceiveHead, SendDelete, Receive, GiveUp
  <2>2. held[w] \in Actions
    BY <2>1, OciAssumption DEF InCall
  <2>3. Accepted
    BY <2>1 DEF InCall, P!Inv, P!Ownership, P!Busy, P!MainErr, P!TypeOK, CallsInv, Accepted
  <2>4. UNCHANGED <<main, err, tagOf, named>>
    BY <1>2 DEF Delete, SendHead, ReceiveHead, SendDelete, Receive, GiveUp, A!Return,
                A!collected, engine, registry, history
  <2>5. \/ stage' = stage
        \/ Advance(w, "asked")
        \/ Advance(w, "matched") /\ tagOf[FirstTag[held[w]]] = held[w]
        \/ Advance(w, "sent") /\ stage[held[w]] = "matched"
    BY <1>2 DEF Delete, SendHead, ReceiveHead, SendDelete, Receive, GiveUp, InCall, calls
  <2>6. \A a \in Actions : stage'[a] \in {"matched", "sent"} => a \in named
    BY <2>2, <2>3, <2>5 DEF Advance, NamedInv, CallsInv
  <2> QED
    BY <2>3, <2>4, <2>6 DEF NamedInv, Accepted
<1>3. ASSUME NEW a \in Actions, Process(a) PROVE NamedInv'
  <2>1. UNCHANGED <<main, err, stage, named>>
    BY <1>3 DEF Process, engine
  <2>2. a \in Manifests
    BY DEF Manifests
  <2>3. tagOf' = WithoutTags(a) \/ tagOf' = tagOf
    BY <1>3 DEF Process, Accept, Answer
  <2> QED
    BY <2>1, <2>2, <2>3, FewerTags DEF NamedInv, Accepted
<1>4. ASSUME NEW t \in Tags, NEW m \in Manifests, Push(t, m) PROVE NamedInv'
  BY <1>4, OciAssumption DEF Push, NamedInv, Accepted, engine, calls
<1>5. ASSUME NEW m \in Manifests, Vanish(m) PROVE NamedInv'
  <2>1. tagOf' = WithoutTags(m) /\ UNCHANGED <<main, err, stage, named>>
    BY <1>5 DEF Vanish, engine, calls, history
  <2> QED
    BY <2>1, FewerTags DEF NamedInv, Accepted
<1>6. CASE UNCHANGED vars
  BY <1>6 DEF vars, engine, registry, calls, history, NamedInv, Accepted
<1> QED
  BY <1>1, <1>2, <1>3, <1>4, <1>5, <1>6 DEF Next

\* An artifact whose first tag names something else throughout the apply is
\* not erased.
THEOREM MovedKept == Spec => []MovedAreKept
<1>1. NamedInv /\ CallsInv => MovedAreKept
  BY DEF NamedInv, CallsInv, MovedAreKept
<1> QED
  BY <1>1, InitNamed, StepNamed, CallsInvariant, EngineInvariant, PTL DEF Spec

-----------------------------------------------------------------------------
(* Type correctness.                                                       *)

RegistryOK ==
  /\ present \subseteq Manifests
  /\ drift \in 0..MaxDrift
  /\ named \subseteq Actions
  /\ altered \subseteq Actions

LEMMA StepRegistry ==
  ASSUME RegistryOK, [Next]_vars
  PROVE  RegistryOK'
<1> USE DEF RegistryOK
<1>1. CASE EngineStep
  BY <1>1 DEF EngineStep, registry
<1>2. ASSUME NEW w \in Workers, Delete(w) PROVE RegistryOK'
  BY <1>2, OciAssumption
     DEF Delete, SendHead, ReceiveHead, SendDelete, Receive, GiveUp, InCall, registry, history
<1>3. ASSUME NEW a \in Actions, Process(a) PROVE RegistryOK'
  BY <1>3 DEF Process, Accept, Answer
<1>4. ASSUME NEW t \in Tags, NEW m \in Manifests, Push(t, m) PROVE RegistryOK'
  BY <1>4, OciAssumption DEF Push
<1>5. ASSUME NEW m \in Manifests, Vanish(m) PROVE RegistryOK'
  BY <1>5, OciAssumption DEF Vanish, history
<1>6. CASE UNCHANGED vars
  BY <1>6 DEF vars, registry, history
<1> QED
  BY <1>1, <1>2, <1>3, <1>4, <1>5, <1>6 DEF Next

\* Every variable of the composition keeps its type.
THEOREM OciTypeCorrect == Spec => []TypeOK
<1>1. Init => RegistryOK
  BY OciAssumption DEF Init, RegistryOK, Manifests
<1>2. P!Inv => A!TypeOK
  BY DEF P!Inv, P!TypeOK, A!TypeOK, P!Statuses, A!Statuses, P!Actions, A!Actions
<1>3. RegistryOK /\ NamedInv /\ CallsInv /\ ReplyOK /\ P!Inv => TypeOK
  BY <1>2 DEF RegistryOK, NamedInv, CallsInv, ReplyOK, TypeOK
<1> QED
  BY <1>1, <1>3, StepRegistry, InitNamed, StepNamed, CallsInvariant, ReplyTyped,
     EngineInvariant, PTL DEF Spec

-----------------------------------------------------------------------------
(* List: sequences and the order of numbers.                               *)

LEMMA TailRange ==
  ASSUME NEW S, NEW s \in Seq(S), s # <<>>
  PROVE  /\ Tail(s) \in Seq(S) /\ Head(s) \in S /\ Head(s) = s[1] /\ 1 \in DOMAIN s
         /\ \A i \in DOMAIN Tail(s) : i + 1 \in DOMAIN s /\ Tail(s)[i] = s[i + 1]
         /\ \A i \in DOMAIN s : i # 1 => i - 1 \in DOMAIN Tail(s) /\ Tail(s)[i - 1] = s[i]
         /\ Range(s) = {Head(s)} \cup Range(Tail(s))
<1>1. /\ Tail(s) \in Seq(S) /\ Len(Tail(s)) = Len(s) - 1
      /\ \A i \in 1..Len(Tail(s)) : Tail(s)[i] = s[i + 1]
  BY HeadTailProperties
<1>2. Len(s) \in Nat \ {0} /\ Head(s) = s[1] /\ DOMAIN s = 1..Len(s) /\ DOMAIN Tail(s) = 1..Len(Tail(s))
  BY <1>1
<1>3. ASSUME NEW i \in DOMAIN s, i # 1 PROVE i - 1 \in DOMAIN Tail(s) /\ Tail(s)[i - 1] = s[i]
  <2>1. i - 1 \in 1..Len(Tail(s)) /\ (i - 1) + 1 = i
    BY <1>1, <1>2, <1>3
  <2> QED
    BY <1>1, <1>2, <2>1
<1>4. ASSUME NEW i \in DOMAIN Tail(s) PROVE i + 1 \in DOMAIN s /\ Tail(s)[i] = s[i + 1]
  BY <1>1, <1>2
<1>5. 1 \in DOMAIN s /\ Head(s) \in S
  BY <1>2
<1>6. Range(s) = {Head(s)} \cup Range(Tail(s))
  BY <1>2, <1>3, <1>4, <1>5 DEF Range
<1> QED
  BY <1>1, <1>2, <1>3, <1>4, <1>5, <1>6

LEMMA InjectiveTail ==
  ASSUME NEW S, NEW s \in Seq(S), s # <<>>, IsInjective(s)
  PROVE  IsInjective(Tail(s)) /\ Head(s) \notin Range(Tail(s))
<1>1. /\ Head(s) = s[1] /\ 1 \in DOMAIN s /\ Tail(s) \in Seq(S)
      /\ \A i \in DOMAIN Tail(s) : i + 1 \in DOMAIN s /\ Tail(s)[i] = s[i + 1]
  BY TailRange
<1>2. DOMAIN Tail(s) \subseteq Nat \ {0}
  BY <1>1
<1>3. Head(s) \notin Range(Tail(s))
  <2> SUFFICES ASSUME NEW i \in DOMAIN Tail(s), Tail(s)[i] = s[1] PROVE FALSE
    BY <1>1 DEF Range
  <2>1. i + 1 = 1
    BY <1>1 DEF IsInjective
  <2> QED
    BY <1>2, <2>1
<1>4. ASSUME NEW i \in DOMAIN Tail(s), NEW j \in DOMAIN Tail(s), Tail(s)[i] = Tail(s)[j] PROVE i = j
  <2>1. i + 1 = j + 1
    BY <1>1, <1>4 DEF IsInjective
  <2> QED
    BY <1>2, <2>1
<1> QED
  BY <1>3, <1>4 DEF IsInjective

\* The rank of a number grows with the number.
LEMMA RankFacts ==
  ASSUME NEW s \in SUBSET Nat, IsFiniteSet(s), NEW x \in s
  PROVE  /\ Rank(x, s) \in Nat /\ Cardinality(s) \in Nat /\ Rank(x, s) < Cardinality(s)
         /\ \A y \in s : Rank(x, s) < Rank(y, s) <=> x < y
<1> DEFINE Below(y) == {z \in s : z < y}
<1>1. ASSUME NEW y \in s
      PROVE  /\ IsFiniteSet(Below(y)) /\ Cardinality(Below(y)) \in Nat /\ Cardinality(s) \in Nat
             /\ Cardinality(Below(y)) < Cardinality(s)
  <2>1. Below(y) \in SUBSET s /\ y \notin Below(y)
    OBVIOUS
  <2>2. /\ IsFiniteSet(Below(y)) /\ Cardinality(Below(y)) <= Cardinality(s)
        /\ Cardinality(s) = Cardinality(Below(y)) => s = Below(y)
    BY <2>1, FS_Subset
  <2>3. Cardinality(s) # Cardinality(Below(y))
    BY <2>1, <2>2
  <2>4. Cardinality(Below(y)) \in Nat /\ Cardinality(s) \in Nat
    BY <2>2, FS_CardinalityType
  <2> HIDE DEF Below
  <2> QED
    BY <2>2, <2>3, <2>4
<1>2. ASSUME NEW y \in s, NEW z \in s, y < z PROVE Cardinality(Below(y)) < Cardinality(Below(z))
  <2>0. \A w \in s : w < y => w < z
    BY <1>2
  <2>a. y \in Below(z) /\ y \notin Below(y)
    BY <1>2
  <2>b. Below(y) \in SUBSET Below(z)
    BY <2>0
  <2>1. Below(y) \in SUBSET Below(z) /\ y \in Below(z) /\ y \notin Below(y)
    BY <2>a, <2>b
  <2>2. /\ Cardinality(Below(y)) <= Cardinality(Below(z))
        /\ Cardinality(Below(z)) = Cardinality(Below(y)) => Below(z) = Below(y)
    BY <1>1, <2>1, FS_Subset
  <2>3. Cardinality(Below(z)) # Cardinality(Below(y))
    BY <2>1, <2>2
  <2>4. Cardinality(Below(y)) \in Nat /\ Cardinality(Below(z)) \in Nat
    BY <1>1
  <2> HIDE DEF Below
  <2> QED
    BY <2>2, <2>3, <2>4
<1>3. \A y : Rank(y, s) = Cardinality(Below(y))
  BY DEF Rank
<1> HIDE DEF Below
<1>4. ASSUME NEW y \in s PROVE Rank(x, s) < Rank(y, s) <=> x < y
  <2>1. Rank(x, s) \in Nat /\ Rank(y, s) \in Nat
    BY <1>1, <1>3
  <2>2. x < y => Rank(x, s) < Rank(y, s)
    BY <1>2, <1>3
  <2>3. y < x => Rank(y, s) < Rank(x, s)
    BY <1>2, <1>3
  <2>4. x \in Nat /\ y \in Nat
    OBVIOUS
  <2> QED
    BY <2>1, <2>2, <2>3, <2>4
<1> QED
  BY <1>1, <1>3, <1>4

\* A finite set of numbers has an ascending enumeration: by the pigeonhole
\* principle each rank is that of an element.
LEMMA AscendingFacts ==
  ASSUME NEW s \in SUBSET Nat, IsFiniteSet(s)
  PROVE  /\ Ascending(s) \in Seq(s) /\ Len(Ascending(s)) = Cardinality(s)
         /\ Ascending(s) \in Seq(Nat)
         /\ DOMAIN Ascending(s) = 1..Cardinality(s)
         /\ \A i \in DOMAIN Ascending(s) : Ascending(s)[i] \in s
         /\ Range(Ascending(s)) = s
         /\ \A i, j \in DOMAIN Ascending(s) : i < j => Ascending(s)[i] < Ascending(s)[j]
         /\ IsInjective(Ascending(s))
<1> DEFINE n == Cardinality(s)
           rank == [x \in s |-> Rank(x, s)]
<1>1. n \in Nat
  BY FS_CardinalityType
<1>2. \A x \in s : Rank(x, s) \in 0..(n - 1)
  BY <1>1, RankFacts
<1>3. ASSUME NEW x \in s, NEW y \in s, Rank(x, s) = Rank(y, s) PROVE x = y
  <2>1. ~(x < y) /\ ~(y < x)
    <3>1. Rank(x, s) \in Nat
      BY RankFacts
    <3>2. ~(Rank(x, s) < Rank(y, s)) /\ ~(Rank(y, s) < Rank(x, s))
      BY <1>3, <3>1
    <3> QED
      BY <3>2, RankFacts
  <2>2. x \in Nat /\ y \in Nat
    OBVIOUS
  <2> QED
    BY <2>1, <2>2
<1>4. rank \in Injection(s, 0..(n - 1))
  BY <1>2, <1>3 DEF Injection, IsInjective
<1>5. IsFiniteSet(0..(n - 1)) /\ Cardinality(0..(n - 1)) = n
  <2>1. 0 \in Int /\ n - 1 \in Int
    BY <1>1
  <2>2. IsFiniteSet(0..(n - 1)) /\ Cardinality(0..(n - 1)) = IF 0 > n - 1 THEN 0 ELSE (n - 1) - 0 + 1
    BY <2>1, FS_Interval
  <2> QED
    BY <1>1, <2>2
<1>6. rank \in Surjection(s, 0..(n - 1))
  BY <1>4, <1>5, FS_Injection
<1>7. ASSUME NEW i \in 1..n PROVE Ascending(s)[i] \in s /\ Rank(Ascending(s)[i], s) = i - 1
  <2>1. i - 1 \in 0..(n - 1)
    BY <1>1
  <2>2. \E x \in s : Rank(x, s) = i - 1
    BY <1>6, <2>1 DEF Surjection
  <2>3. Ascending(s)[i] = CHOOSE x \in s : Rank(x, s) = i - 1
    BY DEF Ascending
  <2> QED
    BY <2>2, <2>3
<1>8. DOMAIN Ascending(s) = 1..n /\ Ascending(s) \in [1..n -> s]
  BY <1>7 DEF Ascending
<1> HIDE DEF n, rank
<1>9. Ascending(s) \in Seq(s) /\ Len(Ascending(s)) = n
  BY <1>1, <1>8, SeqDef, LenProperties
<1>10. ASSUME NEW x \in s PROVE x \in Range(Ascending(s))
  <2>1. Rank(x, s) + 1 \in 1..n /\ (Rank(x, s) + 1) - 1 = Rank(x, s)
    BY <1>1, <1>2
  <2>2. Ascending(s)[Rank(x, s) + 1] = x
    BY <1>3, <1>7, <2>1
  <2> QED
    BY <1>8, <2>1, <2>2 DEF Range
<1>11. ASSUME NEW i \in 1..n, NEW j \in 1..n, i < j PROVE Ascending(s)[i] < Ascending(s)[j]
  <2>1. i - 1 < j - 1
    BY <1>1, <1>11
  <2> QED
    BY <1>7, <2>1, RankFacts
<1>12. ASSUME NEW i \in 1..n, NEW j \in 1..n, Ascending(s)[i] = Ascending(s)[j] PROVE i = j
  <2>1. i - 1 = j - 1
    BY <1>7, <1>12
  <2> QED
    BY <1>1, <2>1
<1>13. Range(Ascending(s)) = s
  BY <1>7, <1>8, <1>10 DEF Range
<1>14. Ascending(s) \in Seq(Nat)
  <2>1. Ascending(s) \in [1..n -> Nat]
    BY <1>8
  <2> QED
    BY <1>1, <2>1, SeqDef
<1> QED
  BY <1>7, <1>8, <1>9, <1>11, <1>12, <1>13, <1>14 DEF n, IsInjective

\* A page: what came before it and what comes after it.
LEMMA PageFacts ==
  ASSUME page \in SUBSET Nat, IsFiniteSet(page), PageSize \in Nat \ {0},
         NEW s \in SUBSET Nat, IsFiniteSet(s)
  PROVE  /\ PageOf(s) \in SUBSET s /\ IsFiniteSet(page \cup PageOf(s)) /\ page \cup PageOf(s) \in SUBSET Nat
         /\ \A x \in s : (x \in page \/ \A y \in page : x > y) =>
              \/ x \in page \cup PageOf(s)
              \/ HasNext(s) /\ \A y \in page \cup PageOf(s) : x > y
<1>1. After(s) \in SUBSET s
  BY DEF After
<1>2. IsFiniteSet(After(s)) /\ After(s) \in SUBSET Nat
  BY <1>1, FS_Subset
<1>3. PageOf(s) \in SUBSET s
  BY <1>1 DEF PageOf
<1>4. IsFiniteSet(page \cup PageOf(s)) /\ page \cup PageOf(s) \in SUBSET Nat
  BY <1>3, FS_Subset, FS_Union
<1>5. ASSUME NEW x \in s, \A y \in page : x > y, x \notin PageOf(s)
      PROVE  HasNext(s) /\ \A y \in page \cup PageOf(s) : x > y
  <2>1. x \in After(s)
    BY <1>5 DEF After
  <2>2. Rank(x, After(s)) \in Nat /\ Rank(x, After(s)) < Cardinality(After(s)) /\ Cardinality(After(s)) \in Nat
    BY <1>2, <2>1, RankFacts
  <2>3. ~(Rank(x, After(s)) < PageSize)
    BY <1>5, <2>1 DEF PageOf
  <2>4. HasNext(s)
    BY <2>2, <2>3 DEF HasNext
  <2>5. ASSUME NEW y \in PageOf(s) PROVE x > y
    <3>1. y \in After(s) /\ Rank(y, After(s)) < PageSize
      BY DEF PageOf
    <3>2. Rank(y, After(s)) \in Nat
      BY <1>2, <3>1, RankFacts
    <3>3. Rank(y, After(s)) < Rank(x, After(s))
      BY <2>2, <2>3, <3>1, <3>2
    <3>4. y < x
      BY <1>2, <2>1, <3>1, <3>3, RankFacts
    <3> QED
      BY <3>4
  <2> QED
    BY <1>5, <2>4, <2>5
<1> QED
  BY <1>3, <1>4, <1>5

-----------------------------------------------------------------------------
(* List: types.                                                            *)

\* The variables a step of List does not change.
LEMMA WorldKept ==
  ASSUME ListTypeOK, UNCHANGED <<world, repositories, histories>>
  PROVE  /\ api' \in BOOLEAN
         /\ DOMAIN names' = Repositories
         /\ \A r \in Repositories :
              /\ DOMAIN names'[r] \in SUBSET Nat /\ IsFiniteSet(DOMAIN names'[r])
              /\ names'[r] \in [DOMAIN names'[r] -> Digests]
         /\ attached' \subseteq Pairs
         /\ repositories' \in Configurations
         /\ writes' \in 0..MaxWrites
         /\ steady' \subseteq everNamed'
         /\ guarded' \subseteq Pairs
<1>1. /\ api' = api /\ names' = names /\ attached' = attached /\ repositories' = repositories
      /\ writes' = writes /\ steady' = steady /\ everNamed' = everNamed /\ guarded' = guarded
  BY DEF world, histories
<1> QED
  BY <1>1 DEF ListTypeOK

\* The variables a write of another client does not change.
LEMMA ListKept ==
  ASSUME ListTypeOK, UNCHANGED <<phase, bearer, todo, page, current, artifacts>>
  PROVE  /\ phase' \in {"catalog", "tags", "resolve", "referrers", "fallback", "ok", "error"}
         /\ phase' \in {"tags", "resolve", "referrers", "fallback"} => todo' # <<>>
         /\ phase' \in {"resolve", "referrers", "fallback"} => Head(todo') \in Repositories
         /\ phase' = "resolve" => tags' # <<>>
         /\ phase' = "fallback" => subject' \in unasked'
         /\ bearer' \in {"fresh", "challenged", "authorised"}
         /\ todo' \in Seq(Nat)
         /\ page' \in SUBSET Nat /\ IsFiniteSet(page')
         /\ tags' \in Seq(Nat)
         /\ DOMAIN byDigest' \subseteq Digests
         /\ byDigest' \in [DOMAIN byDigest' -> SUBSET Nat]
         /\ unasked' \subseteq DOMAIN byDigest'
         /\ subject' \in {0} \cup DOMAIN byDigest'
         /\ referred' \subseteq DOMAIN byDigest'
         /\ artifacts' \in Seq(Artifact)
<1>1. /\ phase' = phase /\ bearer' = bearer /\ todo' = todo /\ page' = page /\ artifacts' = artifacts
      /\ tags' = tags /\ byDigest' = byDigest /\ unasked' = unasked /\ subject' = subject
      /\ referred' = referred
  BY DEF current
<1> QED
  BY <1>1 DEF ListTypeOK

\* The next repository.
LEMMA BeginTyped ==
  ASSUME ListTypeOK, UNCHANGED <<world, repositories, histories>>,
         bearer' \in {"fresh", "challenged", "authorised"},
         NEW rest \in Seq(Nat), Begin(rest), artifacts' \in Seq(Artifact)
  PROVE  ListTypeOK'
<1>1. /\ todo' = rest /\ phase' = IF rest = <<>> THEN "ok" ELSE "tags"
      /\ page' = {} /\ tags' = <<>> /\ byDigest' = NoTags
      /\ unasked' = {} /\ subject' = 0 /\ referred' = {}
  BY DEF Begin
<1>2. IsFiniteSet({}) /\ DOMAIN NoTags = {} /\ NoTags \in [{} -> SUBSET Nat]
  BY FS_EmptySet DEF NoTags
<1> QED
  BY <1>1, <1>2, WorldKept, SMTT(30) DEF ListTypeOK

\* What is found in a repository.
LEMMA FoundTyped ==
  ASSUME ListTypeOK, OciListAssumption, NEW r \in Repositories, NEW known
  PROVE  /\ Found(r, known) \in Seq(Artifact)
         /\ DOMAIN Ascending(DOMAIN byDigest) = 1..Cardinality(DOMAIN byDigest)
         /\ Len(Found(r, known)) = Cardinality(DOMAIN byDigest)
         /\ Cardinality(DOMAIN byDigest) \in Nat
         /\ \A i \in 1..Cardinality(DOMAIN byDigest) :
              LET d == Ascending(DOMAIN byDigest)[i]
              IN  /\ d \in DOMAIN byDigest
                  /\ Found(r, known)[i] = [repository |-> r, digest |-> d, tags |-> byDigest[d],
                                           referrers |-> d \in known]
<1> DEFINE n == Cardinality(DOMAIN byDigest)
           q == Ascending(DOMAIN byDigest)
<1>1. DOMAIN byDigest \in SUBSET Nat /\ IsFiniteSet(DOMAIN byDigest) /\ n \in Nat
  <2>1. DOMAIN byDigest \in SUBSET Digests /\ Digests \subseteq Nat /\ IsFiniteSet(Digests)
    BY DEF ListTypeOK, OciListAssumption
  <2> QED
    BY <2>1, FS_Subset, FS_CardinalityType
<1>2. DOMAIN q = 1..n /\ \A i \in DOMAIN q : q[i] \in DOMAIN byDigest
  BY <1>1, AscendingFacts
<1>3. \A i \in 1..n : q[i] \in DOMAIN byDigest
  BY <1>2
<1>4. Found(r, known) = [i \in 1..n |-> [repository |-> r, digest |-> q[i], tags |-> byDigest[q[i]],
                                          referrers |-> q[i] \in known]]
  BY DEF Found
<1> HIDE DEF n, q
<1>5. ASSUME NEW d \in DOMAIN byDigest
      PROVE  [repository |-> r, digest |-> d, tags |-> byDigest[d], referrers |-> d \in known] \in Artifact
  <2>1. d \in Digests /\ byDigest[d] \in SUBSET Nat /\ (d \in known) \in BOOLEAN
    BY DEF ListTypeOK
  <2> QED
    BY <2>1 DEF Artifact
<1>6. Found(r, known) \in [1..n -> Artifact]
  BY <1>3, <1>4, <1>5
<1>7. Found(r, known) \in Seq(Artifact) /\ Len(Found(r, known)) = n
  BY <1>1, <1>6, SeqDef, LenProperties
<1> QED
  BY <1>1, <1>2, <1>3, <1>4, <1>7 DEF n, q

\* The artifacts with those of one more repository.
Extended(r, known) == artifacts \o Found(r, known)

LEMMA AddedFacts ==
  ASSUME ListTypeOK, OciListAssumption, NEW r \in Repositories, NEW known
  PROVE  LET n == Cardinality(DOMAIN byDigest)
             all == Extended(r, known)
         IN  /\ all \in Seq(Artifact) /\ Len(artifacts) \in Nat /\ n \in Nat
             /\ DOMAIN artifacts = 1..Len(artifacts) /\ DOMAIN all = 1..(Len(artifacts) + n)
             /\ \A i \in DOMAIN artifacts : i \in DOMAIN all /\ all[i] = artifacts[i]
             /\ \A i \in DOMAIN all : i \notin DOMAIN artifacts =>
                  /\ i > Len(artifacts) /\ i - Len(artifacts) \in 1..n
                  /\ all[i] = Found(r, known)[i - Len(artifacts)]
             /\ \A k \in 1..n : /\ Len(artifacts) + k \in DOMAIN all
                                /\ all[Len(artifacts) + k] = Found(r, known)[k]
<1> DEFINE n == Cardinality(DOMAIN byDigest)
           f == Found(r, known)
           m == Len(artifacts)
<1>1. f \in Seq(Artifact) /\ Len(f) = n /\ n \in Nat
  BY FoundTyped
<1>2. artifacts \in Seq(Artifact) /\ m \in Nat /\ DOMAIN artifacts = 1..m
  BY DEF ListTypeOK
<1> HIDE DEF n, f, m
<1>3. /\ artifacts \o f \in Seq(Artifact) /\ Len(artifacts \o f) = m + n
      /\ \A i \in 1..(m + n) : (artifacts \o f)[i] = IF i <= m THEN artifacts[i] ELSE f[i - m]
  <2>1. Len(artifacts) = m /\ Len(f) = n
    BY <1>1 DEF m
  <2>2. /\ artifacts \o f \in Seq(Artifact) /\ Len(artifacts \o f) = Len(artifacts) + Len(f)
        /\ \A i \in 1 .. Len(artifacts) + Len(f) :
             (artifacts \o f)[i] = IF i <= Len(artifacts) THEN artifacts[i] ELSE f[i - Len(artifacts)]
    BY <1>1, <1>2, ConcatProperties, ZenonT(30)
  <2> QED
    BY <2>1, <2>2, Zenon
<1>4. DOMAIN (artifacts \o f) = 1..(m + n)
  BY <1>3
<1>5. ASSUME NEW i \in 1..m PROVE i \in 1..(m + n) /\ (artifacts \o f)[i] = artifacts[i]
  BY <1>1, <1>2, <1>3
<1>6. ASSUME NEW i \in 1..(m + n), i \notin 1..m
      PROVE  i > m /\ i - m \in 1..n /\ (artifacts \o f)[i] = f[i - m]
  <2>1. i > m /\ i - m \in 1..n
    BY <1>1, <1>2, <1>6
  <2> QED
    BY <1>2, <1>3, <2>1
<1>7. ASSUME NEW k \in 1..n PROVE m + k \in 1..(m + n) /\ (artifacts \o f)[m + k] = f[k]
  <2>1. m + k \in 1..(m + n) /\ ~(m + k <= m) /\ (m + k) - m = k
    BY <1>1, <1>2
  <2> QED
    BY <1>3, <2>1
<1> QED
  BY <1>1, <1>2, <1>3, <1>4, <1>5, <1>6, <1>7 DEF n, f, m, Extended

\* The artifacts it adds are what was found.
LEMMA NewFacts ==
  ASSUME ListTypeOK, OciListAssumption, NEW r \in Repositories, NEW known
  PROVE  LET all == Extended(r, known)
         IN  \A i \in DOMAIN all : i \notin DOMAIN artifacts =>
               /\ i - Len(artifacts) \in 1..Cardinality(DOMAIN byDigest) /\ i > Len(artifacts)
               /\ all[i].repository = r
               /\ all[i].digest = Ascending(DOMAIN byDigest)[i - Len(artifacts)]
               /\ all[i].digest \in DOMAIN byDigest
               /\ all[i].tags = byDigest[all[i].digest]
               /\ all[i].referrers = (all[i].digest \in known)
<1> DEFINE all == Extended(r, known)
<1> SUFFICES ASSUME NEW i \in DOMAIN all, i \notin DOMAIN artifacts
             PROVE  /\ i - Len(artifacts) \in 1..Cardinality(DOMAIN byDigest) /\ i > Len(artifacts)
                    /\ all[i].repository = r
                    /\ all[i].digest = Ascending(DOMAIN byDigest)[i - Len(artifacts)]
                    /\ all[i].digest \in DOMAIN byDigest
                    /\ all[i].tags = byDigest[all[i].digest]
                    /\ all[i].referrers = (all[i].digest \in known)
  OBVIOUS
<1> DEFINE n == Cardinality(DOMAIN byDigest)
           q == Ascending(DOMAIN byDigest)
           k == i - Len(artifacts)
<1>0. \A x \in DOMAIN all : x \notin DOMAIN artifacts =>
        /\ x > Len(artifacts) /\ x - Len(artifacts) \in 1..n
        /\ all[x] = Found(r, known)[x - Len(artifacts)]
  <2> HIDE DEF k
  <2> QED
    BY AddedFacts
<1>1. k \in 1..n /\ i > Len(artifacts) /\ all[i] = Found(r, known)[k]
  <2> HIDE DEF n, all
  <2> QED
    BY <1>0
<1>2. \A j \in 1..n : /\ q[j] \in DOMAIN byDigest
                      /\ Found(r, known)[j] = [repository |-> r, digest |-> q[j], tags |-> byDigest[q[j]],
                                               referrers |-> q[j] \in known]
  BY FoundTyped
<1> HIDE DEF n, q, k, all
<1>3. /\ q[k] \in DOMAIN byDigest
      /\ all[i] = [repository |-> r, digest |-> q[k], tags |-> byDigest[q[k]], referrers |-> q[k] \in known]
  BY <1>1, <1>2
<1>4. /\ all[i].repository = r /\ all[i].digest = q[k] /\ all[i].tags = byDigest[q[k]]
      /\ all[i].referrers = (q[k] \in known)
  BY <1>3
<1> QED
  BY <1>1, <1>3, <1>4 DEF n, q, k, all

LEMMA AskedTyped ==
  ASSUME ListTypeOK, OciListAssumption, UNCHANGED <<world, repositories, histories>>, bearer' = "fresh",
         phase \in {"referrers", "fallback"}, NEW d \in unasked, NEW has \in BOOLEAN, Asked(d, has)
  PROVE  ListTypeOK'
<1> DEFINE known == referred \cup (IF has THEN {d} ELSE {})
<1>1. todo \in Seq(Nat) /\ todo # <<>> /\ Head(todo) \in Repositories
  BY DEF ListTypeOK
<1>2. CASE unasked = {d}
  <2>1. Begin(Tail(todo)) /\ artifacts' = Extended(Head(todo), known)
    BY <1>2 DEF Asked, Extended
  <2>2. artifacts' \in Seq(Artifact)
    BY <1>1, <2>1, AddedFacts
  <2>3. Tail(todo) \in Seq(Nat)
    BY <1>1, TailRange
  <2> QED
    BY <2>1, <2>2, <2>3, BeginTyped
<1>3. CASE unasked # {d}
  <2>1. /\ unasked' = unasked \ {d} /\ referred' = known /\ subject' = 0 /\ phase' = "referrers"
        /\ UNCHANGED <<todo, page, tags, byDigest, artifacts>>
    BY <1>3 DEF Asked
  <2>2. known \subseteq DOMAIN byDigest
    BY DEF ListTypeOK
  <2> HIDE DEF known
  <2> QED
    BY <1>1, <2>1, <2>2, WorldKept DEF ListTypeOK
<1> QED
  BY <1>2, <1>3

LEMMA WriteTyped == ASSUME ListTypeOK, OciListAssumption, Write PROVE ListTypeOK'
<1> USE OciListAssumption
\* The histories: what stays steady is still named.
<1>1. ASSUME Written, \A r \in Repositories :
               /\ DOMAIN names'[r] \in SUBSET Nat /\ IsFiniteSet(DOMAIN names'[r])
               /\ names'[r] \in [DOMAIN names'[r] -> Digests],
             DOMAIN names' = Repositories, attached' \subseteq Pairs
      PROVE  ListTypeOK'
  <2>1. UNCHANGED <<phase, bearer, todo, page, current, artifacts>> /\ api' = api /\ repositories' = repositories
    BY <1>1 DEF Written
  <2>2. writes' \in 0..MaxWrites
    BY <1>1 DEF Written, ListTypeOK, OciListAssumption
  <2>3. steady' \subseteq everNamed' /\ guarded' \subseteq Pairs
    BY <1>1 DEF Written, ListTypeOK
  <2>4. api' \in BOOLEAN /\ repositories' \in Configurations
    BY <2>1 DEF ListTypeOK
  <2> QED
    BY <1>1, <2>1, <2>2, <2>3, <2>4, ListKept DEF ListTypeOK
<1>2. ASSUME NEW p \in Pushes, PushTag(p) PROVE ListTypeOK'
  <2>1. p[1] \in Repositories /\ p[2] \in Nat /\ p[3] \in Digests
    BY DEF OciListAssumption
  <2>2. /\ attached' = attached /\ Written
        /\ names' = [names EXCEPT ![p[1]] = [t \in DOMAIN names[p[1]] \cup {p[2]} |->
                       IF t = p[2] THEN p[3] ELSE names[p[1]][t]]]
    BY <1>2 DEF PushTag
  <2>3. DOMAIN names = Repositories /\ DOMAIN names[p[1]] \in SUBSET Nat /\ IsFiniteSet(DOMAIN names[p[1]])
        /\ names[p[1]] \in [DOMAIN names[p[1]] -> Digests] /\ attached \subseteq Pairs
    BY <2>1 DEF ListTypeOK
  <2>4. IsFiniteSet(DOMAIN names[p[1]] \cup {p[2]})
    <3> DEFINE old == DOMAIN names[p[1]]
    <3>1. IsFiniteSet(old)
      BY <2>3
    <3> HIDE DEF old
    <3>2. IsFiniteSet(old \cup {p[2]})
      BY <3>1, FS_AddElement, Zenon
    <3> QED
      BY <3>2 DEF old
  <2>5. /\ DOMAIN names' = Repositories
        /\ \A r \in Repositories \ {p[1]} : names'[r] = names[r]
        /\ names'[p[1]] = [t \in DOMAIN names[p[1]] \cup {p[2]} |-> IF t = p[2] THEN p[3] ELSE names[p[1]][t]]
    BY <2>1, <2>2, <2>3
  <2>6. /\ DOMAIN names'[p[1]] \in SUBSET Nat /\ IsFiniteSet(DOMAIN names'[p[1]])
        /\ names'[p[1]] \in [DOMAIN names'[p[1]] -> Digests]
    BY <2>1, <2>3, <2>4, <2>5
  <2>7. ASSUME NEW r \in Repositories
        PROVE  /\ DOMAIN names'[r] \in SUBSET Nat /\ IsFiniteSet(DOMAIN names'[r])
               /\ names'[r] \in [DOMAIN names'[r] -> Digests]
    BY <2>5, <2>6 DEF ListTypeOK
  <2> QED
    BY <1>1, <2>2, <2>3, <2>5, <2>7
<1>3. ASSUME NEW r \in Repositories, NEW gone, Untag(r, gone) PROVE ListTypeOK'
  <2>1. /\ attached' = attached /\ Written
        /\ names' = [names EXCEPT ![r] = [t \in DOMAIN names[r] \ gone |-> names[r][t]]]
    BY <1>3 DEF Untag
  <2>2. DOMAIN names = Repositories /\ DOMAIN names[r] \in SUBSET Nat /\ IsFiniteSet(DOMAIN names[r])
        /\ names[r] \in [DOMAIN names[r] -> Digests] /\ attached \subseteq Pairs
    BY DEF ListTypeOK
  <2>3. IsFiniteSet(DOMAIN names[r] \ gone)
    BY <2>2, FS_Subset
  <2>4. /\ DOMAIN names' = Repositories
        /\ \A x \in Repositories \ {r} : names'[x] = names[x]
        /\ names'[r] = [t \in DOMAIN names[r] \ gone |-> names[r][t]]
    BY <2>1, <2>2
  <2>5. /\ DOMAIN names'[r] \in SUBSET Nat /\ IsFiniteSet(DOMAIN names'[r])
        /\ names'[r] \in [DOMAIN names'[r] -> Digests]
    BY <2>2, <2>3, <2>4
  <2>6. ASSUME NEW x \in Repositories
        PROVE  /\ DOMAIN names'[x] \in SUBSET Nat /\ IsFiniteSet(DOMAIN names'[x])
               /\ names'[x] \in [DOMAIN names'[x] -> Digests]
    BY <2>4, <2>5 DEF ListTypeOK
  <2> QED
    BY <1>1, <2>1, <2>2, <2>4, <2>6
<1>4. ASSUME NEW p \in Pairs, Attach(p) PROVE ListTypeOK'
  <2>1. names' = names /\ Written /\ attached' \subseteq Pairs
    BY <1>4 DEF Attach, ListTypeOK
  <2> QED
    BY <1>1, <2>1 DEF ListTypeOK
<1> QED
  BY <1>2, <1>3, <1>4 DEF Write

\* Unfolding With.
LEMMA WithFacts ==
  ASSUME ListTypeOK, NEW d \in Digests, NEW t \in Nat
  PROVE  /\ DOMAIN With(byDigest, d, t) = DOMAIN byDigest \cup {d}
         /\ With(byDigest, d, t) \in [DOMAIN byDigest \cup {d} -> SUBSET Nat]
         /\ \A x \in DOMAIN byDigest : x # d => With(byDigest, d, t)[x] = byDigest[x]
         /\ With(byDigest, d, t)[d] = {t} \cup (IF d \in DOMAIN byDigest THEN byDigest[d] ELSE {})
<1>1. byDigest \in [DOMAIN byDigest -> SUBSET Nat]
  BY DEF ListTypeOK
<1> QED
  BY <1>1 DEF With

\* The tag a HEAD resolves is one of the repository's.
LEMMA ResolveFacts ==
  ASSUME ListTypeOK, Resolve
  PROVE  LET here == Head(todo)
             tag == Head(tags)
             d == names[here][tag]
         IN  /\ here \in Repositories /\ tag \in DOMAIN names[here] /\ tag \in Nat /\ d \in Digests
             /\ byDigest' = With(byDigest, d, tag) /\ tags' = Tail(tags)
             /\ \/ Len(tags) = 1 /\ phase' = "referrers" /\ unasked' = DOMAIN byDigest'
                \/ Len(tags) # 1 /\ phase' = phase /\ unasked' = unasked
             /\ phase = "resolve" /\ bearer' = "fresh" /\ UNCHANGED <<world, repositories, histories>>
             /\ UNCHANGED <<todo, page, subject, referred, artifacts>>
<1> DEFINE here == Head(todo)
           tag == Head(tags)
           d == names[here][tag]
<1>1. phase = "resolve" /\ bearer' = "fresh" /\ UNCHANGED <<world, repositories, histories>>
  BY DEF Resolve, Answered
<1>2. tag \in DOMAIN names[here]
  BY DEF Resolve
<1>3. here \in Repositories /\ names[here] \in [DOMAIN names[here] -> Digests] /\ DOMAIN names[here] \subseteq Nat
  BY <1>1 DEF ListTypeOK
<1>4. tag \in Nat /\ d \in Digests
  BY <1>2, <1>3
<1>5. /\ byDigest' = With(byDigest, d, tag)
      /\ \/ Len(tags) = 1 /\ phase' = "referrers" /\ unasked' = DOMAIN byDigest'
         \/ Len(tags) # 1 /\ phase' = phase /\ unasked' = unasked
  BY DEF Resolve, Gathered
<1>6. tags' = Tail(tags) /\ UNCHANGED <<todo, page, subject, referred, artifacts>>
  BY DEF Resolve
<1> QED
  BY <1>1, <1>2, <1>3, <1>4, <1>5, <1>6

LEMMA ListTyped == ASSUME ListTypeOK, OciListAssumption, List PROVE ListTypeOK'
<1>1. CASE Challenge \/ Token
  <2>1. /\ UNCHANGED <<world, repositories, phase, todo, page, current, artifacts, histories>>
        /\ bearer' \in {"challenged", "authorised"}
    BY <1>1 DEF Challenge, Token
  <2> QED
    BY <2>1, WorldKept, SMTT(30) DEF ListTypeOK, current
<1>2. CASE Fail
  BY <1>2, WorldKept, SMTT(30) DEF Fail, ListTypeOK, current
<1>3. CASE CatalogPage
  <2>1. /\ phase = "catalog" /\ bearer' = "fresh" /\ UNCHANGED <<world, repositories, histories>>
        /\ artifacts' = artifacts
    BY <1>3 DEF CatalogPage, Answered
  <2> DEFINE shown == page \cup PageOf(Repositories)
  <2>2. IsFiniteSet(shown) /\ shown \in SUBSET Nat
    BY PageFacts DEF ListTypeOK, OciListAssumption
  <2>3. CASE HasNext(Repositories)
    <3>1. page' = shown /\ UNCHANGED <<phase, todo, current>>
      BY <1>3, <2>3 DEF CatalogPage
    <3> HIDE DEF shown
    <3> QED
      BY <2>1, <2>2, <3>1, WorldKept DEF ListTypeOK, current
  <2>4. CASE ~HasNext(Repositories)
    <3>1. Begin(Ascending(shown)) /\ Ascending(shown) \in Seq(Nat)
      BY <1>3, <2>2, <2>4, AscendingFacts DEF CatalogPage
    <3>2. artifacts' \in Seq(Artifact)
      BY <2>1 DEF ListTypeOK
    <3> HIDE DEF shown
    <3> QED
      BY <2>1, <3>1, <3>2, BeginTyped
  <2> QED
    BY <2>3, <2>4
<1>4. CASE Skip
  <2>1. todo \in Seq(Nat) /\ todo # <<>>
    BY <1>4 DEF Skip, ListTypeOK
  <2>2. /\ Begin(Tail(todo)) /\ UNCHANGED <<world, repositories, histories>>
        /\ bearer' \in {"fresh", "challenged", "authorised"} /\ artifacts' = artifacts
    BY <1>4 DEF Skip, ListTypeOK
  <2>3. Tail(todo) \in Seq(Nat) /\ artifacts' \in Seq(Artifact)
    BY <2>1, <2>2, TailRange DEF ListTypeOK
  <2> QED
    BY <2>2, <2>3, BeginTyped
<1>5. CASE TagsPage
  <2> DEFINE here == Head(todo)
             shown == page \cup PageOf(DOMAIN names[here])
  <2>1. /\ phase = "tags" /\ bearer' = "fresh" /\ UNCHANGED <<world, repositories, histories>>
        /\ artifacts' = artifacts /\ here \in Repositories
    BY <1>5 DEF TagsPage, Answered
  <2>2. IsFiniteSet(shown) /\ shown \in SUBSET Nat
    BY <2>1, PageFacts DEF ListTypeOK, OciListAssumption
  <2>3. todo \in Seq(Nat) /\ todo # <<>> /\ artifacts' \in Seq(Artifact)
    BY <2>1 DEF ListTypeOK
  <2>4. CASE HasNext(DOMAIN names[here])
    <3>1. page' = shown /\ UNCHANGED <<phase, todo, current>>
      BY <1>5, <2>4 DEF TagsPage
    <3> HIDE DEF here, shown
    <3> QED
      BY <2>1, <2>2, <3>1, WorldKept DEF ListTypeOK, current
  <2>5. CASE ~HasNext(DOMAIN names[here]) /\ shown = {}
    <3>1. Begin(Tail(todo)) /\ Tail(todo) \in Seq(Nat)
      BY <1>5, <2>3, <2>5, TailRange DEF TagsPage
    <3> HIDE DEF here, shown
    <3> QED
      BY <2>1, <2>3, <3>1, BeginTyped
  <2>6. CASE ~HasNext(DOMAIN names[here]) /\ shown # {}
    <3>1. /\ phase' = "resolve" /\ page' = {} /\ tags' = Ascending(shown)
          /\ UNCHANGED <<todo, byDigest, unasked, subject, referred>>
      BY <1>5, <2>6 DEF TagsPage
    <3>2. Ascending(shown) \in Seq(Nat) /\ Ascending(shown) # <<>> /\ IsFiniteSet({})
      <4>1. Ascending(shown) \in Seq(Nat) /\ Range(Ascending(shown)) = shown
        BY <2>2, AscendingFacts
      <4>2. Range(<<>>) = {}
        BY DEF Range
      <4> QED
        BY <2>6, <4>1, <4>2, FS_EmptySet
    <3>3. Head(todo') \in Repositories
      BY <2>1, <3>1
    <3> HIDE DEF here, shown
    <3> QED
      BY <2>1, <3>1, <3>2, <3>3, WorldKept DEF ListTypeOK
  <2> QED
    BY <2>4, <2>5, <2>6
<1>6. CASE Resolve
  <2> DEFINE tag == Head(tags)
             d == names[Head(todo)][tag]
  <2>1. /\ tag \in Nat /\ d \in Digests
        /\ byDigest' = With(byDigest, d, tag) /\ tags' = Tail(tags)
        /\ \/ Len(tags) = 1 /\ phase' = "referrers" /\ unasked' = DOMAIN byDigest'
           \/ Len(tags) # 1 /\ phase' = phase /\ unasked' = unasked
        /\ phase = "resolve" /\ bearer' = "fresh" /\ UNCHANGED <<world, repositories, histories>>
        /\ UNCHANGED <<todo, page, subject, referred, artifacts>>
    BY <1>6, ResolveFacts
  <2>2. /\ DOMAIN byDigest' = DOMAIN byDigest \cup {d}
        /\ byDigest' \in [DOMAIN byDigest' -> SUBSET Nat]
    BY <2>1, WithFacts
  <2>3. tags \in Seq(Nat) /\ tags # <<>>
    BY <2>1 DEF ListTypeOK
  <2>4. Tail(tags) \in Seq(Nat) /\ (Len(tags) # 1 => Tail(tags) # <<>>)
    <3>1. Tail(tags) \in Seq(Nat) /\ Len(Tail(tags)) = Len(tags) - 1 /\ Len(tags) \in Nat \ {0}
      BY <2>3, HeadTailProperties
    <3>2. Tail(tags) = <<>> => Len(Tail(tags)) = 0
      OBVIOUS
    <3>3. Len(tags) # 1 => Len(tags) - 1 # 0
      BY <3>1
    <3> QED
      BY <3>1, <3>2, <3>3
  <2> HIDE DEF tag, d
  <2>5. DOMAIN byDigest' \subseteq Digests /\ unasked' \subseteq DOMAIN byDigest' /\ referred' \subseteq DOMAIN byDigest'
        /\ subject' \in {0} \cup DOMAIN byDigest'
    BY <2>1, <2>2 DEF ListTypeOK
  <2> QED
    BY <2>1, <2>2, <2>4, <2>5, WorldKept DEF ListTypeOK
<1>7. ASSUME NEW d \in Digests, Referrers(d) PROVE ListTypeOK'
  <2>1. /\ phase = "referrers" /\ bearer' = "fresh" /\ UNCHANGED <<world, repositories, histories>>
        /\ d \in unasked /\ Asked(d, <<Head(todo), d>> \in attached)
    BY <1>7 DEF Referrers, Answered
  <2>2. (<<Head(todo), d>> \in attached) \in BOOLEAN
    OBVIOUS
  <2> QED
    BY <2>1, <2>2, AskedTyped
<1>8. ASSUME NEW d \in Digests, NoReferrers(d) PROVE ListTypeOK'
  BY <1>8, WorldKept DEF NoReferrers, Answered, ListTypeOK
<1>9. CASE ReferrersByTag
  <2> DEFINE here == names[Head(todo)]
             has == ReferrersTag(subject) \in DOMAIN here /\ Kinds[here[ReferrersTag(subject)]] = "index"
  <2>1. /\ phase = "fallback" /\ bearer' = "fresh" /\ UNCHANGED <<world, repositories, histories>>
        /\ Asked(subject, has)
    BY <1>9 DEF ReferrersByTag, Answered
  <2>2. has \in BOOLEAN /\ subject \in unasked
    BY <2>1 DEF ListTypeOK
  <2> HIDE DEF has
  <2> QED
    BY <2>1, <2>2, AskedTyped
<1> QED
  BY <1>1, <1>2, <1>3, <1>4, <1>5, <1>6, <1>7, <1>8, <1>9 DEF List, ListReferrers

\* Every variable of List and of the registry keeps its type.
THEOREM ListTypeCorrect == ListSpec => []ListTypeOK
<1> USE OciListAssumption
<1>1. ListInit => ListTypeOK
  <2> SUFFICES ASSUME ListInit PROVE ListTypeOK
    OBVIOUS
  <2>1. /\ DOMAIN names = Repositories
        /\ \A r \in Repositories :
             /\ DOMAIN names[r] \in SUBSET Nat /\ IsFiniteSet(DOMAIN names[r])
             /\ names[r] \in [DOMAIN names[r] -> Digests]
    BY DEF ListInit, OciListAssumption, Repositories
  <2>2. repositories \in Seq(Nat) /\ writes \in 0..MaxWrites
    BY DEF ListInit, OciListAssumption
  <2>3. attached \subseteq Pairs /\ steady \subseteq everNamed /\ guarded \subseteq Pairs
    BY DEF ListInit, OciListAssumption, HasReferrer
  <2>4. /\ page \in SUBSET Nat /\ IsFiniteSet(page) /\ DOMAIN byDigest = {} /\ byDigest \in [{} -> SUBSET Nat]
        /\ unasked = {} /\ subject = 0 /\ referred = {} /\ tags \in Seq(Nat) /\ artifacts \in Seq(Artifact)
    BY FS_EmptySet DEF ListInit, NoTags
  <2> QED
    BY <2>1, <2>2, <2>3, <2>4 DEF ListInit, ListTypeOK
<1>2. ListTypeOK /\ [ListNext]_listVars => ListTypeOK'
  <2> SUFFICES ASSUME ListTypeOK, [ListNext]_listVars PROVE ListTypeOK'
    OBVIOUS
  <2>1. CASE UNCHANGED listVars
    BY <2>1, WorldKept, ListKept DEF listVars, ListTypeOK
  <2> QED
    BY <2>1, WriteTyped, ListTyped DEF ListNext
<1> QED
  BY <1>1, <1>2, PTL DEF ListSpec

-----------------------------------------------------------------------------
(* List: completeness.                                                     *)

\* Where an artifact that has been named all the time is, while its repository
\* is at the head of todo: on a page, among the tags to resolve, or resolved.
Expected(p) ==
  CASE phase = "tags" -> p[2] \in page \/ \A y \in page : p[2] > y
    [] phase = "resolve" -> \/ p[2] \in Range(tags)
                            \/ p[3] \in DOMAIN byDigest /\ p[2] \in byDigest[p[3]]
    [] OTHER -> p[3] \in DOMAIN byDigest /\ p[2] \in byDigest[p[3]]

Waiting(r) == \E i \in DOMAIN todo : i # 1 /\ todo[i] = r

Accounted(p) == Listed(p) \/ Waiting(p[1]) \/ (todo # <<>> /\ p[1] = Head(todo) /\ Expected(p))

CompleteInv ==
  /\ steady \subseteq Naming(names)
  /\ phase = "catalog" => repositories = <<>>
  /\ phase = "catalog" => \A r \in Repositories : r \in page \/ \A y \in page : r > y
  /\ phase = "ok" => todo = <<>>
  /\ phase \notin {"catalog", "error"} => \A p \in steady : Asking(p[1]) => Accounted(p)

LEMMA NamingFacts ==
  ASSUME ListTypeOK, NEW p \in Naming(names)
  PROVE  /\ p[1] \in Repositories /\ p[2] \in DOMAIN names[p[1]] /\ p[3] = names[p[1]][p[2]]
         /\ p = <<p[1], p[2], p[3]>> /\ p[2] \in Nat /\ p[3] \in Digests
<1> PICK r \in Repositories : \E t \in DOMAIN names[r] : p = <<r, t, names[r][t]>>
  BY DEF Naming
<1> PICK t \in DOMAIN names[r] : p = <<r, t, names[r][t]>>
  OBVIOUS
<1>1. DOMAIN names[r] \subseteq Nat /\ names[r] \in [DOMAIN names[r] -> Digests]
  BY DEF ListTypeOK
<1> QED
  BY <1>1

\* List turns to the repositories in rest.
LEMMA BeginComplete ==
  ASSUME CompleteInv, NEW rest \in Seq(Nat), Begin(rest), UNCHANGED <<world, repositories, histories>>,
         \A p \in steady : Asking(p[1]) => Listed(p)' \/ p[1] \in Range(rest)
  PROVE  CompleteInv'
<1>1. /\ todo' = rest /\ phase' = IF rest = <<>> THEN "ok" ELSE "tags"
      /\ page' = {} /\ names' = names /\ repositories' = repositories /\ steady' = steady
  BY DEF Begin, world, histories
<1>2. ASSUME NEW p \in steady, Asking(p[1]) PROVE Accounted(p)'
  <2>1. CASE p[1] \in Range(rest)
    <3> PICK i \in DOMAIN rest : rest[i] = p[1]
      BY <2>1 DEF Range
    <3>1. rest # <<>> /\ Head(rest) = rest[1]
      OBVIOUS
    <3>2. phase' = "tags" /\ Expected(p)'
      BY <1>1, <3>1 DEF Expected
    <3>3. i = 1 => p[1] = Head(todo')
      BY <1>1, <3>1
    <3>4. i # 1 => Waiting(p[1])'
      BY <1>1 DEF Waiting
    <3> QED
      BY <1>1, <3>1, <3>2, <3>3, <3>4 DEF Accounted
  <2> QED
    BY <1>2, <2>1 DEF Accounted
<1>3. \A r : Asking(r)' <=> Asking(r)
  BY <1>1 DEF Asking
<1>4. steady' \subseteq Naming(names)'
  BY <1>1 DEF CompleteInv, Naming
<1> QED
  BY <1>1, <1>2, <1>3, <1>4 DEF CompleteInv

\* List turns to the next repository: what it expected of this one is listed.
LEMMA NextComplete ==
  ASSUME ListTypeOK, CompleteInv, todo # <<>>, phase \notin {"catalog", "error"},
         Begin(Tail(todo)), UNCHANGED <<world, repositories, histories>>,
         \A p : Listed(p) => Listed(p)',
         \A p \in steady : Asking(p[1]) /\ p[1] = Head(todo) /\ Expected(p) => Listed(p)'
  PROVE  CompleteInv'
<1>1. todo \in Seq(Nat)
  BY DEF ListTypeOK
<1>2. /\ Tail(todo) \in Seq(Nat)
      /\ \A i \in DOMAIN todo : i # 1 => i - 1 \in DOMAIN Tail(todo) /\ Tail(todo)[i - 1] = todo[i]
  BY <1>1, TailRange
<1>3. \A r : Waiting(r) => r \in Range(Tail(todo))
  BY <1>2 DEF Waiting, Range
<1>4. ASSUME NEW p \in steady, Asking(p[1]) PROVE Listed(p)' \/ p[1] \in Range(Tail(todo))
  <2>1. Listed(p) \/ Waiting(p[1]) \/ (p[1] = Head(todo) /\ Expected(p))
    BY <1>4 DEF CompleteInv, Accounted
  <2> QED
    BY <1>3, <1>4, <2>1
<1> QED
  BY <1>2, <1>4, BeginComplete

\* List stays with the repository.
LEMMA StayComplete ==
  ASSUME CompleteInv, phase \in {"tags", "resolve", "referrers", "fallback"},
         phase' \in {"tags", "resolve", "referrers", "fallback"},
         UNCHANGED <<world, repositories, histories>>, UNCHANGED <<todo, artifacts>>,
         \A p \in steady : p[1] = Head(todo) /\ Expected(p) => Expected(p)'
  PROVE  CompleteInv'
<1>1. names' = names /\ steady' = steady /\ repositories' = repositories /\ todo' = todo /\ artifacts' = artifacts
  BY DEF world, histories
<1>2. \A p : Asking(p[1])' <=> Asking(p[1])
  BY <1>1 DEF Asking
<1>3. \A p : (Listed(p)' <=> Listed(p)) /\ (Waiting(p[1])' <=> Waiting(p[1]))
  BY <1>1 DEF Listed, Waiting
<1>4. steady' \subseteq Naming(names)'
  BY <1>1 DEF CompleteInv, Naming
<1>5. ASSUME NEW p \in steady, Asking(p[1]) PROVE Accounted(p)'
  <2>1. Listed(p) \/ Waiting(p[1]) \/ (todo # <<>> /\ p[1] = Head(todo) /\ Expected(p))
    BY <1>5 DEF CompleteInv, Accounted
  <2> QED
    BY <1>1, <1>3, <2>1 DEF Accounted
<1> QED
  BY <1>1, <1>2, <1>4, <1>5 DEF CompleteInv

\* A step that changes neither what List has nor what it expects.
LEMMA SameComplete ==
  ASSUME CompleteInv, steady' \subseteq steady \cap Naming(names'),
         UNCHANGED <<repositories, phase, todo, page, current, artifacts>>
  PROVE  CompleteInv'
<1>1. /\ repositories' = repositories /\ phase' = phase /\ todo' = todo /\ page' = page /\ artifacts' = artifacts
      /\ tags' = tags /\ byDigest' = byDigest
  BY DEF current
<1>2. \A p : (Asking(p[1])' <=> Asking(p[1])) /\ (Accounted(p)' <=> Accounted(p))
  BY <1>1 DEF Asking, Accounted, Listed, Waiting, Expected
<1>3. steady' \subseteq Naming(names)'
  BY DEF Naming
<1> QED
  BY <1>1, <1>2, <1>3 DEF CompleteInv

\* The referrers of the last manifest are known: all that was resolved is listed.
LEMMA AskedComplete ==
  ASSUME ListTypeOK, OciListAssumption, CompleteInv, UNCHANGED <<world, repositories, histories>>,
         phase \in {"referrers", "fallback"}, NEW d \in unasked, NEW has \in BOOLEAN, Asked(d, has)
  PROVE  CompleteInv'
<1> DEFINE known == referred \cup (IF has THEN {d} ELSE {})
           here == Head(todo)
           n == Cardinality(DOMAIN byDigest)
<1>1. todo \in Seq(Nat) /\ todo # <<>> /\ here \in Repositories
  BY DEF ListTypeOK
<1>2. CASE unasked = {d}
  <2>1. Begin(Tail(todo)) /\ artifacts' = Extended(here, known)
    BY <1>2 DEF Asked, Extended
  <2>2. ASSUME NEW p, Listed(p) PROVE Listed(p)'
    <3> PICK i \in DOMAIN artifacts :
          /\ artifacts[i].repository = p[1] /\ artifacts[i].digest = p[3] /\ p[2] \in artifacts[i].tags
      BY <2>2 DEF Listed
    <3>1. i \in DOMAIN artifacts' /\ artifacts'[i] = artifacts[i]
      BY <1>1, <2>1, AddedFacts
    <3> QED
      BY <3>1 DEF Listed
  <2>3. ASSUME NEW p \in steady, p[1] = here, Expected(p) PROVE Listed(p)'
    <3>1. p[3] \in DOMAIN byDigest /\ p[2] \in byDigest[p[3]]
      BY <2>3 DEF Expected
    <3>2. DOMAIN byDigest \in SUBSET Nat /\ IsFiniteSet(DOMAIN byDigest)
      <4>1. DOMAIN byDigest \in SUBSET Digests /\ Digests \subseteq Nat /\ IsFiniteSet(Digests)
        BY DEF ListTypeOK, OciListAssumption
      <4> QED
        BY <4>1, FS_Subset
    <3>3. p[3] \in Range(Ascending(DOMAIN byDigest)) /\ DOMAIN Ascending(DOMAIN byDigest) = 1..n
      BY <3>1, <3>2, AscendingFacts
    <3> PICK k \in 1..n : Ascending(DOMAIN byDigest)[k] = p[3]
      BY <3>3 DEF Range
    <3>4. Found(here, known)[k] = [repository |-> here, digest |-> p[3], tags |-> byDigest[p[3]],
                                   referrers |-> p[3] \in known]
      BY <1>1, FoundTyped, SMTT(30)
    <3> DEFINE all == Extended(here, known)
    <3>5. Len(artifacts) + k \in DOMAIN all /\ all[Len(artifacts) + k] = Found(here, known)[k]
      <4> HIDE DEF known, here
      <4>1. \A j \in 1..n : /\ Len(artifacts) + j \in DOMAIN all
                             /\ all[Len(artifacts) + j] = Found(here, known)[j]
        BY <1>1, AddedFacts, SMTT(30)
      <4> QED
        BY <4>1
    <3>6. artifacts' = all
      BY <2>1
    <3> HIDE DEF all
    <3> HIDE DEF known, here
    <3> QED
      BY <2>3, <3>1, <3>4, <3>5, <3>6 DEF Listed
  <2> QED
    BY <1>1, <2>1, <2>2, <2>3, NextComplete
<1>3. CASE unasked # {d}
  <2>1. phase' = "referrers" /\ UNCHANGED <<todo, page, tags, byDigest, artifacts>>
    BY <1>3 DEF Asked
  <2>2. ASSUME NEW p \in steady, Expected(p) PROVE Expected(p)'
    BY <2>1, <2>2 DEF Expected
  <2> QED
    BY <2>1, <2>2, StayComplete
<1> QED
  BY <1>2, <1>3

LEMMA InitComplete == ASSUME OciListAssumption, ListInit PROVE CompleteInv
<1>1. /\ steady = Naming(names) /\ page = {} /\ todo = repositories
      /\ phase = IF repositories = <<>> THEN "catalog" ELSE "tags"
  BY DEF ListInit
<1>2. ASSUME NEW p \in steady, phase # "catalog", Asking(p[1]) PROVE Accounted(p)
  <2>1. repositories # <<>> /\ phase = "tags"
    BY <1>1, <1>2
  <2> PICK i \in DOMAIN repositories : repositories[i] = p[1]
    BY <1>2, <2>1 DEF Asking
  <2>2. i = 1 => p[1] = Head(todo)
    BY <1>1
  <2>3. i # 1 => Waiting(p[1])
    BY <1>1 DEF Waiting
  <2>4. Expected(p)
    BY <1>1, <2>1 DEF Expected
  <2> QED
    BY <1>1, <2>1, <2>2, <2>3, <2>4 DEF Accounted
<1> QED
  BY <1>1, <1>2 DEF CompleteInv

LEMMA ListComplete ==
  ASSUME ListTypeOK, OciListAssumption, CompleteInv, List
  PROVE  CompleteInv'
<1>1. CASE Challenge \/ Token
  <2>1. /\ UNCHANGED <<repositories, phase, todo, page, current, artifacts>>
        /\ steady' = steady /\ names' = names
    BY <1>1 DEF Challenge, Token, world, histories
  <2> QED
    BY <2>1, SameComplete DEF CompleteInv
<1>2. CASE Fail
  <2>1. phase' = "error" /\ names' = names /\ steady' = steady
    BY <1>2 DEF Fail, world, histories
  <2>2. steady' \subseteq Naming(names)'
    BY <2>1 DEF CompleteInv, Naming
  <2> QED
    BY <2>1, <2>2 DEF CompleteInv
<1>3. CASE CatalogPage
  <2>1. /\ phase = "catalog" /\ UNCHANGED <<world, repositories, histories>>
        /\ artifacts' = artifacts /\ repositories = <<>>
    BY <1>3 DEF CatalogPage, Answered, CompleteInv
  <2> DEFINE shown == page \cup PageOf(Repositories)
  <2>2. /\ IsFiniteSet(shown) /\ shown \in SUBSET Nat
        /\ \A r \in Repositories : r \in shown \/ (HasNext(Repositories) /\ \A y \in shown : r > y)
    BY <2>1, PageFacts DEF ListTypeOK, OciListAssumption, CompleteInv
  <2>3. CASE HasNext(Repositories)
    <3>1. page' = shown /\ UNCHANGED <<phase, todo, current>>
      BY <1>3, <2>3 DEF CatalogPage
    <3>2. /\ names' = names /\ steady' = steady /\ repositories' = repositories
      BY <2>1 DEF world, histories
    <3>3. steady' \subseteq Naming(names)'
      BY <3>2 DEF CompleteInv, Naming
    <3> HIDE DEF shown
    <3> QED
      BY <2>1, <2>2, <3>1, <3>2, <3>3 DEF CompleteInv
  <2>4. CASE ~HasNext(Repositories)
    <3>1. Begin(Ascending(shown)) /\ Ascending(shown) \in Seq(Nat) /\ Range(Ascending(shown)) = shown
      BY <1>3, <2>2, <2>4, AscendingFacts DEF CatalogPage
    <3>2. ASSUME NEW p \in steady PROVE p[1] \in Range(Ascending(shown))
      <4>1. p[1] \in Repositories
        BY NamingFacts DEF CompleteInv
      <4> QED
        BY <2>2, <2>4, <3>1, <4>1
    <3> HIDE DEF shown
    <3> QED
      BY <2>1, <3>1, <3>2, BeginComplete
  <2> QED
    BY <2>3, <2>4
<1>4. CASE Skip
  <2>1. /\ Begin(Tail(todo)) /\ UNCHANGED <<world, repositories, histories>> /\ artifacts' = artifacts
        /\ phase = "tags" /\ ~MatchRepository(Head(todo))
    BY <1>4 DEF Skip
  <2>2. todo # <<>>
    BY <2>1 DEF ListTypeOK
  <2>3. \A p : Listed(p) => Listed(p)'
    BY <2>1 DEF Listed
  <2>4. ASSUME NEW p \in steady, Asking(p[1]), p[1] = Head(todo) PROVE FALSE
    BY <2>1, <2>4 DEF Asking
  <2> QED
    BY <2>1, <2>2, <2>3, <2>4, NextComplete
<1>5. CASE TagsPage
  <2> DEFINE here == Head(todo)
             shown == page \cup PageOf(DOMAIN names[here])
  <2>1. /\ phase = "tags" /\ UNCHANGED <<world, repositories, histories>>
        /\ artifacts' = artifacts /\ here \in Repositories
    BY <1>5 DEF TagsPage, Answered
  <2>2. todo # <<>> /\ page \in SUBSET Nat /\ IsFiniteSet(page) /\ PageSize \in Nat \ {0}
        /\ DOMAIN names[here] \in SUBSET Nat /\ IsFiniteSet(DOMAIN names[here])
    BY <2>1 DEF ListTypeOK, OciListAssumption
  <2>3. ASSUME NEW p \in steady, p[1] = here, Expected(p)
        PROVE  p[2] \in shown \/ (HasNext(DOMAIN names[here]) /\ \A y \in shown : p[2] > y)
    <3>1. p[2] \in DOMAIN names[here]
      BY <2>3, NamingFacts DEF CompleteInv
    <3>2. p[2] \in page \/ \A y \in page : p[2] > y
      BY <2>1, <2>3 DEF Expected
    <3> QED
      BY <2>2, <3>1, <3>2, PageFacts
  <2>4. IsFiniteSet(shown) /\ shown \in SUBSET Nat
    BY <2>2, PageFacts
  <2>5. CASE HasNext(DOMAIN names[here])
    <3>1. page' = shown /\ UNCHANGED <<phase, todo, current>>
      BY <1>5, <2>5 DEF TagsPage
    <3>2. ASSUME NEW p \in steady, p[1] = here, Expected(p) PROVE Expected(p)'
      <4> HIDE DEF shown
      <4> QED
        BY <2>1, <2>3, <3>1, <3>2 DEF Expected
    <3> QED
      BY <2>1, <3>1, <3>2, StayComplete
  <2>6. CASE ~HasNext(DOMAIN names[here]) /\ shown = {}
    <3>1. Begin(Tail(todo))
      BY <1>5, <2>6 DEF TagsPage
    <3>2. \A p : Listed(p) => Listed(p)'
      BY <2>1 DEF Listed
    <3>3. ASSUME NEW p \in steady, p[1] = here, Expected(p) PROVE FALSE
      BY <2>3, <2>6, <3>3
    <3> HIDE DEF shown
    <3> QED
      BY <2>1, <2>2, <3>1, <3>2, <3>3, NextComplete
  <2>7. CASE ~HasNext(DOMAIN names[here]) /\ shown # {}
    <3>1. phase' = "resolve" /\ tags' = Ascending(shown) /\ UNCHANGED todo
      BY <1>5, <2>7 DEF TagsPage
    <3>2. Range(Ascending(shown)) = shown
      BY <2>4, AscendingFacts
    <3>3. ASSUME NEW p \in steady, p[1] = here, Expected(p) PROVE Expected(p)'
      <4>1. p[2] \in Range(tags')
        BY <2>3, <2>7, <3>1, <3>2, <3>3
      <4> QED
        BY <3>1, <4>1 DEF Expected
    <3> QED
      BY <2>1, <3>1, <3>3, StayComplete
  <2> QED
    BY <2>5, <2>6, <2>7
<1>6. CASE Resolve
  <2> DEFINE tag == Head(tags)
             d == names[Head(todo)][tag]
  <2>1. /\ tag \in Nat /\ d \in Digests
        /\ byDigest' = With(byDigest, d, tag) /\ tags' = Tail(tags)
        /\ \/ Len(tags) = 1 /\ phase' = "referrers"
           \/ Len(tags) # 1 /\ phase' = phase
        /\ phase = "resolve" /\ UNCHANGED <<world, repositories, histories>>
        /\ UNCHANGED <<todo, artifacts>>
    BY <1>6, ResolveFacts
  <2>a. /\ DOMAIN With(byDigest, d, tag) = DOMAIN byDigest \cup {d}
        /\ \A x \in DOMAIN byDigest : x # d => With(byDigest, d, tag)[x] = byDigest[x]
        /\ With(byDigest, d, tag)[d] = {tag} \cup (IF d \in DOMAIN byDigest THEN byDigest[d] ELSE {})
    BY <2>1, WithFacts
  <2>2. /\ DOMAIN byDigest' = DOMAIN byDigest \cup {d}
        /\ \A x \in DOMAIN byDigest : x # d => byDigest'[x] = byDigest[x]
        /\ byDigest'[d] = {tag} \cup (IF d \in DOMAIN byDigest THEN byDigest[d] ELSE {})
    <3> HIDE DEF tag, d
    <3> QED
      BY <2>1, <2>a
  <2>3. tags \in Seq(Nat) /\ tags # <<>>
    BY <2>1 DEF ListTypeOK
  <2>4. Range(tags) = {tag} \cup Range(tags')
    BY <2>1, <2>3, TailRange
  <2>5. Len(tags) = 1 => Range(tags') = {}
    <3>1. Len(tags) = 1 => DOMAIN Tail(tags) = {}
      <4>1. Tail(tags) \in Seq(Nat) /\ Len(Tail(tags)) = Len(tags) - 1
        BY <2>3, HeadTailProperties
      <4>2. DOMAIN Tail(tags) = 1..Len(Tail(tags))
        BY <4>1
      <4>3. Len(tags) = 1 => Len(Tail(tags)) = 0
        BY <4>1
      <4>4. 1..0 = {}
        OBVIOUS
      <4> QED
        BY <4>2, <4>3, <4>4
    <3> QED
      BY <2>1, <3>1 DEF Range
  <2>6. ASSUME NEW p \in steady, p[1] = Head(todo), Expected(p) PROVE Expected(p)'
    <3>1. \/ p[2] \in Range(tags)
          \/ p[3] \in DOMAIN byDigest /\ p[2] \in byDigest[p[3]]
      BY <2>1, <2>6 DEF Expected
    <3>2. p[2] = tag => p[3] = d
      BY <2>6, NamingFacts DEF CompleteInv
    <3>3. \/ p[2] \in Range(tags')
          \/ p[3] \in DOMAIN byDigest' /\ p[2] \in byDigest'[p[3]]
      BY <2>2, <2>4, <3>1, <3>2
    <3> HIDE DEF tag, d
    <3> QED
      BY <2>1, <2>5, <3>3 DEF Expected
  <2>7. phase' \in {"resolve", "referrers"}
    BY <2>1
  <2> HIDE DEF tag, d
  <2> QED
    BY <2>1, <2>6, <2>7, StayComplete
<1>7. ASSUME NEW d \in Digests, Referrers(d) PROVE CompleteInv'
  <2>1. /\ phase = "referrers" /\ UNCHANGED <<world, repositories, histories>>
        /\ d \in unasked /\ Asked(d, <<Head(todo), d>> \in attached)
    BY <1>7 DEF Referrers, Answered
  <2>2. (<<Head(todo), d>> \in attached) \in BOOLEAN
    OBVIOUS
  <2> QED
    BY <2>1, <2>2, AskedComplete
<1>8. ASSUME NEW d \in Digests, NoReferrers(d) PROVE CompleteInv'
  <2>1. /\ phase = "referrers" /\ phase' = "fallback" /\ UNCHANGED <<world, repositories, histories>>
        /\ UNCHANGED <<todo, byDigest, artifacts>>
    BY <1>8 DEF NoReferrers, Answered
  <2>2. ASSUME NEW p \in steady, Expected(p) PROVE Expected(p)'
    BY <2>1, <2>2 DEF Expected
  <2> QED
    BY <2>1, <2>2, StayComplete
<1>9. CASE ReferrersByTag
  <2> DEFINE at == names[Head(todo)]
             has == ReferrersTag(subject) \in DOMAIN at /\ Kinds[at[ReferrersTag(subject)]] = "index"
  <2>1. /\ phase = "fallback" /\ UNCHANGED <<world, repositories, histories>> /\ Asked(subject, has)
    BY <1>9 DEF ReferrersByTag, Answered
  <2>2. has \in BOOLEAN /\ subject \in unasked
    BY <2>1 DEF ListTypeOK
  <2> HIDE DEF has
  <2> QED
    BY <2>1, <2>2, AskedComplete
<1> QED
  BY <1>1, <1>2, <1>3, <1>4, <1>5, <1>6, <1>7, <1>8, <1>9 DEF List, ListReferrers

\* However tags are pushed, moved and deleted between the requests, a List
\* that succeeds has every tag of a selected repository that has named the same
\* manifest all the time: listRepository and referrers lose none of them.
THEOREM Steady == ListSpec => []CompleteSteady
<1> USE OciListAssumption
<1>1. ListInit => CompleteInv
  BY InitComplete
<1>2. ListTypeOK /\ CompleteInv /\ [ListNext]_listVars => CompleteInv'
  <2> SUFFICES ASSUME ListTypeOK, CompleteInv, [ListNext]_listVars PROVE CompleteInv'
    OBVIOUS
  <2>1. CASE UNCHANGED listVars
    <3>1. /\ UNCHANGED <<repositories, phase, todo, page, current, artifacts>>
          /\ steady' = steady /\ names' = names
      BY <2>1 DEF listVars, world, histories
    <3> QED
      BY <3>1, SameComplete DEF CompleteInv
  <2>2. CASE Write
    <3>1. Written
      BY <2>2 DEF Write, PushTag, Untag, Attach
    <3> QED
      BY <3>1, SameComplete DEF Written
  <2> QED
    BY <2>1, <2>2, ListComplete DEF ListNext
<1>3. CompleteInv => CompleteSteady
  <2> SUFFICES ASSUME CompleteInv, phase = "ok", NEW p \in steady, Asking(p[1]) PROVE Listed(p)
    BY DEF CompleteSteady
  <2>1. todo = <<>> /\ Accounted(p)
    BY DEF CompleteInv
  <2> QED
    BY <2>1 DEF Accounted, Waiting
<1> QED
  BY <1>1, <1>2, <1>3, ListTypeCorrect, PTL DEF ListSpec

-----------------------------------------------------------------------------
(* List: referrers.                                                        *)

\* Of the manifests of this repository that have had a referrer all the time,
\* those that were asked about are known to have one.  The API does not answer
\* 404 for such a manifest, so that its absence leads to the tag only where
\* the tag is the place to look.
ProtectInv ==
  /\ guarded \subseteq HasReferrer(names, attached)
  /\ phase \in {"referrers", "fallback"} =>
       \A d \in DOMAIN byDigest \ unasked : <<Head(todo), d>> \in guarded => d \in referred
  /\ phase = "fallback" /\ api => <<Head(todo), subject>> \notin guarded
  /\ ReferrersProtect

LEMMA HasKept == ASSUME UNCHANGED world PROVE HasReferrer(names, attached)' = HasReferrer(names, attached)
BY DEF world, HasReferrer, Naming

\* The artifacts are the same or gone, and no answer about a referrer counts.
LEMMA SameProtect ==
  ASSUME ProtectInv, artifacts' = artifacts \/ artifacts' = <<>>,
         UNCHANGED <<world, histories>>,
         phase' \notin {"referrers", "fallback"} \/ (phase' = "referrers" /\ unasked' = DOMAIN byDigest')
  PROVE  ProtectInv'
<1>1. api' = api /\ names' = names /\ attached' = attached /\ guarded' = guarded
  BY DEF world, histories
<1>2. guarded' \subseteq HasReferrer(names, attached)'
  BY <1>1, HasKept DEF ProtectInv
<1>3. ReferrersProtect'
  BY <1>1 DEF ProtectInv, ReferrersProtect
<1> QED
  BY <1>2, <1>3 DEF ProtectInv

\* What List has found stays; others may have taken referrers away.
LEMMA KeptProtect ==
  ASSUME ProtectInv, UNCHANGED <<api, phase, todo, page, current, artifacts>>,
         guarded' \subseteq guarded, guarded' \subseteq HasReferrer(names, attached)'
  PROVE  ProtectInv'
<1>1. /\ api' = api /\ phase' = phase /\ todo' = todo /\ artifacts' = artifacts /\ byDigest' = byDigest
      /\ unasked' = unasked /\ subject' = subject /\ referred' = referred
  BY DEF current
<1> QED
  BY <1>1 DEF ProtectInv, ReferrersProtect

\* The answer about one manifest, when it is right for those with a referrer.
LEMMA AskedProtect ==
  ASSUME ListTypeOK, OciListAssumption, ProtectInv, UNCHANGED <<world, histories>>,
         phase \in {"referrers", "fallback"}, NEW d \in unasked, NEW has \in BOOLEAN, Asked(d, has),
         <<Head(todo), d>> \in guarded => has
  PROVE  ProtectInv'
<1> DEFINE known == referred \cup (IF has THEN {d} ELSE {})
           here == Head(todo)
<1>1. here \in Repositories
  BY DEF ListTypeOK
<1>2. api' = api /\ names' = names /\ attached' = attached /\ guarded' = guarded
  BY DEF world, histories
<1>3. guarded' \subseteq HasReferrer(names, attached)'
  BY <1>2, HasKept DEF ProtectInv
<1>4. \A e \in DOMAIN byDigest : e \notin unasked \/ e = d => (<<here, e>> \in guarded => e \in known)
  BY DEF ProtectInv
<1>5. CASE unasked = {d}
  <2> DEFINE all == Extended(here, known)
  <2>1. artifacts' = all /\ phase' \in {"ok", "tags"}
    BY <1>5 DEF Asked, Begin, Extended
  <2>2. ASSUME NEW i \in DOMAIN all, <<all[i].repository, all[i].digest>> \in guarded
        PROVE  all[i].referrers
    <3>1. CASE i \in DOMAIN artifacts
      <4>1. all[i] = artifacts[i]
        <5> HIDE DEF known, here
        <5>1. \A x \in DOMAIN artifacts : all[x] = artifacts[x]
          BY <1>1, AddedFacts
        <5> QED
          BY <3>1, <5>1
      <4> HIDE DEF all
      <4> QED
        BY <2>2, <3>1, <4>1 DEF ProtectInv, ReferrersProtect
    <3>2. CASE i \notin DOMAIN artifacts
      <4>1. /\ all[i].repository = here /\ all[i].digest \in DOMAIN byDigest
            /\ all[i].referrers = (all[i].digest \in known)
        <5> HIDE DEF known, here
        <5> QED
          BY <1>1, <3>2, NewFacts
      <4>2. <<here, all[i].digest>> \in guarded => all[i].digest \in known
        BY <1>4, <1>5, <4>1
      <4> HIDE DEF known, here, all
      <4> QED
        BY <2>2, <4>1, <4>2
    <3> QED
      BY <3>1, <3>2
  <2> HIDE DEF all
  <2> QED
    BY <1>2, <1>3, <2>1, <2>2 DEF ProtectInv, ReferrersProtect
<1>6. CASE unasked # {d}
  <2>1. /\ unasked' = unasked \ {d} /\ referred' = known /\ phase' = "referrers"
        /\ todo' = todo /\ byDigest' = byDigest /\ artifacts' = artifacts
    BY <1>6 DEF Asked
  <2>2. ReferrersProtect'
    BY <1>2, <2>1 DEF ProtectInv, ReferrersProtect
  <2> HIDE DEF known
  <2> QED
    BY <1>2, <1>3, <1>4, <2>1, <2>2 DEF ProtectInv
<1> QED
  BY <1>5, <1>6

LEMMA ListProtect ==
  ASSUME ListTypeOK, OciListAssumption, ProtectInv, List
  PROVE  ProtectInv'
<1>1. CASE Challenge \/ Token
  <2>1. /\ UNCHANGED <<api, phase, todo, page, current, artifacts>>
        /\ guarded' = guarded /\ UNCHANGED world
    BY <1>1 DEF Challenge, Token, world, histories
  <2>2. guarded' \subseteq HasReferrer(names, attached)'
    BY <2>1, HasKept DEF ProtectInv
  <2> QED
    BY <2>1, <2>2, KeptProtect
<1>2. CASE Fail \/ Skip
  <2>1. /\ artifacts' = artifacts \/ artifacts' = <<>>
        /\ UNCHANGED <<world, histories>> /\ phase' \in {"error", "ok", "tags"}
    BY <1>2 DEF Fail, Skip, Begin
  <2> QED
    BY <2>1, SameProtect
<1>3. CASE CatalogPage
  <2>1. /\ artifacts' = artifacts /\ UNCHANGED <<world, histories>> /\ phase' \in {"catalog", "ok", "tags"}
    BY <1>3 DEF CatalogPage, Answered, Begin
  <2> QED
    BY <2>1, SameProtect
<1>4. CASE TagsPage
  <2>1. artifacts' = artifacts /\ UNCHANGED <<world, histories>> /\ phase = "tags"
    BY <1>4 DEF TagsPage, Answered
  <2>2. phase' \in {"tags", "ok", "resolve"}
    BY <1>4, <2>1 DEF TagsPage, Begin
  <2> QED
    BY <2>1, <2>2, SameProtect
<1>5. CASE Resolve
  <2>1. /\ artifacts' = artifacts /\ UNCHANGED <<world, histories>> /\ phase = "resolve"
        /\ \/ phase' = "referrers" /\ unasked' = DOMAIN byDigest'
           \/ phase' = phase
    BY <1>5, ResolveFacts
  <2> QED
    BY <2>1, SameProtect
<1>6. ASSUME NEW d \in Digests, Referrers(d) PROVE ProtectInv'
  <2> DEFINE has == <<Head(todo), d>> \in attached
  <2>1. /\ phase = "referrers" /\ UNCHANGED <<world, histories>> /\ api
        /\ d \in unasked /\ Asked(d, has)
    BY <1>6 DEF Referrers, Answered
  <2>2. has \in BOOLEAN /\ (<<Head(todo), d>> \in guarded => has)
    BY <2>1 DEF ProtectInv, HasReferrer
  <2> HIDE DEF has
  <2> QED
    BY <2>1, <2>2, AskedProtect
<1>7. ASSUME NEW d \in Digests, NoReferrers(d) PROVE ProtectInv'
  <2>1. /\ phase = "referrers" /\ phase' = "fallback" /\ UNCHANGED <<world, histories>>
        /\ subject' = d /\ UNCHANGED <<todo, byDigest, unasked, referred, artifacts>>
        /\ ~api \/ <<Head(todo), d>> \notin attached
    BY <1>7 DEF NoReferrers, Answered
  <2>2. api' = api /\ names' = names /\ attached' = attached /\ guarded' = guarded
    BY <2>1 DEF world, histories
  <2>3. guarded' \subseteq HasReferrer(names, attached)' /\ ReferrersProtect'
    BY <2>1, <2>2, HasKept DEF ProtectInv, ReferrersProtect
  <2>4. api => <<Head(todo), d>> \notin guarded
    BY <2>1 DEF ProtectInv, HasReferrer
  <2> QED
    BY <2>1, <2>2, <2>3, <2>4 DEF ProtectInv
<1>8. CASE ReferrersByTag
  <2> DEFINE here == Head(todo)
             tag == ReferrersTag(subject)
             has == tag \in DOMAIN names[here] /\ Kinds[names[here][tag]] = "index"
  <2>1. /\ phase = "fallback" /\ UNCHANGED <<world, histories>> /\ Asked(subject, has)
    BY <1>8 DEF ReferrersByTag, Answered
  <2>2. has \in BOOLEAN /\ subject \in unasked
    BY <2>1 DEF ListTypeOK
  <2>3. <<here, subject>> \in guarded => has
    <3> SUFFICES ASSUME <<here, subject>> \in guarded PROVE has
      OBVIOUS
    <3>1. ~api
      BY <2>1 DEF ProtectInv
    <3> PICK i \in Digests : Kinds[i] = "index" /\ <<here, tag, i>> \in Naming(names)
      BY <3>1 DEF ProtectInv, HasReferrer
    <3>2. tag \in DOMAIN names[here] /\ names[here][tag] = i
      BY DEF Naming
    <3> QED
      BY <3>2
  <2> HIDE DEF has
  <2> QED
    BY <2>1, <2>2, <2>3, AskedProtect
<1> QED
  BY <1>1, <1>2, <1>3, <1>4, <1>5, <1>6, <1>7, <1>8 DEF List, ListReferrers

\* A manifest that has had a referrer all the time, known to the API or kept
\* under its tag, is listed with it, and so protected by the policy.
THEOREM Protected == ListSpec => []ReferrersProtect
<1> USE OciListAssumption
<1>1. ListInit => ProtectInv
  BY DEF ListInit, ProtectInv, ReferrersProtect
<1>2. ListTypeOK /\ ProtectInv /\ [ListNext]_listVars => ProtectInv'
  <2> SUFFICES ASSUME ListTypeOK, ProtectInv, [ListNext]_listVars PROVE ProtectInv'
    OBVIOUS
  <2>1. CASE UNCHANGED listVars
    <3>1. /\ UNCHANGED <<api, phase, todo, page, current, artifacts>>
          /\ guarded' = guarded /\ UNCHANGED world
      BY <2>1 DEF listVars, world, histories
    <3>2. guarded' \subseteq HasReferrer(names, attached)'
      BY <3>1, HasKept DEF ProtectInv
    <3> QED
      BY <3>1, <3>2, KeptProtect
  <2>2. CASE Write
    <3>1. Written
      BY <2>2 DEF Write, PushTag, Untag, Attach
    <3>2. HasReferrer(names, attached)' = HasReferrer(names', attached')
      BY <3>1 DEF Written, HasReferrer, Naming
    <3> QED
      BY <3>1, <3>2, KeptProtect DEF Written
  <2> QED
    BY <2>1, <2>2, ListProtect DEF ListNext
<1>3. ProtectInv => ReferrersProtect
  BY DEF ProtectInv
<1> QED
  BY <1>1, <1>2, <1>3, ListTypeCorrect, PTL DEF ListSpec

-----------------------------------------------------------------------------
(* List: truth and order.                                                  *)

\* What has been resolved in the current repository: each tag once, and named
\* so at some moment.
GatherInv ==
  /\ phase = "tags" => DOMAIN byDigest = {}
  /\ phase \in {"resolve", "referrers", "fallback"} =>
       \A d \in DOMAIN byDigest : \A t \in byDigest[d] : <<Head(todo), t, d>> \in everNamed
  /\ \A d \in DOMAIN byDigest : byDigest[d] \cap Range(tags) = {}
  /\ \A d, e \in DOMAIN byDigest : d # e => byDigest[d] \cap byDigest[e] = {}
  /\ IsInjective(tags)

\* What has been listed, and that its repositories do not come again.
ListedInv ==
  /\ phase = "catalog" => artifacts = <<>>
  /\ IsInjective(repositories) =>
       IsInjective(todo) /\ \A i \in DOMAIN artifacts : artifacts[i].repository \notin Range(todo)
  /\ Truthful

TruthInv ==
  /\ Naming(names) \subseteq everNamed
  /\ GatherInv
  /\ ListedInv

LEMMA EmptyFacts == Range(<<>>) = {} /\ IsInjective(<<>>) /\ DOMAIN NoTags = {}
BY DEF Range, IsInjective, NoTags

LEMMA NamingKept == ASSUME UNCHANGED world PROVE Naming(names)' = Naming(names)
BY DEF world, Naming

LEMMA BeginGathers == ASSUME NEW rest, Begin(rest) PROVE GatherInv'
BY EmptyFacts DEF Begin, GatherInv

\* List turns to the next repository without an artifact of this one.
LEMMA NextTruth ==
  ASSUME ListTypeOK, TruthInv, todo # <<>>, phase # "catalog",
         Begin(Tail(todo)), UNCHANGED <<world, repositories, histories>>, artifacts' = artifacts
  PROVE  TruthInv'
<1>1. todo \in Seq(Nat)
  BY DEF ListTypeOK
<1>2. /\ todo' = Tail(todo) /\ phase' \in {"ok", "tags"} /\ everNamed' = everNamed /\ repositories' = repositories
  BY DEF Begin, world, histories
<1>3. IsInjective(todo) => IsInjective(Tail(todo))
  BY <1>1, InjectiveTail
<1>4. Range(Tail(todo)) \subseteq Range(todo)
  BY <1>1, TailRange
<1>5. Truthful'
  BY <1>2 DEF TruthInv, ListedInv, Truthful
<1>6. ListedInv'
  BY <1>2, <1>3, <1>4, <1>5 DEF TruthInv, ListedInv
<1> QED
  BY <1>2, <1>6, NamingKept, BeginGathers DEF TruthInv

\* The listing and what the histories say of it are the same, or more.
LEMMA SameTruth ==
  ASSUME TruthInv, UNCHANGED <<repositories, phase, todo, page, current, artifacts>>,
         everNamed \subseteq everNamed', Naming(names)' \subseteq everNamed'
  PROVE  TruthInv'
<1>1. /\ repositories' = repositories /\ phase' = phase /\ todo' = todo /\ artifacts' = artifacts
      /\ tags' = tags /\ byDigest' = byDigest
  BY DEF current
<1>2. GatherInv'
  BY <1>1 DEF TruthInv, GatherInv
<1>3. Truthful'
  BY <1>1 DEF TruthInv, ListedInv, Truthful
<1>4. ListedInv'
  BY <1>1, <1>3 DEF TruthInv, ListedInv
<1> QED
  BY <1>2, <1>4 DEF TruthInv

\* The artifacts and the repositories still to come are the same.
LEMMA SameListed ==
  ASSUME ListedInv, UNCHANGED <<repositories, todo, artifacts, everNamed>>, phase' = "catalog" => phase = "catalog"
  PROVE  ListedInv'
<1>1. Truthful'
  BY DEF ListedInv, Truthful
<1> QED
  BY <1>1 DEF ListedInv

\* The artifacts of a repository join those of the ones before it.
LEMMA AddedTruth ==
  ASSUME ListTypeOK, OciListAssumption, TruthInv, phase \in {"referrers", "fallback"}, NEW known,
         UNCHANGED <<world, repositories, histories>>, Begin(Tail(todo)),
         artifacts' = Extended(Head(todo), known)
  PROVE  TruthInv'
<1> DEFINE here == Head(todo)
           all == Extended(here, known)
           q == Ascending(DOMAIN byDigest)
           n == Cardinality(DOMAIN byDigest)
<1>1. here \in Repositories /\ todo \in Seq(Nat) /\ todo # <<>>
  BY DEF ListTypeOK
<1>2. /\ todo' = Tail(todo) /\ phase' \in {"ok", "tags"} /\ everNamed' = everNamed
      /\ repositories' = repositories /\ artifacts' = all
  BY DEF Begin, world, histories
<1>3. /\ DOMAIN artifacts = 1..Len(artifacts) /\ Len(artifacts) \in Nat
      /\ DOMAIN all \subseteq Nat
      /\ \A i \in DOMAIN artifacts : all[i] = artifacts[i]
  <2> HIDE DEF here, n
  <2>1. DOMAIN artifacts = 1..Len(artifacts) /\ Len(artifacts) \in Nat
    BY DEF ListTypeOK
  <2>2. all \in Seq(Artifact)
    BY <1>1, AddedFacts
  <2>3. \A i \in DOMAIN artifacts : all[i] = artifacts[i]
    BY <1>1, AddedFacts
  <2> QED
    BY <2>1, <2>2, <2>3
<1>4. ASSUME NEW i \in DOMAIN all, i \notin DOMAIN artifacts
      PROVE  /\ i - Len(artifacts) \in 1..n /\ i > Len(artifacts) /\ all[i].repository = here
             /\ all[i].digest = q[i - Len(artifacts)] /\ all[i].digest \in DOMAIN byDigest
             /\ all[i].tags = byDigest[all[i].digest]
  <2> HIDE DEF here
  <2> QED
    BY <1>1, <1>4, NewFacts
<1>5. \A i, j \in 1..n : i < j => q[i] < q[j]
  <2>1. DOMAIN byDigest \in SUBSET Nat /\ IsFiniteSet(DOMAIN byDigest)
    <3>1. DOMAIN byDigest \in SUBSET Digests /\ Digests \subseteq Nat /\ IsFiniteSet(Digests)
      BY DEF ListTypeOK, OciListAssumption
    <3> QED
      BY <3>1, FS_Subset
  <2> QED
    BY <2>1, AscendingFacts
<1>6. /\ Range(todo) = {here} \cup Range(Tail(todo))
      /\ IsInjective(todo) => IsInjective(Tail(todo)) /\ here \notin Range(Tail(todo))
  BY <1>1, TailRange, InjectiveTail
<1>7. DOMAIN byDigest \subseteq Nat
  BY DEF ListTypeOK, OciListAssumption
<1> HIDE DEF here, all, q, n
<1>8. ASSUME NEW i \in DOMAIN all, NEW t \in all[i].tags
      PROVE  <<all[i].repository, t, all[i].digest>> \in everNamed
  <2>1. CASE i \in DOMAIN artifacts
    BY <1>3, <1>8, <2>1 DEF TruthInv, ListedInv, Truthful
  <2>2. CASE i \notin DOMAIN artifacts
    BY <1>4, <1>8, <2>2 DEF TruthInv, GatherInv, here
  <2> QED
    BY <2>1, <2>2
<1>9. ASSUME IsInjective(repositories), NEW i \in DOMAIN all, NEW j \in DOMAIN all,
             all[i].repository = all[j].repository, i < j
      PROVE  all[i].digest < all[j].digest /\ all[i].tags \cap all[j].tags = {}
  <2>1. CASE i \in DOMAIN artifacts /\ j \in DOMAIN artifacts
    BY <1>3, <1>9, <2>1 DEF TruthInv, ListedInv, Truthful
  <2>2. CASE i \in DOMAIN artifacts /\ j \notin DOMAIN artifacts
    <3>1. artifacts[i].repository = here
      BY <1>3, <1>4, <1>9, <2>2
    <3> QED
      BY <1>6, <1>9, <2>2, <3>1 DEF TruthInv, ListedInv
  <2>3. CASE i \notin DOMAIN artifacts /\ j \in DOMAIN artifacts
    BY <1>3, <1>4, <1>9, <2>3
  <2>4. CASE i \notin DOMAIN artifacts /\ j \notin DOMAIN artifacts
    <3>1. /\ i - Len(artifacts) \in 1..n /\ j - Len(artifacts) \in 1..n
          /\ i - Len(artifacts) < j - Len(artifacts)
      BY <1>3, <1>4, <1>9, <2>4
    <3>2. all[i].digest < all[j].digest
      BY <1>4, <1>5, <2>4, <3>1
    <3>3. all[i].digest # all[j].digest
      BY <1>4, <1>7, <2>4, <3>2
    <3> QED
      BY <1>4, <2>4, <3>2, <3>3 DEF TruthInv, GatherInv
  <2> QED
    BY <2>1, <2>2, <2>3, <2>4
<1>10. Truthful'
  BY <1>2, <1>8, <1>9 DEF Truthful
<1>11. ASSUME IsInjective(repositories), NEW i \in DOMAIN all
       PROVE  all[i].repository \notin Range(Tail(todo))
  <2>1. CASE i \in DOMAIN artifacts
    BY <1>3, <1>6, <1>11, <2>1 DEF TruthInv, ListedInv
  <2>2. CASE i \notin DOMAIN artifacts
    BY <1>4, <1>6, <1>11, <2>2 DEF TruthInv, ListedInv
  <2> QED
    BY <2>1, <2>2
<1>12. ListedInv'
  BY <1>2, <1>6, <1>10, <1>11 DEF TruthInv, ListedInv
<1> QED
  BY <1>2, <1>12, NamingKept, BeginGathers DEF TruthInv

LEMMA AskedTruth ==
  ASSUME ListTypeOK, OciListAssumption, TruthInv, UNCHANGED <<world, repositories, histories>>,
         phase \in {"referrers", "fallback"}, NEW d \in unasked, NEW has \in BOOLEAN, Asked(d, has)
  PROVE  TruthInv'
<1>1. CASE unasked = {d}
  BY <1>1, AddedTruth DEF Asked, Extended
<1>2. CASE unasked # {d}
  <2>1. phase' = "referrers" /\ UNCHANGED <<todo, page, tags, byDigest, artifacts>>
    BY <1>2 DEF Asked
  <2>2. everNamed' = everNamed /\ repositories' = repositories
    BY DEF histories
  <2>3. GatherInv'
    BY <2>1, <2>2 DEF TruthInv, GatherInv
  <2> QED
    BY <2>1, <2>2, <2>3, SameListed, NamingKept DEF TruthInv
<1> QED
  BY <1>1, <1>2

LEMMA ResolveTruth ==
  ASSUME ListTypeOK, OciListAssumption, TruthInv, Resolve
  PROVE  TruthInv'
<1> DEFINE here == Head(todo)
           tag == Head(tags)
           d == names[here][tag]
           found == With(byDigest, d, tag)
<1>1. /\ here \in Repositories /\ tag \in DOMAIN names[here] /\ tag \in Nat /\ d \in Digests
      /\ byDigest' = found /\ tags' = Tail(tags)
      /\ phase' \in {"resolve", "referrers"}
      /\ phase = "resolve" /\ UNCHANGED <<world, repositories, histories>>
      /\ UNCHANGED <<todo, artifacts>>
  BY ResolveFacts
<1>2. /\ DOMAIN found = DOMAIN byDigest \cup {d}
      /\ \A x \in DOMAIN byDigest : x # d => found[x] = byDigest[x]
      /\ found[d] = {tag} \cup (IF d \in DOMAIN byDigest THEN byDigest[d] ELSE {})
  BY <1>1, WithFacts
<1>3. tags \in Seq(Nat) /\ tags # <<>>
  BY <1>1 DEF ListTypeOK
<1>4. /\ Range(tags) = {tag} \cup Range(Tail(tags))
      /\ IsInjective(Tail(tags)) /\ tag \notin Range(Tail(tags))
  BY <1>3, TailRange, InjectiveTail DEF TruthInv, GatherInv
<1>5. <<here, tag, d>> \in everNamed
  <2>1. <<here, tag, d>> \in Naming(names)
    <3>1. <<here, tag, d>> \in {<<here, t, names[here][t]>> : t \in DOMAIN names[here]}
      BY <1>1
    <3> HIDE DEF here, tag, d
    <3> QED
      BY <1>1, <3>1 DEF Naming
  <2> QED
    BY <2>1 DEF TruthInv
<1>6. everNamed' = everNamed /\ repositories' = repositories
  BY <1>1 DEF histories
<1>7. \A x \in DOMAIN byDigest : tag \notin byDigest[x] /\ byDigest[x] \cap Range(Tail(tags)) = {}
  BY <1>4 DEF TruthInv, GatherInv
<1> HIDE DEF here, tag, d, found
<1>8. \A x \in DOMAIN found : \A t \in found[x] : <<here, t, x>> \in everNamed
  BY <1>1, <1>2, <1>5 DEF TruthInv, GatherInv, here
<1>9. \A x \in DOMAIN found : found[x] \cap Range(Tail(tags)) = {}
  BY <1>2, <1>4, <1>7
<1>10. ASSUME NEW x \in DOMAIN found, NEW y \in DOMAIN found, x # y PROVE found[x] \cap found[y] = {}
  <2>1. CASE x # d /\ y # d
    BY <1>2, <1>10, <2>1 DEF TruthInv, GatherInv
  <2>2. CASE x = d
    BY <1>2, <1>7, <1>10, <2>2 DEF TruthInv, GatherInv
  <2>3. CASE y = d
    BY <1>2, <1>7, <1>10, <2>3 DEF TruthInv, GatherInv
  <2> QED
    BY <2>1, <2>2, <2>3
<1>11. GatherInv'
  BY <1>1, <1>4, <1>6, <1>8, <1>9, <1>10 DEF GatherInv, here
<1>12. ListedInv'
  BY <1>1, <1>6, SameListed DEF TruthInv
<1> QED
  BY <1>1, <1>6, <1>11, <1>12, NamingKept DEF TruthInv

LEMMA ListTruth ==
  ASSUME ListTypeOK, OciListAssumption, TruthInv, List
  PROVE  TruthInv'
<1>1. CASE Challenge \/ Token
  <2>1. /\ UNCHANGED <<repositories, phase, todo, page, current, artifacts>>
        /\ everNamed' = everNamed /\ UNCHANGED world
    BY <1>1 DEF Challenge, Token, histories
  <2>2. Naming(names)' \subseteq everNamed'
    BY <2>1, NamingKept DEF TruthInv
  <2> QED
    BY <2>1, <2>2, SameTruth
<1>2. CASE Fail
  <2>1. /\ phase' = "error" /\ artifacts' = <<>> /\ UNCHANGED <<world, repositories, todo, current, histories>>
    BY <1>2 DEF Fail
  <2>2. everNamed' = everNamed /\ tags' = tags /\ byDigest' = byDigest /\ todo' = todo /\ repositories' = repositories
    BY <2>1 DEF histories, current
  <2>3. GatherInv'
    BY <2>1, <2>2 DEF TruthInv, GatherInv
  <2>4. Truthful'
    BY <2>1 DEF Truthful
  <2>5. ListedInv'
    BY <2>1, <2>2, <2>4 DEF TruthInv, ListedInv
  <2> QED
    BY <2>1, <2>2, <2>3, <2>5, NamingKept DEF TruthInv
<1>3. CASE CatalogPage
  <2>1. /\ phase = "catalog" /\ UNCHANGED <<world, repositories, histories>> /\ artifacts' = artifacts
    BY <1>3 DEF CatalogPage, Answered
  <2>2. everNamed' = everNamed /\ repositories' = repositories /\ artifacts = <<>>
    BY <2>1 DEF histories, TruthInv, ListedInv
  <2> DEFINE shown == page \cup PageOf(Repositories)
  <2>3. CASE HasNext(Repositories)
    <3>1. UNCHANGED <<phase, todo, current>>
      BY <1>3, <2>3 DEF CatalogPage
    <3>2. tags' = tags /\ byDigest' = byDigest
      BY <3>1 DEF current
    <3>3. GatherInv'
      BY <2>2, <3>1, <3>2 DEF TruthInv, GatherInv
    <3> QED
      BY <2>1, <2>2, <3>1, <3>3, SameListed, NamingKept DEF TruthInv
  <2>4. CASE ~HasNext(Repositories)
    <3>1. IsFiniteSet(shown) /\ shown \in SUBSET Nat
      BY PageFacts DEF ListTypeOK, OciListAssumption
    <3>2. IsInjective(Ascending(shown))
      BY <3>1, AscendingFacts
    <3>3. Begin(Ascending(shown))
      BY <1>3, <2>4 DEF CatalogPage
    <3>4. todo' = Ascending(shown) /\ phase' \in {"ok", "tags"} /\ artifacts' = <<>>
      BY <2>1, <2>2, <3>3 DEF Begin
    <3>5. Truthful'
      BY <3>4 DEF Truthful
    <3> HIDE DEF shown
    <3>6. ListedInv'
      BY <3>2, <3>4, <3>5 DEF ListedInv
    <3> QED
      BY <2>1, <2>2, <3>3, <3>6, NamingKept, BeginGathers DEF TruthInv
  <2> QED
    BY <2>3, <2>4
<1>4. CASE Skip
  <2>1. /\ Begin(Tail(todo)) /\ UNCHANGED <<world, repositories, histories>> /\ artifacts' = artifacts
        /\ phase = "tags"
    BY <1>4 DEF Skip
  <2>2. todo # <<>>
    BY <2>1 DEF ListTypeOK
  <2> QED
    BY <2>1, <2>2, NextTruth
<1>5. CASE TagsPage
  <2> DEFINE here == Head(todo)
             shown == page \cup PageOf(DOMAIN names[here])
  <2>1. /\ phase = "tags" /\ UNCHANGED <<world, repositories, histories>>
        /\ artifacts' = artifacts /\ here \in Repositories
    BY <1>5 DEF TagsPage, Answered
  <2>2. /\ todo # <<>> /\ page \in SUBSET Nat /\ IsFiniteSet(page) /\ PageSize \in Nat \ {0}
        /\ DOMAIN names[here] \in SUBSET Nat /\ IsFiniteSet(DOMAIN names[here])
    BY <2>1 DEF ListTypeOK, OciListAssumption
  <2>3. IsFiniteSet(shown) /\ shown \in SUBSET Nat
    BY <2>2, PageFacts
  <2>4. everNamed' = everNamed /\ repositories' = repositories
    BY <2>1 DEF histories
  <2>5. CASE HasNext(DOMAIN names[here])
    <3>1. UNCHANGED <<phase, todo, current>>
      BY <1>5, <2>5 DEF TagsPage
    <3>2. tags' = tags /\ byDigest' = byDigest
      BY <3>1 DEF current
    <3>3. GatherInv'
      BY <2>4, <3>1, <3>2 DEF TruthInv, GatherInv
    <3> QED
      BY <2>1, <2>4, <3>1, <3>3, SameListed, NamingKept DEF TruthInv
  <2>6. CASE ~HasNext(DOMAIN names[here]) /\ shown = {}
    <3>1. Begin(Tail(todo))
      BY <1>5, <2>6 DEF TagsPage
    <3> HIDE DEF shown, here
    <3> QED
      BY <2>1, <2>2, <3>1, NextTruth
  <2>7. CASE ~HasNext(DOMAIN names[here]) /\ shown # {}
    <3>1. /\ phase' = "resolve" /\ tags' = Ascending(shown) /\ UNCHANGED <<todo, byDigest>>
      BY <1>5, <2>7 DEF TagsPage
    <3>2. IsInjective(Ascending(shown)) /\ DOMAIN byDigest = {}
      BY <2>1, <2>3, AscendingFacts DEF TruthInv, GatherInv
    <3> HIDE DEF shown, here
    <3>3. GatherInv'
      BY <3>1, <3>2 DEF GatherInv
    <3> QED
      BY <2>1, <2>4, <3>1, <3>3, SameListed, NamingKept DEF TruthInv
  <2> QED
    BY <2>5, <2>6, <2>7
<1>6. CASE Resolve
  BY <1>6, ResolveTruth
<1>7. ASSUME NEW d \in Digests, Referrers(d) PROVE TruthInv'
  <2> DEFINE has == <<Head(todo), d>> \in attached
  <2>1. /\ phase = "referrers" /\ UNCHANGED <<world, repositories, histories>>
        /\ d \in unasked /\ Asked(d, has) /\ has \in BOOLEAN
    BY <1>7 DEF Referrers, Answered
  <2> HIDE DEF has
  <2> QED
    BY <2>1, AskedTruth
<1>8. ASSUME NEW d \in Digests, NoReferrers(d) PROVE TruthInv'
  <2>1. /\ phase = "referrers" /\ phase' = "fallback" /\ UNCHANGED <<world, repositories, histories>>
        /\ UNCHANGED <<todo, tags, byDigest, artifacts>>
    BY <1>8 DEF NoReferrers, Answered
  <2>2. everNamed' = everNamed /\ repositories' = repositories
    BY <2>1 DEF histories
  <2>3. GatherInv'
    BY <2>1, <2>2 DEF TruthInv, GatherInv
  <2> QED
    BY <2>1, <2>2, <2>3, SameListed, NamingKept DEF TruthInv
<1>9. CASE ReferrersByTag
  <2> DEFINE at == names[Head(todo)]
             has == ReferrersTag(subject) \in DOMAIN at /\ Kinds[at[ReferrersTag(subject)]] = "index"
  <2>1. /\ phase = "fallback" /\ UNCHANGED <<world, repositories, histories>> /\ Asked(subject, has)
    BY <1>9 DEF ReferrersByTag, Answered
  <2>2. has \in BOOLEAN /\ subject \in unasked
    BY <2>1 DEF ListTypeOK
  <2> HIDE DEF has
  <2> QED
    BY <2>1, <2>2, AskedTruth
<1> QED
  BY <1>1, <1>2, <1>3, <1>4, <1>5, <1>6, <1>7, <1>8, <1>9 DEF List, ListReferrers

\* What is listed was so at some moment of the call.  A repository that is
\* configured once has each tag once and its artifacts ascend by digest, as the
\* policy's order of artifacts of one date needs.
THEOREM ListedTruly == ListSpec => []Truthful
<1> USE OciListAssumption
<1>1. ListInit => TruthInv
  <2> SUFFICES ASSUME ListInit PROVE TruthInv
    OBVIOUS
  <2>1. /\ artifacts = <<>> /\ tags = <<>> /\ byDigest = NoTags /\ everNamed = Naming(names)
        /\ todo = repositories /\ phase \in {"catalog", "tags"}
    BY DEF ListInit
  <2>2. GatherInv
    BY <2>1, EmptyFacts DEF GatherInv
  <2>3. ListedInv
    BY <2>1 DEF ListedInv, Truthful
  <2> QED
    BY <2>1, <2>2, <2>3 DEF TruthInv
<1>2. ListTypeOK /\ TruthInv /\ [ListNext]_listVars => TruthInv'
  <2> SUFFICES ASSUME ListTypeOK, TruthInv, [ListNext]_listVars PROVE TruthInv'
    OBVIOUS
  <2>1. CASE UNCHANGED listVars
    <3>1. /\ UNCHANGED <<repositories, phase, todo, page, current, artifacts>>
          /\ everNamed' = everNamed /\ UNCHANGED world
      BY <2>1 DEF listVars, histories
    <3>2. Naming(names)' \subseteq everNamed'
      BY <3>1, NamingKept DEF TruthInv
    <3> QED
      BY <3>1, <3>2, SameTruth
  <2>2. CASE Write
    <3>1. Written
      BY <2>2 DEF Write, PushTag, Untag, Attach
    <3>2. Naming(names)' = Naming(names')
      BY DEF Naming
    <3> QED
      BY <3>1, <3>2, SameTruth DEF Written
  <2> QED
    BY <2>1, <2>2, ListTruth DEF ListNext
<1>3. TruthInv => Truthful
  BY DEF TruthInv, ListedInv
<1> QED
  BY <1>1, <1>2, <1>3, ListTypeCorrect, PTL DEF ListSpec
=============================================================================
