------------------------------ MODULE OciApply ------------------------------
(***************************************************************************)
(* Apply composed with the OCI provider's Delete                           *)
(* (internal/provider/oci/oci.go) and a registry other clients write to.   *)
(*                                                                         *)
(* Delete is a HEAD of the artifact's first tag and, if the tag still      *)
(* names the planned digest, a DELETE of the manifest by digest: the check *)
(* and the deletion are two requests, each of which fails at once when the *)
(* context is done, may be given up by the client (timeout, cancelled      *)
(* context, broken connection), and may then still reach the registry.     *)
(* A bearer-token exchange is part of the request it authorises.           *)
(*                                                                         *)
(* Every action has a tag: List makes an artifact of a tag it has resolved,*)
(* so the plan never asks resolve for the empty reference, which it would  *)
(* answer ErrNotFound without a request.                                   *)
(*                                                                         *)
(* One repository.  The manifest of action a is the number a, so the       *)
(* stages of a call are kept per action: an action is handed over once.    *)
(* Init is the registry the plan was made from.                            *)
(***************************************************************************)
EXTENDS Naturals, FiniteSets

CONSTANTS
  Count, Workers, Configured,   \* as in Apply
  Others,       \* manifests that are not in the plan
  Tags,         \* the tags of the repository
  Planned,      \* Artifact.Tags of each action, as a set
  FirstTag,     \* firstTag(request.Tags) of each action
  MaxDrift      \* bound: writes by other clients

Actions   == 1..Count
Manifests == Actions \cup Others
NoManifest == 0

ASSUME OciAssumption ==
  /\ Count \in Nat
  /\ Workers # {}
  /\ Configured \subseteq Actions
  /\ Others \subseteq Nat \ {NoManifest}
  /\ Planned \in [Actions -> SUBSET Tags]
  /\ \A a, b \in Actions : a # b => Planned[a] \cap Planned[b] = {}
  /\ FirstTag \in [Actions -> Tags]
  /\ \A a \in Actions : FirstTag[a] \in Planned[a]
  /\ MaxDrift \in Nat

VARIABLES
  ctx, fed, jobs, outcomes, pc, held, status, recorded, result, main, err,
  tagOf,        \* the registry: the manifest each tag names
  present,      \* the registry: the manifests it stores
  drift,        \* writes other clients have made
  stage,        \* how far the provider call for each action has come
  wire,         \* DELETE requests sent and not yet processed
  reply,        \* the answer to each DELETE, once processed
  erased,       \* history: manifests a DELETE of ours erased
  named,        \* history: actions whose first tag named them since Start
  altered       \* history: actions whose tags had changed when the HEAD was answered

A == INSTANCE Apply

engine   == <<ctx, fed, jobs, outcomes, pc, held, status, recorded, result, main, err>>
registry == <<tagOf, present, drift>>
calls    == <<stage, wire, reply>>
history  == <<erased, named, altered>>
vars     == <<engine, registry, calls, history>>

TypeOK ==
  /\ A!TypeOK
  /\ tagOf \in [Tags -> Manifests \cup {NoManifest}]
  /\ present \subseteq Manifests
  /\ drift \in 0..MaxDrift
  /\ stage \in [Actions -> {"start", "asked", "matched", "sent"}]
  /\ wire \subseteq Actions
  /\ reply \in [Actions -> A!DeleteErrors \cup {"none"}]
  /\ erased \subseteq Actions
  /\ named \subseteq Actions
  /\ altered \subseteq Actions

TagsOf(m) == {t \in Tags : tagOf[t] = m}

Init ==
  /\ A!Init
  /\ tagOf = [t \in Tags |-> IF \E a \in Actions : t \in Planned[a]
                             THEN CHOOSE a \in Actions : t \in Planned[a]
                             ELSE NoManifest]
  /\ present = Actions
  /\ drift = 0
  /\ stage = [a \in Actions |-> "start"]
  /\ wire = {}
  /\ reply = [a \in Actions |-> "none"]
  /\ erased = {}
  /\ named = {}
  /\ altered = {}

-----------------------------------------------------------------------------
(* The registry (external) and its other clients.                          *)

\* Deleting a manifest by digest also removes the tags that name it.
WithoutTags(m) == [t \in Tags |-> IF tagOf[t] = m THEN NoManifest ELSE tagOf[t]]

\* Another client pushes manifest m under tag t, or moves t to it.
Push(t, m) ==
  /\ drift < MaxDrift
  /\ tagOf[t] # m
  /\ tagOf' = [tagOf EXCEPT ![t] = m]
  /\ present' = present \cup {m}
  /\ drift' = drift + 1
  /\ named' = IF m \in Actions /\ FirstTag[m] = t THEN named \cup {m} ELSE named
  /\ UNCHANGED <<engine, calls, erased, altered>>

\* Another client deletes manifest m.
Vanish(m) ==
  /\ drift < MaxDrift
  /\ m \in present
  /\ tagOf' = WithoutTags(m)
  /\ present' = present \ {m}
  /\ drift' = drift + 1
  /\ UNCHANGED <<engine, calls, history>>

\* The registry processes a DELETE, whether or not anyone still waits for the
\* answer: 202, 404, or any refusal.
Accept(a) ==
  /\ a \in present
  /\ tagOf' = WithoutTags(a)
  /\ present' = present \ {a}
  /\ erased' = erased \cup {a}
  /\ reply' = [reply EXCEPT ![a] = "nil"]

Answer(a, e) ==
  /\ e = "notFound" => a \notin present
  /\ reply' = [reply EXCEPT ![a] = e]
  /\ UNCHANGED <<tagOf, present, erased>>

Process(a) ==
  /\ a \in wire
  /\ wire' = wire \ {a}
  /\ Accept(a) \/ \E e \in {"notFound", "other"} : Answer(a, e)
  /\ UNCHANGED <<engine, drift, stage, named, altered>>

-----------------------------------------------------------------------------
(* The provider call of a worker.                                          *)

InCall(w, s) == pc[w] = "calling" /\ held[w] \in Configured /\ stage[held[w]] = s
Advance(w, s) == stage' = [stage EXCEPT ![held[w]] = s]

\* resolve: the HEAD of the first tag goes out.
SendHead(w) ==
  /\ InCall(w, "start")
  /\ ~ctx
  /\ Advance(w, "asked")
  /\ UNCHANGED <<engine, registry, wire, reply, history>>

\* Mutant: whatever digest the tag names now is accepted.
HeadUncompared(w) ==
  LET a == held[w]
      m == tagOf[FirstTag[a]]
  IN
  /\ InCall(w, "asked")
  /\ \/ m = NoManifest /\ A!Return(w, "notFound") /\ UNCHANGED <<stage, altered>>
     \/ /\ m # NoManifest
        /\ Advance(w, "matched")
        /\ altered' = IF TagsOf(a) # Planned[a] THEN altered \cup {a} ELSE altered
        /\ UNCHANGED engine
  /\ UNCHANGED <<registry, wire, reply, erased, named>>

\* The HEAD is answered: 404, another digest, or the planned digest.
ReceiveHead(w) ==
  LET a == held[w]
      m == tagOf[FirstTag[a]]
  IN
  /\ InCall(w, "asked")
  /\ \/ m = NoManifest /\ A!Return(w, "notFound") /\ UNCHANGED <<stage, altered>>
     \/ m \notin {NoManifest, a} /\ A!Return(w, "precondition") /\ UNCHANGED <<stage, altered>>
     \/ /\ m = a
        /\ Advance(w, "matched")
        /\ altered' = IF TagsOf(a) # Planned[a] THEN altered \cup {a} ELSE altered
        /\ UNCHANGED engine
  /\ UNCHANGED <<registry, wire, reply, erased, named>>

\* The DELETE of the manifest goes out.
SendDelete(w) ==
  /\ InCall(w, "matched")
  /\ ~ctx
  /\ Advance(w, "sent")
  /\ wire' = wire \cup {held[w]}
  /\ UNCHANGED <<engine, registry, reply, history>>

\* Mutant: a DELETE answered 404 counts as a deletion.
ReceiveGoneAsDeleted(w) ==
  /\ InCall(w, "sent")
  /\ reply[held[w]] # "none"
  /\ A!Return(w, IF reply[held[w]] = "notFound" THEN "nil" ELSE reply[held[w]])
  /\ UNCHANGED <<registry, calls, history>>

\* The DELETE's answer arrives: nil for 202, ErrNotFound for 404, else an error.
Receive(w) ==
  /\ InCall(w, "sent")
  /\ reply[held[w]] # "none"
  /\ A!Return(w, reply[held[w]])
  /\ UNCHANGED <<registry, calls, history>>

\* Mutant: a request that was given up is taken for a missing artifact.
GiveUpAsGone(w) ==
  /\ \E s \in {"start", "asked", "matched", "sent"} : InCall(w, s)
  /\ A!Return(w, "notFound")
  /\ UNCHANGED <<registry, calls, history>>

\* Mutant: no http.Client.Timeout, only a cancelled context ends a request.
GiveUpOnCancelOnly(w) ==
  /\ \E s \in {"start", "asked", "matched", "sent"} : InCall(w, s)
  /\ ctx
  /\ A!Return(w, "other")
  /\ UNCHANGED <<registry, calls, history>>

\* do fails: the context is done, the client timed out, the connection broke,
\* the registry refused the HEAD or named no digest.  A DELETE that was sent
\* stays on the wire.
GiveUp(w) ==
  /\ \E s \in {"start", "asked", "matched", "sent"} : InCall(w, s)
  /\ A!Return(w, "other")
  /\ UNCHANGED <<registry, calls, history>>

Delete(w) ==
  SendHead(w) \/ ReceiveHead(w) \/ SendDelete(w) \/ Receive(w) \/ GiveUp(w)

-----------------------------------------------------------------------------

\* A step of the engine; when the apply starts, named is what the tags name.
EngineStep ==
  /\ A!Engine
  /\ named' = IF main = "checking" /\ main' = "collecting"
              THEN {a \in Actions : tagOf[FirstTag[a]] = a} ELSE named
  /\ UNCHANGED <<registry, calls, erased, altered>>

Next ==
  \/ EngineStep
  \/ \E w \in Workers : Delete(w)
  \/ \E a \in Actions : Process(a)
  \/ \E t \in Tags, m \in Manifests : Push(t, m)
  \/ \E m \in Manifests : Vanish(m)

Spec == Init /\ [][Next]_vars

\* The goroutines run; a call ends because http.Client.Timeout bounds every
\* request.  The registry owes nothing.
Fairness ==
  /\ WF_vars(EngineStep /\ \E fresh \in BOOLEAN : A!Start(fresh))
  /\ WF_vars(EngineStep /\ A!FeederExit)
  /\ WF_vars(EngineStep /\ A!CloseOutcomes)
  /\ WF_vars(EngineStep /\ A!Finish)
  /\ \A w \in Workers :
       /\ WF_vars(EngineStep /\ (A!Feed(w) \/ A!Worker(w)))
       /\ WF_vars(Delete(w))

FairSpec == Spec /\ Fairness

-----------------------------------------------------------------------------
(* Properties.                                                             *)

\* The composition is an apply: whatever the registry and its other clients
\* do, the provider returns, once per action, one of the errors Apply
\* distinguishes, and so the whole apply returns.
ImplementsApply == A!FairSpec

\* A manifest a DELETE of ours erased, even one whose answer nobody awaited,
\* is never reported as skipped: when Apply has returned it is "deleted", or
\* "failed" because the outcome is unknown.
ErasedAreReported ==
  main = "returned" => \A a \in erased : recorded[a] \in {"deleted", "failed"}

\* What is reported as deleted was erased by this apply, not by someone else.
DeletedWereErased == \A a \in Actions : recorded[a] = "deleted" => a \in erased

\* An artifact whose first tag was moved after the plan was made, and not
\* moved back during the apply, is not deleted.
MovedAreKept == erased \subseteq named

\* pkg/provider/provider.go says "ErrPrecondition indicates that an artifact
\* changed after a plan was created", and README.md "Apply rechecks provider
\* preconditions": an artifact whose tags had already changed when the
\* precondition was checked is not deleted.
ChangedAreKept == erased \cap altered = {}

=============================================================================
