----------------------------- MODULE GithubApply ----------------------------
(***************************************************************************)
(* Apply composed with the GitHub provider's Delete                        *)
(* (internal/provider/github/github.go) and a package registry other       *)
(* clients write to.                                                       *)
(*                                                                         *)
(* Delete is a GET of the package version, compared with the plan by       *)
(* digest, time of the last update and tags, and then a DELETE of the      *)
(* version.  Each request is tried up to four times: a broken connection,  *)
(* a client timeout, a 5xx, a 429, or a 403 with Retry-After is followed   *)
(* by a delay and the next attempt.  An attempt that was given up may      *)
(* still reach the registry, and one that was answered by an error may     *)
(* have taken effect.                                                      *)
(*                                                                         *)
(* The version of action a is the number a; GitHub never reuses an ID, and *)
(* a write moves updated_at, so a version that changed never again matches *)
(* the plan.                                                               *)
(***************************************************************************)
EXTENDS Naturals, FiniteSets

CONSTANTS
  Count, Workers, Configured,   \* as in Apply
  Attempts                      \* attempts per request, 4

Actions == 1..Count

ASSUME GithubAssumption ==
  /\ Count \in Nat
  /\ Workers # {}
  /\ Configured \subseteq Actions
  /\ Attempts \in Nat \ {0}

VARIABLES
  ctx, fed, jobs, outcomes, pc, held, status, recorded, result, main, err,
  version,      \* the registry: each version "planned", "changed" or "gone"
  request,      \* the request of each call: which one, which attempt, how far
  wire,         \* DELETE attempts sent and not yet processed
  reply,        \* the answer to the current DELETE attempt, "none" before
  erased,       \* history: versions a DELETE of ours erased
  drifted       \* history: versions that differed from the plan at the start

A == INSTANCE Apply

engine  == <<ctx, fed, jobs, outcomes, pc, held, status, recorded, result, main, err>>
calls   == <<request, wire, reply>>
history == <<erased, drifted>>
vars    == <<engine, version, calls, history>>

Requests == [method : {"GET", "DELETE"}, attempt : 1..Attempts,
             state : {"ready", "sent", "backoff"}]

\* What do hands to its caller, and the answers it retries.
Answers == A!DeleteErrors \cup {"retry"}

TypeOK ==
  /\ A!TypeOK
  /\ version \in [Actions -> {"planned", "changed", "gone"}]
  /\ request \in [Actions -> Requests]
  /\ wire \subseteq Actions \X (1..Attempts)
  /\ reply \in [Actions -> Answers \cup {"none"}]
  /\ erased \subseteq Actions
  /\ drifted \subseteq Actions

First(m) == [method |-> m, attempt |-> 1, state |-> "ready"]

Init ==
  /\ A!Init
  /\ version = [a \in Actions |-> "planned"]
  /\ request = [a \in Actions |-> First("GET")]
  /\ wire = {}
  /\ reply = [a \in Actions |-> "none"]
  /\ erased = {}
  /\ drifted = {}

-----------------------------------------------------------------------------
(* The registry (external) and its other clients.                          *)

\* Another client moves a tag of version a, or deletes it.
Write(a, v) ==
  /\ version[a] # "gone"
  /\ version[a] # v
  /\ version' = [version EXCEPT ![a] = v]
  /\ UNCHANGED <<engine, calls, history>>

\* The registry processes attempt k, whether or not anyone waits for it: the
\* version is erased and the answer is 204 or lost in a gateway error, or
\* nothing happens and the answer is 404, 409, or another error.
Process(a, k) ==
  /\ <<a, k>> \in wire
  /\ wire' = wire \ {<<a, k>>}
  /\ \E e \in Answers :
       /\ \/ /\ version[a] # "gone"
             /\ e \in {"nil", "retry"}
             /\ version' = [version EXCEPT ![a] = "gone"]
             /\ erased' = erased \cup {a}
          \/ /\ e # "nil"
             /\ e = "notFound" => version[a] = "gone"
             /\ UNCHANGED <<version, erased>>
       /\ reply' = IF request[a].attempt = k /\ request[a].state = "sent"
                   THEN [reply EXCEPT ![a] = e] ELSE reply
  /\ UNCHANGED <<engine, request, drifted>>

-----------------------------------------------------------------------------
(* The provider call of a worker.                                          *)

At(w, m, s) ==
  /\ pc[w] = "calling"
  /\ held[w] \in Configured
  /\ request[held[w]].method = m
  /\ request[held[w]].state = s

Methods == {"GET", "DELETE"}

Same(w) == version[held[w]] = "planned"

\* Mutant: the version that was read is not compared with the plan.
GetUncompared(w) ==
  /\ At(w, "GET", "ready")
  /\ ~ctx
  /\ \/ version[held[w]] = "gone" /\ A!Return(w, "notFound") /\ UNCHANGED request
     \/ A!Return(w, "other") /\ UNCHANGED request
     \/ /\ version[held[w]] # "gone"
        /\ request' = [request EXCEPT ![held[w]] = First("DELETE")]
        /\ UNCHANGED engine
  /\ UNCHANGED <<version, wire, reply, history>>

\* The GET is answered: 404, a version that changed, the planned version, or a
\* status that is not retried.
Get(w) ==
  /\ At(w, "GET", "ready")
  /\ ~ctx
  /\ \/ version[held[w]] = "gone" /\ A!Return(w, "notFound") /\ UNCHANGED request
     \/ version[held[w]] = "changed" /\ A!Return(w, "precondition") /\ UNCHANGED request
     \/ A!Return(w, "other") /\ UNCHANGED request
     \/ /\ Same(w)
        /\ request' = [request EXCEPT ![held[w]] = First("DELETE")]
        /\ UNCHANGED engine
  /\ UNCHANGED <<version, wire, reply, history>>

SendDelete(w) ==
  LET a == held[w] IN
  /\ At(w, "DELETE", "ready")
  /\ ~ctx
  /\ request' = [request EXCEPT ![a].state = "sent"]
  /\ wire' = wire \cup {<<a, request[a].attempt>>}
  /\ reply' = [reply EXCEPT ![a] = "none"]
  /\ UNCHANGED <<engine, version, history>>

\* Mutant: a DELETE answered 404 counts as a deletion.
ReceiveGoneAsDeleted(w) ==
  /\ At(w, "DELETE", "sent")
  /\ reply[held[w]] \in A!DeleteErrors
  /\ A!Return(w, IF reply[held[w]] = "notFound" THEN "nil" ELSE reply[held[w]])
  /\ UNCHANGED <<version, calls, history>>

\* The DELETE is answered by a status that is not retried.
Receive(w) ==
  /\ At(w, "DELETE", "sent")
  /\ reply[held[w]] \in A!DeleteErrors
  /\ A!Return(w, reply[held[w]])
  /\ UNCHANGED <<version, calls, history>>

\* An attempt fails: the context is done, the client timed out, the connection
\* broke, or the answer asks for a retry.  A DELETE that was sent stays on the
\* wire.
Fail(w) ==
  /\ \E m \in Methods : At(w, m, "ready") \/ At(w, m, "sent")
  /\ request' = [request EXCEPT ![held[w]].state = "backoff"]
  /\ UNCHANGED <<engine, version, wire, reply, history>>

\* Mutant: the attempts are not counted, a request is retried for ever.
RetryUncounted(w) ==
  /\ \E m \in Methods : At(w, m, "backoff")
  /\ \/ ctx /\ A!Return(w, "other") /\ UNCHANGED request
     \/ /\ request' = [request EXCEPT ![held[w]].state = "ready"]
        /\ UNCHANGED engine
  /\ UNCHANGED <<version, wire, reply, history>>

\* Mutant: a call that ran out of attempts is taken for a missing artifact.
RetryExhaustedAsGone(w) ==
  LET r == request[held[w]] IN
  /\ \E m \in Methods : At(w, m, "backoff")
  /\ \/ A!Return(w, "notFound") /\ UNCHANGED request
     \/ /\ r.attempt < Attempts
        /\ request' = [request EXCEPT ![held[w]].state = "ready",
                                      ![held[w]].attempt = @ + 1]
        /\ UNCHANGED engine
  /\ UNCHANGED <<version, wire, reply, history>>

\* The delay after a failed attempt ends with the next one, with the end of
\* the attempts, or with the context; select picks either when both are ready.
Retry(w) ==
  LET r == request[held[w]] IN
  /\ \E m \in Methods : At(w, m, "backoff")
  /\ \/ (ctx \/ r.attempt = Attempts) /\ A!Return(w, "other") /\ UNCHANGED request
     \/ /\ r.attempt < Attempts
        /\ request' = [request EXCEPT ![held[w]].state = "ready",
                                      ![held[w]].attempt = @ + 1]
        /\ UNCHANGED engine
  /\ UNCHANGED <<version, wire, reply, history>>

Delete(w) == Get(w) \/ SendDelete(w) \/ Receive(w) \/ Fail(w) \/ Retry(w)

-----------------------------------------------------------------------------

\* A step of the engine; drifted is what differs from the plan at the start.
EngineStep ==
  /\ A!Engine
  /\ drifted' = IF main = "checking" /\ main' = "collecting"
                THEN {a \in Actions : version[a] # "planned"} ELSE drifted
  /\ UNCHANGED <<version, calls, erased>>

Next ==
  \/ EngineStep
  \/ \E w \in Workers : Delete(w)
  \/ \E a \in Actions, k \in 1..Attempts : Process(a, k)
  \/ \E a \in Actions, v \in {"changed", "gone"} : Write(a, v)

Spec == Init /\ [][Next]_vars

\* The goroutines run; an attempt ends because http.Client.Timeout bounds it,
\* and delays end.  The registry owes nothing.
Fairness ==
  /\ WF_vars(EngineStep /\ \E fresh \in BOOLEAN : A!Start(fresh))
  /\ WF_vars(EngineStep /\ A!FeederExit)
  /\ WF_vars(EngineStep /\ A!CloseOutcomes)
  /\ WF_vars(EngineStep /\ A!Finish)
  /\ \A w \in Workers :
       /\ WF_vars(EngineStep /\ (A!Feed(w) \/ A!Worker(w)))
       /\ WF_vars(Delete(w))

FairSpec == Spec /\ Fairness

-----------------------------------------------------------------------------
(* Properties.                                                             *)

\* With retries, late effects and drift, Delete still returns once per action
\* one of the errors Apply distinguishes, and so the whole apply returns.
ImplementsApply == A!FairSpec

\* What is reported as deleted was erased by this apply, and never a version
\* that someone else erased between the GET and the DELETE.
DeletedWereErased == \A a \in Actions : recorded[a] = "deleted" => a \in erased

\* A version that had changed before the apply started is never erased.
DriftedAreKept == erased \cap drifted = {}

\* A version this apply erased is reported as skipped only if its DELETE was
\* retried: a single DELETE yields "deleted", or "failed" when its outcome is
\* unknown.
SkippedOnlyAfterRetry ==
  \A a \in erased : recorded[a] = "skipped" =>
    request[a].method = "DELETE" /\ request[a].attempt > 1

=============================================================================
