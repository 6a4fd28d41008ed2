------------------------------- MODULE Server -------------------------------
(***************************************************************************)
(* The HTTP server (internal/server/server.go): one goroutine per request  *)
(* to POST /run, each of which plans and applies, the goroutine of         *)
(* ListenAndServe and the one that shuts the server down.                  *)
(*                                                                         *)
(* Two things exclude a second run: the flag running, which refuses, and   *)
(* the mutex applyMu, which waits.  A plan is the set of artifacts it      *)
(* deletes; an apply settles them one by one, as module Settlement allows, *)
(* while other clients push to and delete from the registries.             *)
(*                                                                         *)
(* What a run reports and what its DELETEs do differ, as in modules        *)
(* OciApply and GithubApply: a DELETE that is reported as failed may take  *)
(* effect at any later moment, also after its run was answered, and one    *)
(* that is repeated may be answered 404 because the first took effect.     *)
(* Health and metrics requests change nothing.                             *)
(***************************************************************************)
EXTENDS Naturals, FiniteSets

CONSTANTS
  Requests,     \* the requests to POST /run
  Presented,    \* the bearer token of each, "" for none
  Settings,     \* what the process may be started with: Token, whether the
                \* address is a loopback, and Config.Apply
  Artifacts,    \* what the policies delete once it is in a registry
  Stored,       \* what is there at the start
  MaxWrites     \* bound: artifacts that other clients push or delete

Nobody == "nobody"

ASSUME ServerAssumption ==
  /\ \A s \in Settings : s.apply \in BOOLEAN /\ s.loopback \in BOOLEAN
  /\ DOMAIN Presented = Requests
  /\ Nobody \notin Requests
  /\ Stored \subseteq Artifacts
  /\ IsFiniteSet(Artifacts)
  /\ MaxWrites \in Nat

VARIABLES
  setting,      \* the setting of this process
  main,         \* ListenAndServe: "serving", "closed", then the process has "exited"
  ctx,          \* TRUE once the process was told to stop
  err,          \* what ListenAndServe returns
  running,      \* the flag
  applyMu,      \* the request that holds the mutex, or Nobody
  pc,           \* where the handler of each request is
  gone,         \* the requests whose client has disconnected
  left,         \* the actions an apply has not settled yet
  tally,        \* the result of each run, until it is observed
  code,         \* the status of each answer, 0 before there is one
  metrics,      \* the counters
  present,      \* the artifacts in the registries
  vanished,     \* history: what other clients have deleted
  lost,         \* the artifacts with a DELETE under way that no run waits for
  erased,       \* history: what the DELETEs of the runs have deleted
  reported      \* history: what the runs have reported as deleted

process == <<setting, main, ctx, err>>
locks   == <<running, applyMu>>
run     == <<left, tally>>
store   == <<present, vanished, lost, erased, reported>>
vars    == <<process, locks, pc, gone, run, code, metrics, store>>

Numbers  == 0..Cardinality(Artifacts)
Tallies  == [planned : Numbers, deleted : Numbers, skipped : Numbers, failed : Numbers]
Counts   == [planned : Nat, deleted : Nat, skipped : Nat, failed : Nat, success : Nat, failure : Nat]
NoTally  == [planned |-> 0, deleted |-> 0, skipped |-> 0, failed |-> 0]
NoCounts == [planned |-> 0, deleted |-> 0, skipped |-> 0, failed |-> 0, success |-> 0, failure |-> 0]

\* The places where a handler has won the flag.
Inside == {"locking", "planning", "applying", "applied", "unlocking", "releasing"}
Places == Inside \cup {"idle", "arrived", "done"}

TypeOK ==
  /\ setting \in Settings
  /\ main \in {"serving", "closed", "exited"}
  /\ ctx \in BOOLEAN
  /\ err \in {"nil", "binding", "serve"}
  /\ running \in BOOLEAN
  /\ applyMu \in Requests \cup {Nobody}
  /\ pc \in [Requests -> Places]
  /\ gone \subseteq Requests
  /\ left \in [Requests -> SUBSET Artifacts]
  /\ tally \in [Requests -> Tallies]
  /\ code \in [Requests -> {0, 200, 401, 409, 500}]
  /\ metrics \in Counts
  /\ present \subseteq Artifacts
  /\ vanished \subseteq Artifacts
  /\ lost \subseteq Artifacts
  /\ erased \subseteq Artifacts
  /\ reported \subseteq Artifacts

-----------------------------------------------------------------------------

\* validateBinding: without a token only a loopback address is served.
ValidBinding(s) == s.token # "" \/ s.loopback

Authorized(r) == setting.token = "" \/ Presented[r] = setting.token

Init ==
  /\ setting \in Settings
  /\ main = IF ValidBinding(setting) THEN "serving" ELSE "exited"
  /\ err = IF ValidBinding(setting) THEN "nil" ELSE "binding"
  /\ ctx = FALSE
  /\ running = FALSE
  /\ applyMu = Nobody
  /\ pc = [r \in Requests |-> "idle"]
  /\ gone = {}
  /\ left = [r \in Requests |-> {}]
  /\ tally = [r \in Requests |-> NoTally]
  /\ code = [r \in Requests |-> 0]
  /\ metrics = NoCounts
  /\ present = Stored
  /\ vanished = {}
  /\ lost = {}
  /\ erased = {}
  /\ reported = {}

-----------------------------------------------------------------------------
(* The surroundings (external).                                            *)

Arrive(r) ==
  /\ main = "serving"
  /\ pc[r] = "idle"
  /\ pc' = [pc EXCEPT ![r] = "arrived"]
  /\ UNCHANGED <<process, locks, gone, run, code, metrics, store>>

\* The client of r disconnects, which cancels the context of the request; once
\* the apply has returned, nobody looks at it.
Disconnect(r) ==
  /\ main # "exited"
  /\ pc[r] \in {"locking", "planning", "applying"}
  /\ gone' = gone \cup {r}
  /\ UNCHANGED <<process, locks, pc, run, code, metrics, store>>

\* What other clients of the registries have deleted or pushed.
Others == vanished \cup ((present \cup erased) \ Stored)

\* Other clients write so often, and as long as the process is there to see it.
MayWrite == main # "exited" /\ Cardinality(Others) < MaxWrites

\* Another client of the registry deletes or pushes an artifact.
Vanish(a) ==
  /\ MayWrite
  /\ a \in present
  /\ present' = present \ {a}
  /\ vanished' = vanished \cup {a}
  /\ UNCHANGED <<process, locks, pc, gone, run, code, metrics, lost, erased, reported>>

Push(a) ==
  /\ MayWrite
  /\ a \notin present \cup vanished \cup erased
  /\ present' = present \cup {a}
  /\ UNCHANGED <<process, locks, pc, gone, run, code, metrics, vanished, lost, erased, reported>>

\* What a DELETE of a does in the registry; it is 404 if a is not there.
Erase(a) ==
  /\ present' = present \ {a}
  /\ erased' = IF a \in present THEN erased \cup {a} ELSE erased

\* A registry processes a DELETE whose client has given up.
Land(a) ==
  /\ a \in lost
  /\ lost' = lost \ {a}
  /\ Erase(a)
  /\ UNCHANGED <<process, locks, pc, gone, run, code, metrics, vanished, reported>>

World ==
  \/ \E r \in Requests : Arrive(r) \/ Disconnect(r)
  \/ \E a \in Artifacts : Vanish(a) \/ Push(a) \/ Land(a)

-----------------------------------------------------------------------------
(* The handler of POST /run.                                               *)

At(r, from, to) ==
  /\ main # "exited"
  /\ pc[r] = from
  /\ pc' = [pc EXCEPT ![r] = to]
  /\ gone' = IF to \in {"applied", "unlocking"} THEN gone \ {r} ELSE gone
  /\ UNCHANGED process

Refuse(r, status) ==
  /\ At(r, "arrived", "done")
  /\ code' = [code EXCEPT ![r] = status]
  /\ UNCHANGED <<locks, run, metrics, store>>

Unauthorized(r) == ~Authorized(r) /\ Refuse(r, 401)

\* running.CompareAndSwap
Conflict(r) == Authorized(r) /\ running /\ Refuse(r, 409)

Admit(r) ==
  /\ Authorized(r)
  /\ ~running
  /\ At(r, "arrived", "locking")
  /\ running' = TRUE
  /\ UNCHANGED <<applyMu, run, code, metrics, store>>

Lock(r) ==
  /\ applyMu = Nobody
  /\ At(r, "locking", "planning")
  /\ applyMu' = r
  /\ UNCHANGED <<running, run, code, metrics, store>>

\* Mutant: an early return before the deferred calls are registered; the flag
\* is reset by hand and the mutex is forgotten.
PlanFailsLocked(r) ==
  /\ At(r, "planning", "done")
  /\ running' = FALSE
  /\ code' = [code EXCEPT ![r] = 500]
  /\ metrics' = [metrics EXCEPT !.failure = @ + 1]
  /\ UNCHANGED <<applyMu, run, store>>

\* Mutant: an early return that leaves the flag set.
PlanFailsRunning(r) ==
  /\ At(r, "planning", "done")
  /\ applyMu' = Nobody
  /\ code' = [code EXCEPT ![r] = 500]
  /\ metrics' = [metrics EXCEPT !.failure = @ + 1]
  /\ UNCHANGED <<running, run, store>>

\* Engine.Plan fails: a registry, a limit, a disconnected client.
PlanFails(r) ==
  /\ At(r, "planning", "unlocking")
  /\ code' = [code EXCEPT ![r] = 500]
  /\ metrics' = [metrics EXCEPT !.failure = @ + 1]
  /\ UNCHANGED <<locks, run, store>>

\* Mutant: the locks are held while planning only.
PlanReleasing(r) ==
  /\ At(r, "planning", IF setting.apply THEN "applying" ELSE "applied")
  /\ left' = [left EXCEPT ![r] = IF setting.apply THEN present ELSE {}]
  /\ tally' = [tally EXCEPT ![r].planned = Cardinality(present)]
  /\ running' = FALSE
  /\ applyMu' = Nobody
  /\ UNCHANGED <<code, metrics, store>>

\* Engine.Plan has listed the registries.
Plan(r) ==
  /\ At(r, "planning", IF setting.apply THEN "applying" ELSE "applied")
  /\ left' = [left EXCEPT ![r] = IF setting.apply THEN present ELSE {}]
  /\ tally' = [tally EXCEPT ![r].planned = Cardinality(present)]
  /\ UNCHANGED <<locks, code, metrics, store>>

\* Engine.Apply settles one action: the artifact is deleted; it is not found,
\* perhaps because an earlier attempt of this very DELETE took effect; or the
\* DELETE fails, and may have been sent and still be under way.
Settle(r, a) ==
  /\ At(r, "applying", "applying")
  /\ a \in left[r]
  /\ left' = [left EXCEPT ![r] = @ \ {a}]
  /\ \/ /\ a \in present
        /\ Erase(a)
        /\ reported' = reported \cup {a}
        /\ tally' = [tally EXCEPT ![r].deleted = @ + 1]
        /\ UNCHANGED lost
     \/ /\ Erase(a)
        /\ tally' = [tally EXCEPT ![r].skipped = @ + 1]
        /\ UNCHANGED <<lost, reported>>
     \/ /\ lost' \in {lost, lost \cup {a}}
        /\ tally' = [tally EXCEPT ![r].failed = @ + 1]
        /\ UNCHANGED <<present, erased, reported>>
  /\ UNCHANGED <<locks, code, metrics, vanished>>

\* Engine.Apply returns; a failed precondition or a disconnected client leaves
\* actions that are counted as skipped.
ApplyReturns(r) ==
  /\ At(r, "applying", "applied")
  /\ left[r] = {} \/ r \in gone \/ tally[r].failed > 0
  /\ left' = [left EXCEPT ![r] = {}]
  /\ tally' = [tally EXCEPT ![r].skipped = @ + Cardinality(left[r])]
  /\ UNCHANGED <<locks, code, metrics, store>>

\* Engine.Apply refuses a plan whose making took longer than it is valid.
ApplyRefuses(r) ==
  /\ At(r, "applying", "unlocking")
  /\ tally[r].planned = Cardinality(left[r])
  /\ left' = [left EXCEPT ![r] = {}]
  /\ code' = [code EXCEPT ![r] = 500]
  /\ metrics' = [metrics EXCEPT !.failure = @ + 1, !.planned = @ + tally[r].planned]
  /\ tally' = [tally EXCEPT ![r] = NoTally]
  /\ UNCHANGED <<locks, store>>

\* Mutant: Observe only looks at the result when there is no error.
AddSuccesses(counts, result) ==
  [c \in DOMAIN counts |->
     IF c = "failure" THEN counts[c] + (IF result.failed > 0 THEN 1 ELSE 0)
     ELSE IF result.failed > 0 THEN counts[c]
     ELSE IF c = "success" THEN counts[c] + 1 ELSE counts[c] + result[c]]

\* Metrics.Observe: a result with a failed action comes with ErrPartialApply.
Add(counts, result) ==
  [c \in DOMAIN counts |->
     CASE c = "success" -> counts[c] + (IF result.failed = 0 THEN 1 ELSE 0)
       [] c = "failure" -> counts[c] + (IF result.failed > 0 THEN 1 ELSE 0)
       [] OTHER -> counts[c] + result[c]]

Observe(r) ==
  /\ At(r, "applied", "unlocking")
  /\ metrics' = Add(metrics, tally[r])
  /\ code' = [code EXCEPT ![r] = IF tally[r].failed > 0 THEN 500 ELSE 200]
  /\ tally' = [tally EXCEPT ![r] = NoTally]
  /\ UNCHANGED <<locks, left, store>>

\* The deferred calls, the last one first; then the answer is complete.
Unwind(r) ==
  /\ \/ /\ At(r, "unlocking", "releasing")
        /\ applyMu' = Nobody
        /\ UNCHANGED running
     \/ /\ At(r, "releasing", "done")
        /\ running' = FALSE
        /\ UNCHANGED applyMu
  /\ UNCHANGED <<run, code, metrics, store>>

Handle(r) ==
  \/ Unauthorized(r) \/ Conflict(r) \/ Admit(r) \/ Lock(r)
  \/ PlanFails(r) \/ Plan(r)
  \/ \E a \in Artifacts : Settle(r, a)
  \/ ApplyReturns(r) \/ ApplyRefuses(r)
  \/ Observe(r) \/ Unwind(r)

-----------------------------------------------------------------------------
(* The process.                                                            *)

MainStep(from, to) ==
  /\ main = from
  /\ main' = to
  /\ UNCHANGED <<setting, ctx, locks, pc, gone, run, code, metrics>>

Signal ==
  /\ main # "exited"
  /\ ctx' = TRUE
  /\ UNCHANGED <<setting, main, err, locks, pc, gone, run, code, metrics, store>>

\* Shutdown, in a goroutine of its own, closes the listener, and ListenAndServe
\* returns.  Nothing waits for Shutdown, which waits for the handlers.
Shutdown == ctx /\ MainStep("serving", "closed") /\ UNCHANGED <<err, store>>

ServeFails == MainStep("serving", "closed") /\ err' = "serve" /\ UNCHANGED store

\* The command returns what ListenAndServe returned, and main exits; the
\* DELETEs of an active run may have been sent.
Exit ==
  /\ MainStep("closed", "exited")
  /\ \E sent \in SUBSET UNION {left[r] : r \in Requests} : lost' = lost \cup sent
  /\ UNCHANGED <<err, present, vanished, erased, reported>>

Next ==
  \/ World
  \/ \E r \in Requests : Handle(r)
  \/ Signal \/ Shutdown \/ ServeFails \/ Exit

Spec == Init /\ [][Next]_vars

\* Handlers are scheduled and the engine's calls return: its requests have
\* timeouts, and module Apply shows that an apply ends.
FairSpec == Spec /\ \A r \in Requests : WF_vars(Handle(r))

-----------------------------------------------------------------------------
(* Properties.                                                             *)

\* No run deletes from a plan that holds what another run has reported as
\* deleted.  What it has not settled yet is still there, or another client of the
\* registry has taken it, or a DELETE that its run reported otherwise.
PlansStayFresh ==
  \A r \in Requests : left[r] \subseteq present \cup vanished \cup (erased \ reported)

\* A request is only refused with 409 while another run is active; a client
\* whose previous run has been answered is never refused on its account.
RefusedOnlyWhenBusy ==
  [][\A r \in Requests : code'[r] = 409 /\ code[r] # 409 =>
       \E q \in Requests \ {r} : pc[q] \in Inside]_vars

\* The counters miss nothing but the active run, whatever fails, disconnects or
\* is refused: every reported deletion is counted once, what was erased without
\* being reported is covered by as many skipped and failed actions, until the
\* process exits, and every run is counted as it was answered.
Unobserved == {r \in Requests : pc[r] \in {"planning", "applying", "applied"}}

Complete(t) ==
  /\ metrics.deleted + t.deleted = Cardinality(reported)
  /\ main # "exited" =>
       Cardinality(erased \ reported) <= metrics.skipped + t.skipped + metrics.failed + t.failed

MetricsTrue ==
  /\ Cardinality(Unobserved) <= 1
  /\ Unobserved = {} => Complete(NoTally)
  /\ \A r \in Unobserved : Complete(tally[r])
  /\ metrics.success = Cardinality({r \in Requests : code[r] = 200})
  /\ metrics.failure = Cardinality({r \in Requests : code[r] = 500})

\* Every request is answered, unless the process exits first: no way through
\* the handler leaves a lock behind for those that come later.
Answered ==
  \A r \in Requests : pc[r] = "arrived" ~> pc[r] = "done" \/ main = "exited"
=============================================================================
