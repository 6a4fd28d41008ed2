-------------------------------- MODULE Apply -------------------------------
(***************************************************************************)
(* engine.Apply (internal/engine/engine.go): one goroutine feeds the       *)
(* actions of a plan to a pool of workers over the unbuffered channel      *)
(* jobs, each worker calls the provider's Delete and sends the outcome     *)
(* over the unbuffered channel outcomes, the calling goroutine collects    *)
(* them.  A failed precondition, or an action whose registry has no        *)
(* provider, cancels the context the feeder and every Delete run under.    *)
(*                                                                         *)
(* A rendezvous on an unbuffered channel is one action of two goroutines.  *)
(* What happens inside Delete is left to the modules that compose this     *)
(* one with a provider (OciApply); here Delete returns any error at all.   *)
(***************************************************************************)
EXTENDS Naturals, FiniteSets

CONSTANTS
  Count,        \* len(proposal.Actions)
  Workers,      \* the worker goroutines, e.Concurrency of them, 4 by default
  Configured    \* the actions whose Artifact.Registry has a provider

ASSUME ApplyAssumption ==
  /\ Count \in Nat
  /\ Workers # {}
  /\ Configured \subseteq 1..Count

Actions  == 1..Count
Statuses == {"deleted", "skipped", "failed"}

\* The errors a provider's Delete returns, as far as Apply tells them apart.
DeleteErrors == {"nil", "notFound", "precondition", "other"}

VARIABLES
  ctx,          \* TRUE once the context shared by feeder and workers is done
  fed,          \* how many actions the feeder has handed over, in plan order
  jobs,         \* the jobs channel: "open" or "closed"
  outcomes,     \* the outcomes channel: "open" or "closed"
  pc,           \* what each worker is doing
  held,         \* the action each worker holds, 0 for none
  status,       \* the status each worker is about to send
  recorded,     \* result.Outcomes: the status of each action, "none" if absent
  result,       \* result.Deleted, result.Skipped and result.Failed
  main,         \* the calling goroutine
  err           \* the error Apply returned: "nil", "stale" or "partial"

pool      == <<fed, jobs, outcomes, pc, held, status>>
collected == <<recorded, result, main, err>>
vars      == <<ctx, pool, collected>>

Busy(w) == pc[w] \in {"calling", "reporting"}

TypeOK ==
  /\ ctx \in BOOLEAN
  /\ fed \in 0..Count
  /\ jobs \in {"open", "closed"}
  /\ outcomes \in {"open", "closed"}
  /\ pc \in [Workers -> {"idle", "calling", "reporting", "cancelling", "exited"}]
  /\ held \in [Workers -> 0..Count]
  /\ status \in [Workers -> Statuses \cup {"precondition", "unconfigured"}]
  /\ recorded \in [Actions -> Statuses \cup {"none"}]
  /\ result \in [deleted : Nat, skipped : Nat, failed : Nat]
  /\ main \in {"checking", "collecting", "returned"}
  /\ err \in {"nil", "stale", "partial"}

-----------------------------------------------------------------------------

Init ==
  /\ ctx = FALSE
  /\ fed = 0
  /\ jobs = "open"
  /\ outcomes = "open"
  /\ pc = [w \in Workers |-> "idle"]
  /\ held = [w \in Workers |-> 0]
  /\ status = [w \in Workers |-> "failed"]
  /\ recorded = [a \in Actions |-> "none"]
  /\ result = [deleted |-> 0, skipped |-> 0, failed |-> 0]
  /\ main = "checking"
  /\ err = "nil"

\* Version, configuration fingerprint and expiry are checked once, before any
\* goroutine starts; a plan that fails one of them is stale.
Start(fresh) ==
  /\ main = "checking"
  /\ IF fresh THEN main' = "collecting" /\ UNCHANGED err
              ELSE main' = "returned" /\ err' = "stale"
  /\ UNCHANGED <<ctx, pool, recorded, result>>

\* The caller's context ends: a signal, a scheduler timeout, a closed request.
ParentDone ==
  /\ main # "returned"
  /\ ~ctx
  /\ ctx' = TRUE
  /\ UNCHANGED <<pool, collected>>

-----------------------------------------------------------------------------
(* The feeder.                                                             *)

\* jobs <- action meets range jobs.  select picks either ready case, so this
\* can still happen once the context is done.
Feed(w) ==
  /\ main = "collecting"
  /\ jobs = "open"
  /\ fed < Count
  /\ pc[w] = "idle"
  /\ fed' = fed + 1
  /\ held' = [held EXCEPT ![w] = fed + 1]
  /\ pc' = [pc EXCEPT ![w] = "calling"]
  /\ UNCHANGED <<ctx, jobs, outcomes, status, collected>>

\* Mutant: close(jobs) after the loop instead of deferred.
FeederExitUndeferred ==
  /\ main = "collecting"
  /\ jobs = "open"
  /\ fed = Count \/ ctx
  /\ jobs' = IF fed = Count THEN "closed" ELSE "abandoned"
  /\ UNCHANGED <<ctx, fed, outcomes, pc, held, status, collected>>

\* The deferred close(jobs), after the last action or on <-ctx.Done().
FeederExit ==
  /\ main = "collecting"
  /\ jobs = "open"
  /\ fed = Count \/ ctx
  /\ jobs' = "closed"
  /\ UNCHANGED <<ctx, fed, outcomes, pc, held, status, collected>>

-----------------------------------------------------------------------------
(* A worker.                                                               *)

StatusOf(e) == CASE e = "nil"          -> "deleted"
                 [] e = "notFound"     -> "skipped"
                 [] e = "precondition" -> "precondition"
                 [] OTHER              -> "failed"

\* client.Delete returns the error e.
Return(w, e) ==
  /\ pc[w] = "calling"
  /\ held[w] \in Configured
  /\ status' = [status EXCEPT ![w] = StatusOf(e)]
  /\ pc' = [pc EXCEPT ![w] = "reporting"]
  /\ UNCHANGED <<ctx, fed, jobs, outcomes, held, collected>>

\* client == nil: the action fails without a call.
Unconfigured(w) ==
  /\ pc[w] = "calling"
  /\ held[w] \notin Configured
  /\ status' = [status EXCEPT ![w] = "unconfigured"]
  /\ pc' = [pc EXCEPT ![w] = "reporting"]
  /\ UNCHANGED <<ctx, fed, jobs, outcomes, held, collected>>

\* The two failures that are reported as "failed" and then cancel the context.
Cancels(s)  == s \in {"precondition", "unconfigured"}
Reported(s) == IF Cancels(s) THEN "failed" ELSE s

\* Mutant: the worker gives the outcome up when the context is done.
ReportOrGiveUp(w) ==
  LET s == Reported(status[w]) IN
  /\ main = "collecting"
  /\ pc[w] = "reporting"
  /\ \/ /\ recorded' = [recorded EXCEPT ![held[w]] = s]
        /\ result' = [result EXCEPT ![s] = @ + 1]
     \/ ctx /\ UNCHANGED <<recorded, result>>
  /\ pc' = [pc EXCEPT ![w] = IF Cancels(status[w]) THEN "cancelling" ELSE "idle"]
  /\ UNCHANGED <<ctx, fed, jobs, outcomes, held, status, main, err>>

\* Mutant: an unconfigured action is appended to Outcomes and not counted.
ReportUncounted(w) ==
  LET s == Reported(status[w]) IN
  /\ main = "collecting"
  /\ pc[w] = "reporting"
  /\ recorded' = [recorded EXCEPT ![held[w]] = s]
  /\ result' = IF status[w] = "unconfigured" THEN result ELSE [result EXCEPT ![s] = @ + 1]
  /\ pc' = [pc EXCEPT ![w] = IF Cancels(status[w]) THEN "cancelling" ELSE "idle"]
  /\ UNCHANGED <<ctx, fed, jobs, outcomes, held, status, main, err>>

\* outcomes <- ... meets range outcomes: the collector appends the outcome
\* and bumps the counter of its status.
Report(w) ==
  LET s == Reported(status[w]) IN
  /\ main = "collecting"
  /\ pc[w] = "reporting"
  /\ recorded' = [recorded EXCEPT ![held[w]] = s]
  /\ result' = [result EXCEPT ![s] = @ + 1]
  /\ pc' = [pc EXCEPT ![w] = IF Cancels(status[w]) THEN "cancelling" ELSE "idle"]
  /\ UNCHANGED <<ctx, fed, jobs, outcomes, held, status, main, err>>

\* Mutant: no continue after cancel(), the worker goes on with the same action.
CancelWithoutContinue(w) ==
  /\ pc[w] = "cancelling"
  /\ ctx' = TRUE
  /\ pc' = [pc EXCEPT ![w] = IF status[w] = "unconfigured" THEN "calling" ELSE "idle"]
  /\ UNCHANGED <<fed, jobs, outcomes, held, status, collected>>

\* cancel(), after the outcome was sent: other workers may take more actions
\* between the two.
Cancel(w) ==
  /\ pc[w] = "cancelling"
  /\ ctx' = TRUE
  /\ pc' = [pc EXCEPT ![w] = "idle"]
  /\ UNCHANGED <<fed, jobs, outcomes, held, status, collected>>

Exit(w) ==
  /\ pc[w] = "idle"
  /\ jobs = "closed"
  /\ pc' = [pc EXCEPT ![w] = "exited"]
  /\ UNCHANGED <<ctx, fed, jobs, outcomes, held, status, collected>>

-----------------------------------------------------------------------------
(* The calling goroutine and the one that waits for the workers.           *)

\* Mutant: outcomes is closed when the first worker is done.
CloseOutcomesEarly ==
  /\ outcomes = "open"
  /\ \E w \in Workers : pc[w] = "exited"
  /\ outcomes' = "closed"
  /\ UNCHANGED <<ctx, fed, jobs, pc, held, status, collected>>

\* workers.Wait(), then close(outcomes).
CloseOutcomes ==
  /\ outcomes = "open"
  /\ \A w \in Workers : pc[w] = "exited"
  /\ outcomes' = "closed"
  /\ UNCHANGED <<ctx, fed, jobs, pc, held, status, collected>>

\* Mutant: the actions that were never handed over are not counted as skipped.
FinishWithoutRemainder ==
  /\ main = "collecting"
  /\ outcomes = "closed"
  /\ err' = IF result.failed > 0 THEN "partial" ELSE "nil"
  /\ main' = "returned"
  /\ ctx' = TRUE
  /\ UNCHANGED <<pool, recorded, result>>

\* Everything without an outcome counts as skipped; the deferred cancel runs.
Finish ==
  /\ main = "collecting"
  /\ outcomes = "closed"
  /\ result' = [result EXCEPT
                  !.skipped = @ + (Count - result.deleted - @ - result.failed)]
  /\ err' = IF result.failed > 0 THEN "partial" ELSE "nil"
  /\ main' = "returned"
  /\ ctx' = TRUE
  /\ UNCHANGED <<pool, recorded>>

-----------------------------------------------------------------------------

Worker(w) ==
  \/ Unconfigured(w)
  \/ Report(w)
  \/ Cancel(w)
  \/ Exit(w)

\* Everything but the body of Delete.
Engine ==
  \/ \E fresh \in BOOLEAN : Start(fresh)
  \/ ParentDone
  \/ FeederExit
  \/ \E w \in Workers : Feed(w) \/ Worker(w)
  \/ CloseOutcomes
  \/ Finish

Next ==
  \/ Engine
  \/ \E w \in Workers, e \in DeleteErrors : Return(w, e)

Spec == Init /\ [][Next]_vars

\* Every goroutine that can run does, and every Delete returns: both clients
\* set http.Client.Timeout, 30 s by default.
Fairness ==
  /\ WF_vars(\E fresh \in BOOLEAN : Start(fresh))
  /\ WF_vars(FeederExit)
  /\ WF_vars(CloseOutcomes)
  /\ WF_vars(Finish)
  /\ \A w \in Workers :
       /\ WF_vars(Feed(w) \/ Worker(w))
       /\ WF_vars(\E e \in DeleteErrors : Return(w, e))

FairSpec == Spec /\ Fairness

-----------------------------------------------------------------------------
(* Properties.                                                             *)

Recorded(s) == {a \in Actions : recorded[a] = s}

\* The action a worker has taken from jobs and not yet reported belongs to it
\* alone and has no outcome, and no action that was handed over is forgotten:
\* it has an outcome or a worker still owes one.  Two goroutines deleting the
\* same artifact, or an outcome lost between range jobs and outcomes <-,
\* would break it.
Ownership ==
  /\ \A w \in Workers : Busy(w) => held[w] \in 1..fed /\ recorded[held[w]] = "none"
  /\ \A w, x \in Workers : Busy(w) /\ Busy(x) /\ held[w] = held[x] => w = x
  /\ \A a \in Actions : recorded[a] = "none" /\ a <= fed
        => \E w \in Workers : Busy(w) /\ held[w] = a
  /\ \A a \in Actions : a > fed => recorded[a] = "none"

\* The channels close in order: a worker leaves only after jobs is closed,
\* outcomes closes only after every worker left (a send on it would panic),
\* and Apply returns only after outcomes is closed.  So no goroutine outlives
\* the call, and no Delete starts behind the caller's back.
CloseOrder ==
  /\ \A w \in Workers : pc[w] = "exited" => jobs = "closed"
  /\ outcomes = "closed" => \A w \in Workers : pc[w] = "exited"
  /\ main = "returned" /\ err # "stale" => outcomes = "closed"

\* The counters and result.Outcomes describe the same apply at every moment:
\* skipped is what the collector saw skipped plus, once Apply has returned,
\* what it never saw.
Tally ==
  /\ result.deleted = Cardinality(Recorded("deleted"))
  /\ result.failed  = Cardinality(Recorded("failed"))
  /\ result.skipped = IF main = "returned" /\ err # "stale"
                        THEN Count - result.deleted - result.failed
                        ELSE Cardinality(Recorded("skipped"))
  /\ main = "returned" /\ err # "stale" => (err = "partial" <=> Recorded("failed") # {})

\* When Apply returns, an action without an outcome is one no worker was ever
\* given: whatever reached a provider is in result.Outcomes, so "skipped by
\* omission" never hides a delete.
NothingLost ==
  main = "returned" /\ err # "stale" =>
    \A a \in Actions : recorded[a] = "none" <=> a > fed

\* Apply implements Settlement: workers, channels and cancellation are
\* invisible to the caller, who sees one verdict per action and a tally of them.
AppliedVerdict ==
  [a \in Actions |->
     IF recorded[a] # "none" THEN recorded[a]
     ELSE IF main = "returned" /\ err # "stale" THEN "skipped" ELSE "pending"]

AppliedPhase ==
  IF main # "returned" THEN "open" ELSE IF err = "stale" THEN "rejected" ELSE "closed"

AppliedTally ==
  IF AppliedPhase = "closed" THEN result ELSE [deleted |-> 0, skipped |-> 0, failed |-> 0]

S == INSTANCE Settlement
       WITH verdict <- AppliedVerdict, phase <- AppliedPhase, tally <- AppliedTally

ImplementsSettlement == S!Spec

\* However cancellation, failures and the three kinds of goroutine interleave,
\* an apply that started returns: no goroutine waits on a channel nobody
\* serves any more.
Returns == main = "collecting" ~> main = "returned"
=============================================================================
