# A TLA+ model of Regbot

Regbot lists the artifacts of container registries (any OCI registry through the
distribution API, GitHub Packages through its REST API), decides by retention
policies which to delete, writes that decision down as a *plan*, and applies the
plan under preconditions. The modules here model that pipeline, the processes around
it and the HTTP server in front of it. TLC checks them on small instances. TLAPS proves,
for instances of any size, what is selected and planned, what an apply with either
provider deletes and reports, and what the server, the scheduler and the commands promise.

    config file --> Plan (List, Evaluate, Merge, limits) --> plan file --> Apply --> result, exit code, webhook
                       |                                                    |
                       +-- provider (OCI, GitHub) <-- registries -----------+
    cron schedule --> Scheduler --> run (Plan, Apply, webhook)        POST /run --> Server --> Plan, Apply

## 1. Inventory

| Part | State it keeps | Operations | Works with | Hard because |
|---|---|---|---|---|
| `internal/engine` Apply | result under collection, two unbuffered channels, a cancellable context | `Apply`: feeder goroutine, worker goroutines, the collecting caller, the closer | provider `Delete`, the caller's context | rendezvous, random `select`, cancellation from three sides, counters completed by a remainder |
| `internal/engine` Plan | actions, protected keys, limits, all local to a call | `Plan`, `safetyLimit.validate`, `parseArtifact` | provider `List`, `policy.Evaluate` | overlapping policies over registries that change between two listings, rounding |
| `pkg/policy` | none | `Evaluate`, `newer`, `artifactAge`, ... | called by Plan | stable sort with a relation that is not an order, boundaries of ages and ranks |
| `internal/provider/oci` | none across calls | `List` (catalog, tags, manifests, referrers), `Delete`, token exchange | registry | check and deletion are two requests; an abandoned request may still take effect; a listing is many requests to a registry that moves |
| `internal/provider/github` | none across calls | `List`, `Delete`, `do` with retries | registry | pages of a moving list, retries of a DELETE that took effect |
| `internal/scheduler` | the loop, a counter of skipped occurrences | `ListenAndServe`, `loop`, `execute`, `skippedOccurrences` | `Run` (a whole workflow), cron, signals | run against timer against signal, bounded shutdown |
| `internal/server` | `running` flag, `applyMu`, counters | `POST /run`, health, metrics, shutdown | engine, metrics | exclusion of runs by two locks, early returns, disconnecting clients, shutdown during a run |
| `internal/cli` | plan file, exit code | `plan`, `apply`, `run`, `serve`, `scheduler`, ... | all of the above, disk, webhook | atomic file replacement, stale plans, errors that hide errors |
| `internal/config` | none | `Load`, `Validate`, `Policy.Rule` | policy, engine | absent fields, zero and negative values |
| `internal/hook`, `report`, `metrics`, `factory` | counters, formatting, construction | | | - |

What makes each part correct:

- **Apply**: each action is attempted at most once, the result describes exactly
  what was attempted, the call returns and leaves no goroutine behind.
- **Providers**: nothing is deleted that changed since the plan, nothing deleted is
  reported as something else, listings hide nothing.
- **Policy**: the floor `keep_at_least` holds in each group; newer versions outlive
  older ones; the outcome does not depend on map order.
- **Plan**: protection by any policy wins; limits and floors of each evaluation hold
  in the merged plan; an incomplete discovery is no plan.
- **Server**: runs do not overlap and none is refused without reason, every request is
  answered, the counters are true.
- **Configuration**: what is accepted cannot empty a group.
- **Scheduler**: runs do not overlap, each occurrence is served at most once, a
  signal stops the process.
- **Commands**: whoever reads the plan file finds a whole plan, a plan is refused when it
  has expired or the configuration has changed, exit codes are true.

`PROJECT.json` lists every hazard at its line, with the properties that guard it or
the reason none does.

## 2. Modules

| Module | Models | Correspondence |
|---|---|---|
| `Settlement` | what an apply promises | abstract: a verdict per action, then a tally of exactly those verdicts, or a rejection before any verdict |
| `Apply` | `engine.Apply` | `jobs`, `outcomes`: the channels; `pc`, `held`, `status`: a worker and the `action` and outcome it holds; `recorded`, `result`: `result.Outcomes` and the counters. `Feed` and `Report` are the two rendezvous; `Cancel` is a step after `Report`, as `cancel()` follows the send |
| `ApplyProofs` | - | theorems about `Apply` |
| `OciApply` | `Apply` + `oci.Client.Delete` + registry | the provider call becomes `SendHead`, `ReceiveHead`, `SendDelete`, `Receive`, `GiveUp`; `Process` is the registry, `Push` and `Vanish` its other clients |
| `GithubApply` | `Apply` + `github.Client.Delete` and `do` + registry | `Get`, `SendDelete`, `Receive`, `Fail`, `Retry`; `Process` is the API, `Write` its other clients |
| `GithubList` | `github.Client.List` | `PackagesPage`, `VersionsPage`: one page each, a window of the list at the moment it is served; `Skip` passes over a package that is not selected; `OtherClients` push, create and delete between the pages |
| `GithubProofs` | - | theorems about `GithubApply`, on top of `ApplyProofs`, and about `GithubList` |
| `OciList` | `oci.Client.List` | one request at a time: `CatalogPage`, `TagsPage`, `Resolve` (a HEAD), `Referrers`, `NoReferrers` and `ReferrersByTag`; `Skip` passes over a repository that is not selected; `Challenge` and `Token` are the bearer exchange inside `do`; `page` is the set the pages have shown, of which the next page is the least of what is above (`After`) |
| `OciProofs` | - | theorems about `OciApply`, on top of `ApplyProofs`, and about `OciList` |
| `Config` | `Validate`, `Policy.Rule` | operators: one per section of the file; `RulesOf` gives the rules of accepted configurations to `MCPolicy` |
| `Policy` | `policy.Evaluate` with `parseArtifact` | `Classify` (first loop), `Visit` (map iteration; `current` is the set of the one group being sorted), `Sort` (one insertion of `sort.SliceStable`), `Decide` (second loop) |
| `PolicyProofs` | - | theorems about `Policy` |
| `Planner` | `engine.Plan` | `Evaluate` (`List` and `policy.Evaluate` of a target, in one step: what a moving registry does to a listing in pages is that an entry comes twice or not at all), `Merge` (one decision), `Conclude` (protection, limits) |
| `PlannerProofs` | - | theorems about `Planner` |
| `Scheduler` | `internal/scheduler` | two goroutines: `Loop` (`loop`, `execute`) and `Serve` (`ListenAndServe`); `Tick` is the clock |
| `SchedulerProofs` | - | theorems about `Scheduler` |
| `Server` | `internal/server`, `Metrics.Observe` | `pc`: a handler of `POST /run`; `running`, `applyMu`: the flag and the mutex; `Unwind` is the deferred calls, last first; `left`, `tally`: plan and result, locals of the handler; `lost`: DELETEs that no run waits for any more, which `Land` lets take effect at any later moment; `erased`, `reported`: what was deleted and what was said to be |
| `ServerProofs` | - | theorems about `Server` |
| `Commands` | `internal/cli`: `plan`, `apply`, `run` | processes that share `config` and the plan file `path`; `CreateTemp` ... `Rename` is `writeJSONAtomic`; `Kill`, `PowerFail`, `Edit` surround them |
| `CommandsProofs` | - | theorems about `Commands` |

`OciApply` and `GithubApply` contain `Apply` as `A == INSTANCE Apply` over the same
variables: a worker's `calling` state is refined into the provider's requests, whose
last step is `A!Return`. Both are checked to implement `A!FairSpec`; `Apply`
implements `Settlement`. `Planner` uses of `Policy` only the contract `FloorPerGroup`,
which `PolicyProofs!FloorHolds` proves; `Commands` and `Server` use of `Apply` only the results
`Settlement` allows, and `Server` takes from the two compositions what a DELETE may have done
besides: one that is reported as failed may take effect later, also after the answer or after
the end of the process (`ErasedAreReported`), and one that is reported as skipped may have
erased (`SkippedOnlyAfterRetry`). `Policy!DateOrder` assumes that a listing of one OCI repository ascends by
digest, which `OciList!Truthful` shows, and the rules it is checked with are those `Config`
makes of accepted configurations. Each `MC...` module gives one module its small sets.
`GithubList` and `OciList` have names of their own (`ListSpec`, `ListTypeOK`, ...), because
`GithubProofs` and `OciProofs` each speak of both operations of a provider.

Definitions introduced by a comment `Mutant:` stand beside the definition they
break. They are in no behaviour: they document which mistake each property detects,
and every property is known to fail when the definition is replaced by its mutant.

Abstractions that hold throughout: digests, names and tags are small numbers or
model values; errors are classes (`nil`, `notFound`, `precondition`, `other`), the
distinctions `Apply` makes; JSON, table output, logging, gauges and histograms are left
out. `Observe` is one step: a scrape between two of its increments is not distinguished.

## 3. Runs

| Run | Question | Instance and why it is enough |
|---|---|---|
| `apply` | Whatever the schedule, the errors and the cancellations: exactly-once, ordered closing, true tally, the abstract settlement, and termination? | four actions, two workers, one action without a provider: some workers hold, some report, some cancel, some actions stay unfed; the proofs cover every other size |
| `oci_apply` | Does that survive a registry that moves, and requests that take effect after they were given up? | two actions (one with two tags), two workers, one write by others (a push of an old or new manifest, a move, a deletion); one worker's call races the other's failure |
| `oci_tags` | Is an artifact with changed tags kept? **violated** | one worker, one write |
| `github_apply` | The same with retries | one configured action and one that cancels it, two attempts: first and last; attempts in between behave as the first |
| `github_list` | Do writes between pages hide or repeat entries? | pages of two, a package of three pages, three writes of any kind; packages not selected, created and deleted |
| `oci_list` | What may writes between the requests of a listing hide, invent or leave unprotected, and does it end? | two selected repositories that share a manifest and one excluded, pages of two, two writes (tag moved, created, deleted, manifest deleted, referrers attached, detached, replaced by an empty index or by something else), with and without the referrers API, from the catalog or from configured names, one of which does not exist and one of which is given twice; every request may be challenged |
| `policy` | Floors of distinct artifacts, ranks and order for every listing | all listings of three artifacts over nine kinds of tags (parsed, unparsed, untagged, two apps, same day, future), ascending, in any order, or with a repeated entry; the rules of all accepted configurations among 28 candidates: floors and retentions of zero, a negative duration, settings left out |
| `policy_only_version` | Does an app with one version keep it? **violated** | listings of two artifacts, default protections |
| `planner` | Do protection, floors, limits and preconditions survive the merge? | two policies with overlapping targets, of which one has two targets and deletes up to its count from each, one target listed in pages that may repeat or hide an entry; five artifacts of two apps in two repositories, two changes during planning; for one policy a share that only rounding lets pass decides, for the other, whose percentage is a NaN, the count alone |
| `scheduler` | No occurrence served twice, none uncounted, clean stop | occurrences back to back and after a pause, a run on start, nine ticks: runs shorter and longer than one, two and three occurrences |
| `server` | Fresh plans, true refusals and counters, every request answered | three requests, one without the token; two artifacts, one write by another client, any failed DELETE may take effect at any later moment; applying, a dry run without token, an address that is refused; any client disconnects, any plan fails, the process ends at any moment. Two requests at a time suffice for a race of two runs, the third for one that comes after both |
| `commands` | Whole plan file, true exit codes | any two commands at a time, two configurations, plans that live one tick, kills and power failures at every step |

Bounds are constants and stand in guards only where nothing of the program would
stop: `MaxDrift`, `MaxWrites` (writes by other clients), `Horizon`, `MaxTime` (the
clock). `Attempts` is the program's own constant.
`TypeOK` (`ListTypeOK`) is proved for every module that defines it. The registry of `OciList`
pages by a cursor (`last=`), as the distribution specification says; one whose `Link`
headers form a cycle is not modelled, and `Ends` would not hold for it. `CHECK_DEADLOCK FALSE` is set everywhere because each of these is a call or a
process that ends; that none ends early is what `Returns`, `Stops` and the
fairness half of `ImplementsApply` say.

**Fairness.** `Apply!Fairness`: runnable goroutines run (the Go scheduler), and every
`Delete` returns (both clients set `http.Client.Timeout`, 30 s by default, and the
number of requests of a call is bounded). In the compositions that second assumption
is replaced by fairness of the client's own steps; the registry owes nothing, not
even an answer, and its other clients may stop. `ParentDone` has no fairness: nobody
need cancel. `Server!FairSpec` is fair to each handler: it is a goroutine, the requests of
the engine have timeouts, and `Apply` returns. `OciList!ListFairSpec` is fair to the requests of the
client, for the same timeout, and not to the registry's other clients. `Scheduler!FairSpec` is fair to the goroutine of `ListenAndServe` and to
the ten seconds of its deadline, and not to the loop: a workflow may hang.
`Settlement`, `Policy`, `Planner`, `GithubList` and `Commands` need none.

## 4. Proofs

`ApplyProofs` proves, from `ApplyAssumption` alone (`Count` is a natural number,
there is at least one worker, configured actions are actions of the plan):

| Theorem | States |
|---|---|
| `TypeCorrect` | `Spec => []TypeOK`; the remainder counted as skipped is never negative |
| `OwnershipHolds` | `Spec => []Ownership` |
| `CloseOrderHolds` | `Spec => []CloseOrder` |
| `TallyHolds` | `Spec => []Tally` |
| `NothingIsLost` | `Spec => []NothingLost` |
| `Refinement` | `Spec => ImplementsSettlement` |

The inductive invariant is `Inv`: `TypeOK`, `MainErr`, `Ownership`, `CloseOrder` and
`Tally` together. None of the last three is inductive alone. `Tally` is kept by
`Report` only if the reported action had no outcome yet, which is `Ownership`; typing
of the remainder in `Finish` needs the counters to stay within the plan, which is
`Tally` with `ThreeWaySplit` (three disjoint sets of actions); `NothingLost` needs
`CloseOrder` (no worker still holds an action when the call returns) and `Ownership`;
and `MainErr` says that nothing happens before `Start`. `Refinement` maps a step of a
worker to `Settle`, `Finish` to `Close`, a refused `Start` to `Reject` and all else
to a stutter; it uses `Inv` in the first state and, for the tally, in the second.

`OciProofs` and `GithubProofs` prove the same kind of facts for the engine
with a provider and a registry, for any plan, pool, set of tags, amount of drift and
number of attempts (`OciAssumption`, `GithubAssumption`):

| Theorem | States |
|---|---|
| `Composition` (both) | `Spec => A!Spec`, the safety half of `ImplementsApply` |
| `ErasedReported` (OCI) | `Spec => []ErasedAreReported` |
| `SkippedRetried` (GitHub) | `Spec => []SkippedOnlyAfterRetry` |
| `DeletedErased` (both) | `Spec => []DeletedWereErased` |
| `MovedKept` (OCI), `DriftedKept` (GitHub) | `Spec => []MovedAreKept`, `Spec => []DriftedAreKept` |
| `OciTypeCorrect`, `GithubTypeCorrect` | `Spec => []TypeOK` |

The argument has three layers. `StepOfApply`: each step of the composition is a step
of `Apply` or leaves its variables alone, because a provider call ends in `A!Return`
with an error `Apply` knows (for OCI that needs the typing of `reply`, `ReplyOK`).
`EngineInvariant`: hence `Spec => []P!Inv`, the invariant of `ApplyProofs`, of which
`Ownership` is what matters: while a worker is in a call its action has no outcome and
no other worker reports it, so a request may change what is known about the action.
`CallsInv` then ties stages, attempts, the wire and the replies to `erased` and to the
status being reported or recorded. For OCI a DELETE is sent once, so `erased` is
exactly "answered `nil`" and a `404` means the artifact was gone before. For GitHub the
same holds of the first attempt only (`FirstAttempt`): as long as attempt 1 is the last
one sent it is processed at most once, and a `404` finds the version `Untouched`. From
the second attempt on nothing is claimed of a `404`: the retry of a DELETE that took
effect meets one. `NamedInv` and `DriftInv` carry, from the start of the apply, that a
call past its check found the artifact as planned at some moment of the apply.

The same two modules prove that a listing is what the policy may rely on, for any
registry, configuration, page size and number of writes by other clients between any two
requests (`OciListAssumption`, `ListAssumption`):

| Theorem | States |
|---|---|
| `Steady` (OCI) | `ListSpec => []CompleteSteady`: no tag that stayed is lost |
| `ListedTruly` (OCI) | `ListSpec => []Truthful`: nothing is listed that never was; artifacts ascend by digest |
| `Protected` (OCI) | `ListSpec => []ReferrersProtect`: a referrer that stayed is found |
| `Complete` (GitHub) | `ListSpec => []CompleteWithoutDeletes`: pushes hide nothing |
| `Repeats` (GitHub) | `ListSpec => []RepeatsBounded`: no more repetitions than pushes |
| `ListTypeCorrect` (both) | `ListSpec => []ListTypeOK` |

None of the five is inductive. Each gets an invariant that says where an entry is before
it is listed; TLC checked each on the instance of the run first.

- **`Steady`** (`OciProofs!CompleteInv`). A tag that has named one manifest all the time is
  `Accounted` for: it is listed, or its repository is still `Waiting` in `todo`, or that
  repository is at the head and the tag is `Expected`, that is shown or above all that was
  shown, then to be resolved, then in `byDigest`. The cursor is what makes it hold: a page
  shows the least tags above the last one shown (`PageFacts`), so that no tag below the
  cursor is still to come, whatever is pushed or deleted meanwhile. A page
  without a `Link` shows all that is left, since no rank reaches the size of its set
  (`RankFacts`), and the tags to resolve are all of those shown: `AscendingFacts`, by a
  pigeonhole argument on ranks, as there is no induction.
- **`ListedTruly`** (`TruthInv`). `GatherInv`: each resolved tag named its manifest at some
  moment, no tag is resolved twice, and none that is resolved is left in `tags`, so that the
  manifests of a repository share no tag. `ListedInv`: where no repository is configured
  twice, those listed do not come again, so that order and disjointness within one
  `listRepository` are order and disjointness of the listing. `AscendingFacts` says that
  `Ascending` enumerates a finite set in order, each member once.
- **`Protected`** (`ProtectInv`). Of the manifests already asked about, those with a
  referrer all the time are in `referred`. The `404` of the API is what is delicate: with an
  API it is an answer only for a manifest that has no referrer at that moment
  (`phase = "fallback" /\ api => <<Head(todo), subject>> \notin guarded`), without one the
  tag is the place where the referrer has been.
- **`Complete`** (`GithubProofs!CompleteInv`). There is no cursor: a page is a window of
  positions. A version that stays is listed, or its package is further down, or it stands
  behind the window (`ToCome`). Pushes and new packages only move entries to the right
  (`Shifted`), which keeps what is behind the window behind it; a deletion moves them to
  the left, and that is why the invariant is about listings without deletions.
- **`Repeats`** (`RepeatsInv`). `Few` counts: entries listed, and those that will be listed
  again (`Again`), are no more than the distinct entries and the pushes. A push moves one
  entry at most over the end of the pages shown, a deletion moves none, and a page turns
  entries to be repeated into repeated ones. It uses that IDs are not given twice
  (`Distinct`) and that no package is in the list of packages twice (`NamesOnce`), which a
  package created between two of its pages would break: hence the condition of the property.

The five modules below each prove their part of the system from an inductive invariant
`Inv`, whose conjuncts are named and commented in the module. TLC checked each `Inv` on
the instance of the run before it was proved (249,829 states for `Server`, 319,374 for
`Commands`, 5,215,164 for `Planner`, 951,640 for `Policy`; 16,768 for `Scheduler`, and two
more instances of it, one with a schedule that never comes).

| Module, theorem | States |
|---|---|
| `PolicyProofs` `FloorHolds` | `Spec => []FloorPerGroup` |
| `GroupsNeverEmptied` | `Rules = RulesOf(Configurations)` implies `Spec => []NeverEmptied` |
| `RankIsNewer` | `Spec => []NewestFirst` |
| `DatesRespected` | `Spec => []DateOrder` |
| `PlannerProofs` `ProtectionAlwaysWins` | `Spec => []ProtectionWins` |
| `PreconditionsLatest` | `Spec => []LatestPreconditions` |
| `FloorOfThePlan` | `Spec => []FloorSurvivesMerge` |
| `LimitsOfThePlan` | `Spec => []LimitsHold` |
| `ServerProofs` `PlansFresh` | `Spec => []PlansStayFresh` |
| `MetricsHold` | `Spec => []MetricsTrue` |
| `RefusalsJustified` | `Spec => RefusedOnlyWhenBusy`, an action property |
| `MutexUncontended` | `Spec => []NeverWaits`: whoever comes to lock `applyMu` finds it free |
| `SchedulerProofs` `ServedOnce` | `Due # {}` implies `Spec => []OncePerOccurrence` |
| `EveryOverlapCounted` | `Spec => []OverlapsCounted` |
| `ReturnsClean` | `Spec => []CleanReturn` |
| `OnTime` | `Due # {}` implies `Spec => RunsOnTime`, an action property: no run before its occurrence |
| `CommandsProofs` `PlanFileWhole` | `Spec => []WholePlan` |
| `ExitCodesTrue` | `Spec => []CodesAreTrue` |
| `WebhookOnce` | `Spec => []HookedOnce`: at most one webhook, after an apply that deleted something |
| `...TypeCorrect` in each | `Spec => []TypeOK` |

- **`Policy`.** `Grouped`: the groups are the indices read so far, each once and in listing
  order. `SortedPart`: `order` is a permutation of the members placed, and any two of them
  among which `Newer` is an order (`Comparable`: of a homogeneous group, or both parsed
  where IDs ascend) stand newest first. That the sort gives this although `Newer` is not
  transitive on mixed groups is the heart of it. `AheadAreNewer`: the element goes behind the
  last placed one it does not precede; if that one is unparsed it has a larger ID, and a
  member of the group listed before has a smaller one, so where IDs ascend it is parsed, and
  then transitivity among parsed artifacts orders all those ahead. `Decided` settles a group
  when it is decided (`FloorReached` counts the first ranks, `NewestReached` counts the
  newer members, `DatesReached` compares two ranks) and holds from then on because groups
  are disjoint. The floor needs only the permutation, not the order: it gives `keepAtLeast`
  entries that are kept. `ImagesKept` turns entries into distinct artifacts: each entry of a
  group that is not kept costs at most one artifact, so that those kept are at least the
  entries kept less the repetitions of the group.
- **`Planner`.** `Protections` says that each decision merged so far is either a deletion or
  protected, `Pending` that the ones of the last evaluation are not merged until they leave
  `pending`; `ProtectionWins` follows when `pending` is empty. `Origins` ties each action to
  the last evaluation that merged its artifact. The floor of the plan follows from the floor
  of each evaluation (`Floors`) and from `ProtectionWins`: of what that evaluation kept the plan
  deletes nothing, and both sides count distinct artifacts and the same repetitions. `Limits`
  and `PercentBound` (rounding, without the division) give the limits (`ValidatedWithin`),
  since a plan deletes no more of a target than was validated; a repository of which nothing
  was chosen was not validated, and `NothingWithin` shows that a limit some other one meets
  is not negative.
- **`Server`.** `OneInside` (at most one handler is past the flag, and the flag is set exactly
  then) makes plans fresh and the mutex idle; `MutexHeld`, `Answers` and `Balance` (settled and
  left make up the plan) say what is true at each place of the handler; `Counted` states the
  counters without summing over the unobserved runs, of which there is at most one. That a
  skipped or failed action covers each artifact erased without a report is not inductive: the
  DELETE of a failed action may take effect long after it was counted. `Doubtful` therefore
  counts with what was erased and not reported also what is `lost`, that is under way; a step
  of `Land` moves an artifact from one to the other, and `Covered` is inductive. `Gone` says
  that what was erased does not come back, so that no deletion is counted twice.
- **`Scheduler`.** `Accounts` keeps a count of occurrences in step with the loop: those
  up to, and not including, the awaited one are enough for what was run and skipped.
  `OccurrencesSplit` cuts an interval in two, which is what `Count` and `Compute` need.
  For `Due = {}`, a date that never comes, `ServedOnce` is false and needs its hypothesis:
  the timer fires at once, at the zero time (section 5).
- **`Commands`.** `DiskOK` says that whatever is renamed was written and synced, so that
  the file a power failure brings back is whole too. `Untouched`, `ErrorsTrue` and `Coded`
  tie whether a plan was accepted, the result, the error and the exit code along the program.

**Assumptions.** Each proof uses the named assumption of its module and nothing else; TLC
evaluates it on every run. They say that bounds are natural numbers, that what a table
indexes is what it is indexed by, and that values which stand for "none" are none of
the others (`Nobody` is no request, `None` no time). `PlannerAssumption` types the policies and evaluations
and takes the set of artifacts to be finite, as a registry is. `PolicyAssumption` says that parsing a listing
gives a listing with versions of the type `Version`, and that `keepAtLeast` and `keepLatest` are integers: `ParsedVersions` is
a fold, and what a fold computes for every input is out of reach (induction over data), so
that the parsed listing has its type is assumed where it is used and evaluated by TLC for
every listing of the run. Nothing is assumed of the order of the versions in it.
`OciListAssumption` says that a registry is finite: finitely many repositories and digests, and
at the start finitely many tags. `ListAssumption` says that at the start GitHub names no package and no version
twice, and that the IDs it gives later are new.

Only model-checked: everything under fairness (`Returns`, `Stops`, `Answered`, `Ends`, and
the liveness half of `ImplementsApply`), because liveness is out of the prover's reach; and
the operators of `Config` but for what `GroupsNeverEmptied` uses of `Validate`. Every safety
property that a passing run checks is a theorem. `Config` and `Policy` meet in
`GroupsNeverEmptied` for any set of configurations; that `Planner` and `Policy` fit together,
and that a listing of one repository ascends where `DateOrder` asks for it, is an
argument of this text: `Planner` chooses any decisions that keep the floor.

## 5. What the code does otherwise than it says

Two runs end in a counterexample:

- **`oci_tags`**: `Delete` resolves the first planned tag only. An artifact that has
  gained or lost another tag is deleted, although `ErrPrecondition` is documented as
  "an artifact changed after a plan was created".
- **`policy_only_version`**: unparsed artifacts share the group of app-less versions
  and take its protected ranks; the only version of that app can be deleted, although
  `docs/policies.md` promises to keep it.

Three more statements of the docs are not what the code does. No run is spent on them; the
properties state what the code does guarantee instead:

- **`docs/policies.md:45`**, "`keep_at_least` protects at least N artifacts in every group":
  ranks are those of listing entries. An artifact that a listing in pages shows twice, or
  whose repository is configured twice, takes two ranks, and with a floor of two only one
  artifact may be kept. `FloorPerGroup` counts distinct artifacts and gives away one for each
  repeated entry; without repetitions it is the promise of the docs. `RepeatsBounded` bounds
  the repetitions of a listing of GitHub by the pushes while it was read.
- **`docs/security.md:12`**, "Per-policy and per-repository count/percentage limits": the
  limits are those of each target of a policy, which may delete `max_delete_count` from each
  of its targets. `LimitsHold` says so, and the instance has such a policy.
- **`docs/configuration.md:91`**, `safety.max_delete_percent` is a "value in `(0, 100]`": the
  test rejects what is `<= 0` or `> 100`, and YAML's `.nan` is neither. No percentage exceeds a
  NaN, so that only the count limits the deletions. A percentage is a set in `Config` and
  `Planner`, and the empty one is the NaN.

Seen while modelling, and left without a run of its own:

- A DELETE to GitHub that took effect and lost its answer is retried, answered 404 and counted
  as skipped (`SkippedOnlyAfterRetry` shows that nothing else leads there). One to an OCI
  registry that lost its answer is counted as failed, and may take effect after the apply has
  returned. The next run of the server may then hold a plan with an artifact that is gone:
  `PlansStayFresh` is about what a run has reported as deleted, and `MetricsTrue` has a skipped
  or failed action for each artifact that was erased without a report.
- A cron expression that never matches (February 30) is accepted, runs the workflow at once,
  and the count of skipped occurrences does not end. Occurrences that pass during the run on
  start are not counted (`OverlapsCounted` excludes them).
- The process of `serve` exits as soon as `ListenAndServe` returns, in the middle of a run,
  whose deletions since the plan are in no answer and no counter (`MetricsTrue` bounds the loss
  to that run).
- A tag deleted between the list of tags and its HEAD fails the whole listing of all
  repositories (`Fail`), which is safe and, on a busy registry, frequent. The tags that keep
  referrers are listed as artifacts of their own. A deletion between two GitHub pages hides an
  entry from the listing (`CompleteWithoutDeletes` states the guaranteed part).
- An apply cancelled between two deletions returns no error (`Finish` looks at `Failed` only),
  and a rendering error replaces exit code 6 (`Report`): `CodesAreTrue` says what 0, 4, 5 and 6
  mean, not that each partial failure gives 6.
- In listings that do not ascend by ID an older version can outlive a newer one when
  unparsed artifacts are in between (`DateOrder` is restricted to ascending listings).

## 6. Not modelled, and the plan

| Part | State | Reason or plan |
|---|---|---|
| `internal/config` | `Config`, as operators | strict YAML decoding and reading secrets are library calls; no state outlives `Load` |
| `ParseCalendar`, `ParseRegex` | a table from tags to versions | character by character; a model would repeat the code |
| OCI token exchange during `Delete` | in `OciList` | a challenged request was not processed, and a failed exchange is one of the failures of `OciApply!GiveUp` |
| `resolve` of the empty reference | no | `List` makes artifacts of tags it has resolved, so no plan of the program has an action without a tag |
| that a done context sends no request, that a stale plan is refused | as guards | `SendDelete` and `Stale` each have one comparison; a property would repeat it |
| `internal/engine` `Validate`, both `Preflight` | no | requests without state whose answer ends the command |
| `internal/hook` | its place in a command | the POST is one request without state |
| `metrics` | `Observe` in `Server`, skipped occurrences in `Scheduler` | gauges and the histogram have no control flow |
| `report`, `factory` | no | formatting, construction |

The order of the work, the most important behaviour first:

1. `Settlement`, `Apply`, `ApplyProofs`, `OciApply`, `OciProofs`: what is deleted
   and what is reported. *Done.*
2. `Policy`, `PolicyProofs`, `Planner`, `PlannerProofs`: what is selected. *Done, proved.*
3. `GithubApply`, `GithubProofs`, `Scheduler`, `SchedulerProofs`, `Commands`,
   `CommandsProofs`: the other provider and the processes around the engine. *Done, proved.*
4. `Server`, `ServerProofs`: the other way to start a run. *Done, proved.*
5. `GithubList`, `OciList`, `Config`: the listings, and which rules there are. *Done; the
   listings are proved, in `GithubProofs` and `OciProofs`.*
6. Left: `Planner` and `Policy` in one composition, so that the contract `Planner` relies on
   (`FloorHolds`) becomes an instance instead of an argument; the parsers of versions.
