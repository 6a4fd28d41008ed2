------------------------------ MODULE Scheduler -----------------------------
(***************************************************************************)
(* The built-in cron scheduler (internal/scheduler/scheduler.go): the      *)
(* goroutine of ListenAndServe, which serves health and metrics until the  *)
(* process is told to stop, and the goroutine of loop, which waits for the *)
(* next occurrence of the schedule, runs the workflow, and counts the      *)
(* occurrences that passed meanwhile.                                      *)
(*                                                                         *)
(* Time is a clock that may tick between any two steps of either           *)
(* goroutine.  The workflow (Run) takes any time and may ignore the end of *)
(* its context.  When ListenAndServe returns, the process exits.           *)
(***************************************************************************)
EXTENDS Naturals, FiniteSets

CONSTANTS
  Period, Due,  \* t is an occurrence of the schedule iff t % Period \in Due
  RunOnStart,   \* schedule.run_on_start
  Horizon       \* bound: the last instant of the clock

ASSUME SchedulerAssumption ==
  /\ Period \in Nat \ {0}
  /\ Due \subseteq 0..(Period - 1)
  /\ RunOnStart \in BOOLEAN
  /\ Horizon \in Nat \ {0}

VARIABLES
  clock,        \* time.Now()
  ctx,          \* TRUE once the process was told to stop
  grace,        \* TRUE once the ten seconds of the shutdown are over
  main,         \* the goroutine of ListenAndServe
  err,          \* what it returns
  loop,         \* the goroutine of loop
  next,         \* the occurrence it waits for or serves, 0 during run_on_start
  runs,         \* how many runs the timer has started
  skipped,      \* the counter SkippedOverlaps
  overlapped    \* history: what came due during a run the timer started

serving == <<grace, main, err>>
looping == <<loop, next, runs, skipped>>
vars    == <<clock, ctx, serving, looping, overlapped>>

TypeOK ==
  /\ clock \in 1..Horizon
  /\ ctx \in BOOLEAN
  /\ grace \in BOOLEAN
  /\ main \in {"serving", "shutting", "joining", "returned"}
  /\ err \in {"nil", "serve", "deadline"}
  /\ loop \in {"starting", "computing", "waiting", "due", "running", "ran", "exited"}
  /\ next \in 0..(Horizon + Period)
  /\ runs \in Nat
  /\ skipped \in Nat
  /\ overlapped \subseteq 1..Horizon

-----------------------------------------------------------------------------

IsDue(t) == t % Period \in Due

Occurrences(from, to) == {t \in from..to : IsDue(t)}

\* The next occurrence after t, or the zero time when there is none: a date
\* such as February 30 parses and never comes.
NextDue(t) ==
  IF Due = {} THEN 0
  ELSE CHOOSE n \in t+1..t+Period : IsDue(n) /\ Occurrences(t + 1, n - 1) = {}

Init ==
  /\ clock = 1
  /\ ctx = FALSE
  /\ grace = FALSE
  /\ main = "serving"
  /\ err = "nil"
  /\ loop = "starting"
  /\ next = 0
  /\ runs = 0
  /\ skipped = 0
  /\ overlapped = {}

\* The process runs until ListenAndServe returns.
Alive == main # "returned"

Tick ==
  /\ Alive
  /\ clock < Horizon
  /\ clock' = clock + 1
  /\ overlapped' = overlapped \cup
                     (IF loop = "running" /\ runs > 0 THEN Occurrences(clock', clock') ELSE {})
  /\ UNCHANGED <<ctx, serving, looping>>

\* SIGINT or SIGTERM.
Signal ==
  /\ Alive
  /\ ~ctx
  /\ ctx' = TRUE
  /\ UNCHANGED <<clock, serving, looping, overlapped>>

-----------------------------------------------------------------------------
(* The goroutine of loop.                                                  *)

At(from, to) == Alive /\ loop = from /\ loop' = to

LoopOnly == UNCHANGED <<clock, ctx, serving, overlapped>>

\* execute goes on to Run unless the context is done when it looks; a later
\* signal reaches Run through its context.
Execute ==
  /\ ~ctx
  /\ \/ RunOnStart /\ At("starting", "running") /\ UNCHANGED runs
     \/ At("due", "running") /\ runs' = runs + 1
  /\ UNCHANGED <<next, skipped>>
  /\ LoopOnly

\* The early return of execute, or a start without run_on_start.
Pass ==
  /\ \/ (RunOnStart => ctx) /\ At("starting", "computing")
     \/ ctx /\ At("due", "ran")
  /\ UNCHANGED <<next, runs, skipped>>
  /\ LoopOnly

\* Run returns.  What passed during run_on_start is not counted.
RunReturns ==
  /\ At("running", IF runs = 0 THEN "computing" ELSE "ran")
  /\ UNCHANGED <<next, runs, skipped>>
  /\ LoopOnly

\* Mutant: the occurrence that was run is counted too.
CountInclusive ==
  /\ At("ran", "computing")
  /\ Due # {}
  /\ skipped' = skipped + Cardinality(Occurrences(next, clock))
  /\ UNCHANGED <<next, runs>>
  /\ LoopOnly

\* Mutant: what came due at the very moment the run ended is not counted.
CountBefore ==
  /\ At("ran", "computing")
  /\ Due # {}
  /\ skipped' = skipped + Cardinality(Occurrences(next + 1, clock - 1))
  /\ UNCHANGED <<next, runs>>
  /\ LoopOnly

\* skippedOccurrences walks from one occurrence to the next until it passes
\* finished.  Without occurrences it is at the zero time, which is never after
\* finished, and does not end.
Count ==
  /\ At("ran", "computing")
  /\ Due # {}
  /\ skipped' = skipped + Cardinality(Occurrences(next + 1, clock))
  /\ UNCHANGED <<next, runs>>
  /\ LoopOnly

\* The time is read again, later than the end of the run that was counted.
Compute ==
  /\ At("computing", "waiting")
  /\ next' = NextDue(clock)
  /\ UNCHANGED <<runs, skipped>>
  /\ LoopOnly

\* The timer and the end of the context: select picks either when both are
\* ready.
TimerFires ==
  /\ At("waiting", "due")
  /\ clock >= next
  /\ UNCHANGED <<next, runs, skipped>>
  /\ LoopOnly

LoopExits ==
  /\ At("waiting", "exited")
  /\ ctx
  /\ UNCHANGED <<next, runs, skipped>>
  /\ LoopOnly

Loop == Execute \/ Pass \/ RunReturns \/ Count \/ Compute \/ TimerFires \/ LoopExits

-----------------------------------------------------------------------------
(* The goroutine of ListenAndServe.                                        *)

MainAt(from, to) == main = from /\ main' = to /\ UNCHANGED <<clock, ctx, looping, overlapped>>

\* server.Serve fails: ListenAndServe returns without waiting for the loop.
ServeFails ==
  /\ MainAt("serving", "returned")
  /\ err' = "serve"
  /\ UNCHANGED grace

StopServing ==
  /\ MainAt("serving", "shutting")
  /\ ctx
  /\ UNCHANGED <<grace, err>>

GraceEnds ==
  /\ main \in {"shutting", "joining"}
  /\ ~grace
  /\ grace' = TRUE
  /\ UNCHANGED <<clock, ctx, main, err, looping, overlapped>>

\* Mutant: ListenAndServe returns once the HTTP server is down.
ShutdownOnly ==
  /\ MainAt("shutting", "returned")
  /\ err' \in {"nil"} \cup (IF grace THEN {"deadline"} ELSE {})
  /\ UNCHANGED grace

\* server.Shutdown returns when no connection is active, or at the deadline.
Shutdown ==
  /\ MainAt("shutting", "joining")
  /\ err' \in {"nil"} \cup (IF grace THEN {"deadline"} ELSE {})
  /\ UNCHANGED grace

\* Mutant: the loop is waited for without a deadline.
JoinLoop ==
  /\ MainAt("joining", "returned")
  /\ loop = "exited"
  /\ UNCHANGED <<grace, err>>

\* The loop is waited for until the same deadline.
Join ==
  /\ MainAt("joining", "returned")
  /\ \/ loop = "exited" /\ UNCHANGED err
     \/ grace /\ err' = "deadline"
  /\ UNCHANGED grace

Serve == ServeFails \/ StopServing \/ GraceEnds \/ Shutdown \/ Join

Next == Tick \/ Signal \/ Loop \/ Serve

Spec == Init /\ [][Next]_vars

\* The goroutine of ListenAndServe is scheduled, an HTTP server without new
\* connections shuts down or meets the deadline, and ten seconds pass.  The
\* workflow may hang.
FairSpec ==
  /\ Spec
  /\ WF_vars(StopServing) /\ WF_vars(GraceEnds) /\ WF_vars(Shutdown) /\ WF_vars(Join)

-----------------------------------------------------------------------------
(* Properties.                                                             *)

\* No occurrence is served twice: those that were run and those that were
\* counted as skipped are together no more than those that have passed
\* (skippedOccurrences counts from the occurrence that was run, exclusive).
OncePerOccurrence == runs + skipped <= Cardinality(Occurrences(2, clock))

\* Every occurrence that came due while a run was active has been counted by
\* the time the loop waits again; not so what the run on start overlapped.
OverlapsCounted ==
  loop = "waiting" => Cardinality(overlapped) <= skipped

\* A clean return leaves no run behind: unless ListenAndServe reports an error,
\* the loop has ended before the process exits.
CleanReturn == main = "returned" /\ err = "nil" => loop = "exited"

\* A process that was told to stop does stop, even with a run that hangs.
Stops == ctx ~> main = "returned"
=============================================================================
