------------------------------ MODULE Commands ------------------------------
(***************************************************************************)
(* The commands plan, apply and run (internal/cli/root.go) as processes    *)
(* that share a configuration file and a plan file: how a plan is written, *)
(* read back, accepted or refused, what an apply reports, and the exit     *)
(* code.  Processes can be killed and the machine can fail.                *)
(*                                                                         *)
(* Planning yields any plan or error, and applying any of the results      *)
(* module Settlement allows, reduced to what was deleted and what failed.  *)
(***************************************************************************)
EXTENDS Naturals

CONSTANTS
  Procs,        \* the processes
  Mutating,     \* the configurations with apply: true
  Configs,      \* the versions of the configuration file
  TTL,          \* plan lifetime, one hour
  MaxTime,      \* bound: the last instant of the clock
  None          \* no file, no plan

ASSUME CommandsAssumption ==
  /\ Mutating \subseteq Configs
  /\ TTL \in Nat
  /\ MaxTime \in Nat
  /\ None \notin Nat

VARIABLES
  command,      \* the command each process was started with
  now,          \* the clock
  config,       \* the configuration file
  path,         \* the plan file
  prior,        \* what the plan file is if the last rename did not last
  temp,         \* the temporary file of each process
  pc,           \* where each process is
  loaded,       \* the configuration each process has loaded
  proposal,     \* the plan each process has made or read
  result,       \* the result of its apply
  err,          \* the error the command is about to return
  code,         \* its exit code
  hooks,        \* how many webhooks it has sent
  accepted      \* history: the processes whose plan was accepted

disk    == <<path, prior, temp>>
memory  == <<loaded, proposal, result, err>>
outside == <<code, hooks, accepted>>
vars    == <<command, now, config, disk, pc, memory, outside>>

Plans   == [config : Configs, made : 0..MaxTime]
Files   == [plan : Plans, synced : BOOLEAN, whole : BOOLEAN]
Results == [deleted : BOOLEAN, failed : BOOLEAN]
Errors  == {"nil", "config", "runtime", "safety", "stale", "partial"}

NoResult == [deleted |-> FALSE, failed |-> FALSE]

TypeOK ==
  /\ command \in [Procs -> {"plan", "apply", "run"}]
  /\ now \in 0..MaxTime
  /\ config \in Configs
  /\ path \in Files \cup {None}
  /\ prior \in Files \cup {None}
  /\ temp \in [Procs -> Files \cup {None}]
  /\ pc \in [Procs -> {"load", "plan", "create", "write", "sync", "rename", "print",
                       "read", "apply", "applying", "report", "hook", "exit",
                       "ended", "killed"}]
  /\ loaded \in [Procs -> Configs \cup {None}]
  /\ proposal \in [Procs -> Plans \cup {None}]
  /\ result \in [Procs -> Results]
  /\ err \in [Procs -> Errors]
  /\ code \in [Procs -> {0, 1, 2, 4, 5, 6} \cup {None}]
  /\ hooks \in [Procs -> 0..1]
  /\ accepted \subseteq Procs

Init ==
  /\ command \in [Procs -> {"plan", "apply", "run"}]
  /\ now = 0
  /\ config \in Configs
  /\ path = None
  /\ prior = None
  /\ temp = [p \in Procs |-> None]
  /\ pc = [p \in Procs |-> "load"]
  /\ loaded = [p \in Procs |-> None]
  /\ proposal = [p \in Procs |-> None]
  /\ result = [p \in Procs |-> NoResult]
  /\ err = [p \in Procs |-> "nil"]
  /\ code = [p \in Procs |-> None]
  /\ hooks = [p \in Procs |-> 0]
  /\ accepted = {}

-----------------------------------------------------------------------------
(* The surroundings (external).                                            *)

Tick ==
  /\ now < MaxTime
  /\ now' = now + 1
  /\ UNCHANGED <<command, config, disk, pc, memory, outside>>

\* Someone edits the configuration file.
Edit(c) ==
  /\ config # c
  /\ config' = c
  /\ UNCHANGED <<command, now, disk, pc, memory, outside>>

Running(p) == pc[p] \notin {"ended", "killed"}

Kill(p) ==
  /\ Running(p)
  /\ pc' = [pc EXCEPT ![p] = "killed"]
  /\ UNCHANGED <<command, now, config, disk, memory, outside>>

\* The machine fails: every process ends, the last rename may be undone, and a
\* file that was not synced may be torn.
PowerFail ==
  /\ \E p \in Procs : Running(p)
  /\ pc' = [p \in Procs |-> IF Running(p) THEN "killed" ELSE pc[p]]
  /\ \E f \in {path, prior} :
       path' = IF f # None /\ ~f.synced THEN [f EXCEPT !.whole = FALSE] ELSE f
  /\ prior' = path'
  /\ UNCHANGED <<command, now, config, temp, memory, outside>>

-----------------------------------------------------------------------------
(* Loading, planning and writing the plan.                                 *)

Goto(p, from, to) == pc[p] = from /\ pc' = [pc EXCEPT ![p] = to]

\* The command is about to return the error e.
Throw(p, from, e) == Goto(p, from, "exit") /\ err' = [err EXCEPT ![p] = e]

World == UNCHANGED <<command, now, config>>

Load(p) ==
  /\ Goto(p, "load", IF command[p] = "apply" THEN "read" ELSE "plan")
  /\ loaded' = [loaded EXCEPT ![p] = config]
  /\ World /\ UNCHANGED <<disk, proposal, result, err, outside>>

\* The configuration does not load; a provider or a safety limit fails.
LoadFails(p) ==
  /\ Throw(p, "load", "config")
  /\ World /\ UNCHANGED <<disk, loaded, proposal, result, outside>>

PlanFails(p) ==
  /\ \E e \in {"runtime", "safety"} : Throw(p, "plan", e)
  /\ World /\ UNCHANGED <<disk, loaded, proposal, result, outside>>

\* The plan carries the fingerprint of the loaded bytes and the time planning
\* began.  plan writes it if --out is given, run applies it if the
\* configuration says so.
Plan(p) ==
  /\ \/ command[p] = "plan" /\ \E to \in {"create", "print"} : Goto(p, "plan", to)
     \/ command[p] = "run" /\ Goto(p, "plan", IF loaded[p] \in Mutating THEN "apply" ELSE "print")
  /\ \E t \in 0..now :
       proposal' = [proposal EXCEPT ![p] = [config |-> loaded[p], made |-> t]]
  /\ World /\ UNCHANGED <<disk, loaded, result, err, outside>>

CreateTemp(p) ==
  /\ Goto(p, "create", "write")
  /\ temp' = [temp EXCEPT ![p] = [plan |-> proposal[p], synced |-> FALSE, whole |-> FALSE]]
  /\ World /\ UNCHANGED <<path, prior, memory, outside>>

\* Mutant: the file is renamed without a sync.
WriteTempOnly(p) ==
  /\ Goto(p, "write", "rename")
  /\ temp' = [temp EXCEPT ![p].whole = TRUE]
  /\ World /\ UNCHANGED <<path, prior, memory, outside>>

WriteTemp(p) ==
  /\ Goto(p, "write", "sync")
  /\ temp' = [temp EXCEPT ![p].whole = TRUE]
  /\ World /\ UNCHANGED <<path, prior, memory, outside>>

Sync(p) ==
  /\ Goto(p, "sync", "rename")
  /\ temp' = [temp EXCEPT ![p].synced = TRUE]
  /\ World /\ UNCHANGED <<path, prior, memory, outside>>

Rename(p) ==
  /\ Goto(p, "rename", "print")
  /\ prior' = path
  /\ path' = temp[p]
  /\ temp' = [temp EXCEPT ![p] = None]
  /\ World /\ UNCHANGED <<memory, outside>>

\* Any of these steps fails; the deferred os.Remove runs.
WriteFails(p) ==
  /\ \E s \in {"create", "write", "sync", "rename"} : Throw(p, s, "runtime")
  /\ temp' = [temp EXCEPT ![p] = None]
  /\ World /\ UNCHANGED <<path, prior, loaded, proposal, result, outside>>

\* renderPlan: stdout may be broken, or --output unknown.
Render(p) ==
  /\ \E e \in {"nil", "runtime", "config"} : Throw(p, "print", e)
  /\ World /\ UNCHANGED <<disk, loaded, proposal, result, outside>>

-----------------------------------------------------------------------------
(* Applying.                                                               *)

Readable == path # None /\ path.whole

\* A plan that is missing or does not decode is an error.
Read(p) ==
  /\ \/ Readable /\ Goto(p, "read", "apply")
        /\ proposal' = [proposal EXCEPT ![p] = path.plan] /\ UNCHANGED err
     \/ ~Readable /\ Throw(p, "read", "config") /\ UNCHANGED proposal
  /\ World /\ UNCHANGED <<disk, loaded, result, outside>>

Stale(p) ==
  \/ proposal[p].config # loaded[p]
  \/ now > proposal[p].made + TTL

Apply(p) ==
  /\ \/ Goto(p, "apply", "report") /\ Stale(p)
        /\ err' = [err EXCEPT ![p] = "stale"] /\ UNCHANGED accepted
     \/ Goto(p, "apply", "applying") /\ ~Stale(p)
        /\ accepted' = accepted \cup {p} /\ UNCHANGED err
  /\ World /\ UNCHANGED <<disk, loaded, proposal, result, code, hooks>>

\* Mutant: failed deletions do not make an error.
SettleQuietly(p) ==
  /\ Goto(p, "applying", "report")
  /\ \E r \in Results : result' = [result EXCEPT ![p] = r]
  /\ World /\ UNCHANGED <<disk, loaded, proposal, err, outside>>

Settle(p) ==
  /\ Goto(p, "applying", "report")
  /\ \E r \in Results : /\ result' = [result EXCEPT ![p] = r]
                        /\ err' = [err EXCEPT ![p] = IF r.failed THEN "partial" ELSE "nil"]
  /\ World /\ UNCHANGED <<disk, loaded, proposal, outside>>

\* renderResult: an error of its own replaces the error of the apply and
\* leaves before the webhook.
Report(p) ==
  /\ \/ Goto(p, "report", "hook") /\ UNCHANGED err
     \/ \E e \in {"runtime", "config"} : Throw(p, "report", e)
  /\ World /\ UNCHANGED <<disk, loaded, proposal, result, outside>>

\* The webhook, if something was deleted; its errors are only logged.
Hook(p) ==
  /\ Goto(p, "hook", "exit")
  /\ hooks' = [hooks EXCEPT ![p] = IF result[p].deleted THEN @ + 1 ELSE @]
  /\ World /\ UNCHANGED <<disk, memory, code, accepted>>

ExitCode(e) == CASE e = "nil"     -> 0
                 [] e = "config"  -> 2
                 [] e = "safety"  -> 4
                 [] e = "stale"   -> 5
                 [] e = "partial" -> 6
                 [] OTHER         -> 1

Exit(p) ==
  /\ Goto(p, "exit", "ended")
  /\ code' = [code EXCEPT ![p] = ExitCode(err[p])]
  /\ World /\ UNCHANGED <<disk, memory, hooks, accepted>>

-----------------------------------------------------------------------------

Step(p) ==
  \/ Load(p) \/ LoadFails(p) \/ PlanFails(p) \/ Plan(p)
  \/ CreateTemp(p) \/ WriteTemp(p) \/ Sync(p) \/ Rename(p) \/ WriteFails(p) \/ Render(p)
  \/ Read(p) \/ Apply(p) \/ Settle(p) \/ Report(p) \/ Hook(p) \/ Exit(p)

Next ==
  \/ \E p \in Procs : Step(p) \/ Kill(p)
  \/ Tick
  \/ \E c \in Configs : Edit(c)
  \/ PowerFail

Spec == Init /\ [][Next]_vars

-----------------------------------------------------------------------------
(* Properties.                                                             *)

\* Whoever looks at the plan file, after whatever crash, finds none or a whole
\* one: the old plan or the new one (writeJSONAtomic syncs, then renames).
WholePlan == path # None => path.whole

\* What an exit code says is true: 4 and 5 mean that nothing was touched, 6
\* that a deletion failed, and 0 that none did.
CodesAreTrue ==
  \A p \in Procs :
    /\ code[p] \in {4, 5} => p \notin accepted
    /\ code[p] = 6 => result[p].failed
    /\ code[p] = 0 => ~result[p].failed
=============================================================================
