--------------------------- MODULE CommandsProofs ---------------------------
(***************************************************************************)
(* Theorems about Commands for every set of processes, every configuration *)
(* and every plan lifetime: the plan file is whole after any crash, exit   *)
(* codes are true, and there is at most one webhook.  The inductive        *)
(* invariant is Inv.                                                       *)
(***************************************************************************)
EXTENDS Commands, TLAPS

Early  == {"load", "plan", "create", "write", "sync", "rename", "print", "read", "apply"}
Before == Early \cup {"applying"}
Places == Before \cup {"report", "hook", "exit", "ended", "killed"}

\* What is renamed has been written and synced, so that what a crash may bring
\* back is whole too.
Durable(f) == f # None => f.whole /\ f.synced

DiskOK ==
  /\ Durable(path)
  /\ Durable(prior)
  /\ \A p \in Procs :
       /\ pc[p] \in {"write", "sync", "rename"} => temp[p] \in Files
       /\ pc[p] \in {"sync", "rename"} => temp[p].whole
       /\ pc[p] = "rename" => temp[p].synced

\* A process has a configuration before it plans or reads, and a plan before it
\* writes or applies one.
Prepared ==
  \A p \in Procs :
    /\ pc[p] = "plan" => loaded[p] \in Configs
    /\ pc[p] \in {"create", "apply"} => proposal[p] \in Plans

\* Nothing happens before the apply.
Untouched ==
  \A p \in Procs :
    /\ pc[p] \in Early => p \notin accepted
    /\ pc[p] \in Before => result[p] = NoResult /\ err[p] = "nil"

\* What an error says of the apply.
ErrorsTrue ==
  \A p \in Procs :
    /\ err[p] = "nil" => ~result[p].failed
    /\ err[p] = "partial" => result[p].failed
    /\ err[p] \in {"safety", "stale"} => p \notin accepted

\* The exit code is that of the error.
Coded ==
  \A p \in Procs : code[p] = IF pc[p] = "ended" THEN ExitCode(err[p]) ELSE None

\* At most one webhook, sent at the end of an apply that deleted something.
HookedOnce ==
  \A p \in Procs : hooks[p] # 0 => /\ hooks[p] = 1
                                   /\ result[p].deleted
                                   /\ pc[p] \in {"exit", "ended", "killed"}

Inv ==
  /\ TypeOK /\ DiskOK /\ Prepared /\ Untouched
  /\ ErrorsTrue /\ Coded /\ HookedOnce

-----------------------------------------------------------------------------
(* The inductive invariant.                                                *)

\* A file that is written or synced is still a file.
LEMMA FileKept ==
  ASSUME NEW f \in Files
  PROVE  /\ [plan |-> f.plan, synced |-> f.synced, whole |-> TRUE] \in Files
         /\ [plan |-> f.plan, synced |-> TRUE, whole |-> f.whole] \in Files
<1>1. f.plan \in Plans /\ f.synced \in BOOLEAN /\ f.whole \in BOOLEAN
  BY DEF Files
<1>2. QED BY <1>1 DEF Files

LEMMA SyncedFile ==
  ASSUME NEW f \in Files, NEW t, t = [f EXCEPT !.synced = TRUE]
  PROVE  t = [plan |-> f.plan, synced |-> TRUE, whole |-> f.whole]
<1>1. t \in Files /\ t.plan = f.plan /\ t.synced /\ t.whole = f.whole
  BY DEF Files
<1>2. QED BY <1>1 DEF Files

LEMMA InitInv == Init => Inv
<1> SUFFICES ASSUME Init PROVE Inv
  OBVIOUS
<1> USE CommandsAssumption
<1>1. TypeOK
  <2>1. result \in [Procs -> Results]
    BY DEF Init, NoResult, Results
  <2>2. QED BY <2>1 DEF Init, TypeOK, Errors
<1>2. DiskOK /\ Prepared /\ Untouched
  BY DEF Init, DiskOK, Durable, Prepared, Untouched, Early, Before
<1>3. ErrorsTrue /\ Coded /\ HookedOnce
  BY DEF Init, NoResult, ErrorsTrue, Coded, HookedOnce
<1>4. QED BY <1>1, <1>2, <1>3 DEF Inv

LEMMA LoadInv ==
  ASSUME Inv, NEW p \in Procs, Load(p)
  PROVE  Inv'
<1> USE CommandsAssumption DEF Inv, Load, Goto, Throw, World, disk, memory, outside
<1>1. TypeOK'
  BY DEF TypeOK, Errors, Results, NoResult, Files, Plans, Prepared, DiskOK, HookedOnce
<1>2. DiskOK'
  BY DEF TypeOK, DiskOK, Durable, Files
<1>3. Prepared' /\ Untouched'
  BY DEF TypeOK, Prepared, Untouched, Early, Before, Plans
<1>4. ErrorsTrue'
  BY DEF TypeOK, Untouched, Early, Before, NoResult, ErrorsTrue, Prepared, Plans, Results
<1>5. Coded' /\ HookedOnce'
  BY DEF TypeOK, Untouched, Early, Before, NoResult, Coded, HookedOnce, ExitCode
<1>6. QED BY <1>1, <1>2, <1>3, <1>4, <1>5

LEMMA LoadFailsInv ==
  ASSUME Inv, NEW p \in Procs, LoadFails(p)
  PROVE  Inv'
<1> USE CommandsAssumption DEF Inv, LoadFails, Goto, Throw, World, disk, memory, outside
<1>1. TypeOK'
  BY DEF TypeOK, Errors, Results, NoResult, Files, Plans, Prepared, DiskOK, HookedOnce
<1>2. DiskOK'
  BY DEF TypeOK, DiskOK, Durable, Files
<1>3. Prepared' /\ Untouched'
  BY DEF TypeOK, Prepared, Untouched, Early, Before, Plans
<1>4. ErrorsTrue'
  BY DEF TypeOK, Untouched, Early, Before, NoResult, ErrorsTrue, Prepared, Plans, Results
<1>5. Coded' /\ HookedOnce'
  BY DEF TypeOK, Untouched, Early, Before, NoResult, Coded, HookedOnce, ExitCode
<1>6. QED BY <1>1, <1>2, <1>3, <1>4, <1>5

LEMMA PlanFailsInv ==
  ASSUME Inv, NEW p \in Procs, PlanFails(p)
  PROVE  Inv'
<1> USE CommandsAssumption DEF Inv, PlanFails, Goto, Throw, World, disk, memory, outside
<1>1. TypeOK'
  BY DEF TypeOK, Errors, Results, NoResult, Files, Plans, Prepared, DiskOK, HookedOnce
<1>2. DiskOK'
  BY DEF TypeOK, DiskOK, Durable, Files
<1>3. Prepared' /\ Untouched'
  BY DEF TypeOK, Prepared, Untouched, Early, Before, Plans
<1>4. ErrorsTrue'
  BY DEF TypeOK, Untouched, Early, Before, NoResult, ErrorsTrue, Prepared, Plans, Results
<1>5. Coded' /\ HookedOnce'
  BY DEF TypeOK, Untouched, Early, Before, NoResult, Coded, HookedOnce, ExitCode
<1>6. QED BY <1>1, <1>2, <1>3, <1>4, <1>5

LEMMA PlanInv ==
  ASSUME Inv, NEW p \in Procs, Plan(p)
  PROVE  Inv'
<1> USE CommandsAssumption DEF Inv, Plan, Goto, Throw, World, disk, memory, outside
<1>1. TypeOK'
  <2>1. UNCHANGED <<command, now, config, disk, loaded, result, err, outside>>
    OBVIOUS
  <2>2. pc' \in [Procs -> Places]
    BY DEF TypeOK, Places, Before, Early
  <2>3. PICK t \in 0..now :
          proposal' = [proposal EXCEPT ![p] = [config |-> loaded[p], made |-> t]]
    OBVIOUS
  <2>4. [config |-> loaded[p], made |-> t] \in Plans
    BY DEF TypeOK, Prepared, Plans
  <2>5. proposal' \in [Procs -> Plans \cup {None}]
    BY <2>3, <2>4 DEF TypeOK
  <2> HIDE DEF Plan
  <2>6. QED BY <2>1, <2>2, <2>5 DEF TypeOK, Places, Before, Early
<1>2. DiskOK'
  BY DEF TypeOK, DiskOK, Durable, Files
<1>3. Prepared' /\ Untouched'
  BY DEF TypeOK, Prepared, Untouched, Early, Before, Plans
<1>4. ErrorsTrue'
  BY DEF TypeOK, Untouched, Early, Before, NoResult, ErrorsTrue, Prepared, Plans, Results
<1>5. Coded' /\ HookedOnce'
  BY DEF TypeOK, Untouched, Early, Before, NoResult, Coded, HookedOnce, ExitCode
<1>6. QED BY <1>1, <1>2, <1>3, <1>4, <1>5

LEMMA CreateTempInv ==
  ASSUME Inv, NEW p \in Procs, CreateTemp(p)
  PROVE  Inv'
<1> USE CommandsAssumption DEF Inv, CreateTemp, Goto, Throw, World, disk, memory, outside
<1>1. TypeOK'
  BY DEF TypeOK, Errors, Results, NoResult, Files, Plans, Prepared, DiskOK, HookedOnce
<1>2. DiskOK'
  <2>1. temp'[p] \in Files
    BY DEF TypeOK, Prepared, Files, Plans
  <2>2. \A q \in Procs \ {p} : temp'[q] = temp[q] /\ pc'[q] = pc[q]
    BY DEF TypeOK
  <2>3. pc'[p] = "write" /\ path' = path /\ prior' = prior
    BY DEF TypeOK
  <2>4. QED BY <2>1, <2>2, <2>3 DEF DiskOK, Durable
<1>3. Prepared' /\ Untouched'
  BY DEF TypeOK, Prepared, Untouched, Early, Before, Plans
<1>4. ErrorsTrue'
  BY DEF TypeOK, Untouched, Early, Before, NoResult, ErrorsTrue, Prepared, Plans, Results
<1>5. Coded' /\ HookedOnce'
  BY DEF TypeOK, Untouched, Early, Before, NoResult, Coded, HookedOnce, ExitCode
<1>6. QED BY <1>1, <1>2, <1>3, <1>4, <1>5

LEMMA WriteTempInv ==
  ASSUME Inv, NEW p \in Procs, WriteTemp(p)
  PROVE  Inv'
<1> USE CommandsAssumption DEF Inv, WriteTemp, Goto, Throw, World, disk, memory, outside
<1>1. /\ temp'[p] = [plan |-> temp[p].plan, synced |-> temp[p].synced, whole |-> TRUE]
      /\ temp[p] \in Files
      /\ \A q \in Procs \ {p} : temp'[q] = temp[q] /\ pc'[q] = pc[q]
      /\ pc'[p] = "sync" /\ path' = path /\ prior' = prior
  BY DEF TypeOK, DiskOK, Files
<1>2. temp'[p] \in Files
  BY <1>1, FileKept
<1>3. TypeOK'
  <2>1. temp' \in [Procs -> Files \cup {None}]
    BY <1>1, <1>2 DEF TypeOK
  <2>2. QED BY <2>1 DEF TypeOK
<1>4. DiskOK'
  <2>1. temp'[p].whole
    BY <1>1 DEF Files, DiskOK
  <2>2. QED BY <1>1, <1>2, <2>1 DEF DiskOK, Durable
<1>5. Prepared' /\ Untouched'
  BY DEF TypeOK, Prepared, Untouched, Early, Before, Plans
<1>6. ErrorsTrue'
  BY DEF TypeOK, Untouched, Early, Before, NoResult, ErrorsTrue, Prepared, Plans, Results
<1>7. Coded' /\ HookedOnce'
  BY DEF TypeOK, Untouched, Early, Before, NoResult, Coded, HookedOnce, ExitCode
<1>8. QED BY <1>3, <1>4, <1>5, <1>6, <1>7

LEMMA SyncInv ==
  ASSUME Inv, NEW p \in Procs, Sync(p)
  PROVE  Inv'
<1> USE CommandsAssumption DEF Inv, Sync, Goto, Throw, World, disk, memory, outside
<1>1. /\ temp'[p] = [plan |-> temp[p].plan, synced |-> TRUE, whole |-> temp[p].whole]
      /\ temp[p] \in Files
      /\ \A q \in Procs \ {p} : temp'[q] = temp[q] /\ pc'[q] = pc[q]
      /\ pc'[p] = "rename" /\ path' = path /\ prior' = prior
  <2>1. pc[p] = "sync" /\ temp[p] \in Files
    BY DEF DiskOK
  <2>2. temp'[p] = [temp[p] EXCEPT !.synced = TRUE] /\ pc'[p] = "rename"
    BY DEF TypeOK
  <2>3. temp'[p] = [plan |-> temp[p].plan, synced |-> TRUE, whole |-> temp[p].whole]
    BY <2>1, <2>2, SyncedFile
  <2>4. \A q \in Procs \ {p} : temp'[q] = temp[q] /\ pc'[q] = pc[q]
    BY DEF TypeOK
  <2>5. QED BY <2>1, <2>2, <2>3, <2>4
<1>2. temp'[p] \in Files
  BY <1>1, FileKept
<1>3. TypeOK'
  <2>1. temp' \in [Procs -> Files \cup {None}]
    BY <1>1, <1>2 DEF TypeOK
  <2>2. QED BY <2>1 DEF TypeOK
<1>4. DiskOK'
  <2>1. temp'[p].whole /\ temp'[p].synced
    BY <1>1 DEF Files, DiskOK
  <2>2. QED BY <1>1, <1>2, <2>1 DEF DiskOK, Durable
<1>5. Prepared' /\ Untouched'
  BY DEF TypeOK, Prepared, Untouched, Early, Before, Plans
<1>6. ErrorsTrue'
  BY DEF TypeOK, Untouched, Early, Before, NoResult, ErrorsTrue, Prepared, Plans, Results
<1>7. Coded' /\ HookedOnce'
  BY DEF TypeOK, Untouched, Early, Before, NoResult, Coded, HookedOnce, ExitCode
<1>8. QED BY <1>3, <1>4, <1>5, <1>6, <1>7

LEMMA RenameInv ==
  ASSUME Inv, NEW p \in Procs, Rename(p)
  PROVE  Inv'
<1> USE CommandsAssumption DEF Inv, Rename, Goto, Throw, World, disk, memory, outside
<1>1. TypeOK'
  BY DEF TypeOK, Errors, Results, NoResult, Files, Plans, Prepared, DiskOK, HookedOnce
<1>2. DiskOK'
  BY DEF TypeOK, DiskOK, Durable, Files
<1>3. Prepared' /\ Untouched'
  BY DEF TypeOK, Prepared, Untouched, Early, Before, Plans
<1>4. ErrorsTrue'
  BY DEF TypeOK, Untouched, Early, Before, NoResult, ErrorsTrue, Prepared, Plans, Results
<1>5. Coded' /\ HookedOnce'
  BY DEF TypeOK, Untouched, Early, Before, NoResult, Coded, HookedOnce, ExitCode
<1>6. QED BY <1>1, <1>2, <1>3, <1>4, <1>5

LEMMA WriteFailsInv ==
  ASSUME Inv, NEW p \in Procs, WriteFails(p)
  PROVE  Inv'
<1> USE CommandsAssumption DEF Inv, WriteFails, Goto, Throw, World, disk, memory, outside
<1>1. TypeOK'
  BY DEF TypeOK, Errors, Results, NoResult, Files, Plans, Prepared, DiskOK, HookedOnce
<1>2. DiskOK'
  BY DEF TypeOK, DiskOK, Durable, Files
<1>3. Prepared' /\ Untouched'
  BY DEF TypeOK, Prepared, Untouched, Early, Before, Plans
<1>4. ErrorsTrue'
  BY DEF TypeOK, Untouched, Early, Before, NoResult, ErrorsTrue, Prepared, Plans, Results
<1>5. Coded' /\ HookedOnce'
  BY DEF TypeOK, Untouched, Early, Before, NoResult, Coded, HookedOnce, ExitCode
<1>6. QED BY <1>1, <1>2, <1>3, <1>4, <1>5

LEMMA RenderInv ==
  ASSUME Inv, NEW p \in Procs, Render(p)
  PROVE  Inv'
<1> USE CommandsAssumption DEF Inv, Render, Goto, Throw, World, disk, memory, outside
<1>1. TypeOK'
  BY DEF TypeOK, Errors, Results, NoResult, Files, Plans, Prepared, DiskOK, HookedOnce
<1>2. DiskOK'
  BY DEF TypeOK, DiskOK, Durable, Files
<1>3. Prepared' /\ Untouched'
  BY DEF TypeOK, Prepared, Untouched, Early, Before, Plans
<1>4. ErrorsTrue'
  BY DEF TypeOK, Untouched, Early, Before, NoResult, ErrorsTrue, Prepared, Plans, Results
<1>5. Coded' /\ HookedOnce'
  BY DEF TypeOK, Untouched, Early, Before, NoResult, Coded, HookedOnce, ExitCode
<1>6. QED BY <1>1, <1>2, <1>3, <1>4, <1>5

LEMMA ReadInv ==
  ASSUME Inv, NEW p \in Procs, Read(p)
  PROVE  Inv'
<1> USE CommandsAssumption DEF Inv, Read, Goto, Throw, World, disk, memory, outside, Readable
<1>1. TypeOK'
  <2>1. UNCHANGED <<command, now, config, disk, loaded, result, outside>>
    OBVIOUS
  <2>2. pc' \in [Procs -> Places]
    BY DEF TypeOK, Places, Before, Early
  <2>3. Readable => path.plan \in Plans
    BY DEF TypeOK, Files
  <2>4. proposal' \in [Procs -> Plans \cup {None}]
    BY <2>3 DEF TypeOK
  <2>5. err' \in [Procs -> Errors]
    BY DEF TypeOK, Errors
  <2> HIDE DEF Read
  <2>6. QED BY <2>1, <2>2, <2>4, <2>5 DEF TypeOK, Places, Before, Early
<1>2. DiskOK'
  BY DEF TypeOK, DiskOK, Durable, Files
<1>3. Prepared' /\ Untouched'
  <2>1. path # None => path.plan \in Plans
    BY DEF TypeOK, Files
  <2>2. CASE Readable
    BY <2>1, <2>2 DEF TypeOK, Prepared, Untouched, Early, Before
  <2>3. CASE ~Readable
    <3>1. /\ \A q \in Procs : pc'[q] = IF q = p THEN "exit" ELSE pc[q]
          /\ \A q \in Procs \ {p} : err'[q] = err[q]
          /\ UNCHANGED <<loaded, proposal, result, accepted>>
      BY <2>3 DEF TypeOK
    <3> HIDE DEF Read, Inv
    <3>2. Prepared /\ Untouched
      BY DEF Inv
    <3>3. QED BY <3>1, <3>2 DEF Prepared, Untouched, Early, Before
  <2>4. QED BY <2>2, <2>3
<1>4. ErrorsTrue'
  BY DEF TypeOK, Untouched, Early, Before, NoResult, ErrorsTrue
<1>5. Coded' /\ HookedOnce'
  BY DEF TypeOK, Untouched, Early, Before, NoResult, Coded, HookedOnce, ExitCode
<1>6. QED BY <1>1, <1>2, <1>3, <1>4, <1>5

LEMMA ApplyInv ==
  ASSUME Inv, NEW p \in Procs, Apply(p)
  PROVE  Inv'
<1> USE CommandsAssumption DEF Inv, Apply, Goto, Throw, World, disk, memory, outside, Stale
<1>1. TypeOK'
  <2>1. err' \in [Procs -> Errors]
    BY DEF TypeOK, Errors
  <2>2. accepted' \subseteq Procs
    BY DEF TypeOK
  <2>3. QED BY <2>1, <2>2 DEF TypeOK
<1>2. DiskOK'
  BY DEF TypeOK, DiskOK, Durable, Files
<1>3. Prepared' /\ Untouched'
  BY DEF TypeOK, Prepared, Untouched, Early, Before, Plans
<1>4. ErrorsTrue'
  BY DEF TypeOK, Untouched, Early, Before, NoResult, ErrorsTrue, Prepared, Plans, Results
<1>5. Coded' /\ HookedOnce'
  BY DEF TypeOK, Untouched, Early, Before, NoResult, Coded, HookedOnce, ExitCode
<1>6. QED BY <1>1, <1>2, <1>3, <1>4, <1>5

LEMMA SettleInv ==
  ASSUME Inv, NEW p \in Procs, Settle(p)
  PROVE  Inv'
<1> USE CommandsAssumption DEF Inv, Settle, Goto, Throw, World, disk, memory, outside
<1>1. TypeOK'
  BY DEF TypeOK, Errors, Results, NoResult, Files, Plans, Prepared, DiskOK, HookedOnce
<1>2. DiskOK'
  BY DEF TypeOK, DiskOK, Durable, Files
<1>3. Prepared' /\ Untouched'
  BY DEF TypeOK, Prepared, Untouched, Early, Before, Plans
<1>4. ErrorsTrue'
  BY DEF TypeOK, Untouched, Early, Before, NoResult, ErrorsTrue, Prepared, Plans, Results
<1>5. Coded' /\ HookedOnce'
  BY DEF TypeOK, Untouched, Early, Before, NoResult, Coded, HookedOnce, ExitCode
<1>6. QED BY <1>1, <1>2, <1>3, <1>4, <1>5

LEMMA ReportInv ==
  ASSUME Inv, NEW p \in Procs, Report(p)
  PROVE  Inv'
<1> USE CommandsAssumption DEF Inv, Report, Goto, Throw, World, disk, memory, outside
<1>1. TypeOK'
  <2>1. err' \in [Procs -> Errors]
    BY DEF TypeOK, Errors
  <2>2. QED BY <2>1 DEF TypeOK
<1>2. DiskOK'
  BY DEF TypeOK, DiskOK, Durable, Files
<1>3. Prepared' /\ Untouched'
  BY DEF TypeOK, Prepared, Untouched, Early, Before, Plans
<1>4. ErrorsTrue'
  BY DEF TypeOK, Untouched, Early, Before, NoResult, ErrorsTrue, Prepared, Plans, Results
<1>5. Coded' /\ HookedOnce'
  BY DEF TypeOK, Untouched, Early, Before, NoResult, Coded, HookedOnce, ExitCode
<1>6. QED BY <1>1, <1>2, <1>3, <1>4, <1>5

LEMMA HookInv ==
  ASSUME Inv, NEW p \in Procs, Hook(p)
  PROVE  Inv'
<1> USE CommandsAssumption DEF Inv, Hook, Goto, Throw, World, disk, memory, outside
<1>1. TypeOK'
  BY DEF TypeOK, Errors, Results, NoResult, Files, Plans, Prepared, DiskOK, HookedOnce
<1>2. DiskOK'
  BY DEF TypeOK, DiskOK, Durable, Files
<1>3. Prepared' /\ Untouched'
  BY DEF TypeOK, Prepared, Untouched, Early, Before, Plans
<1>4. ErrorsTrue'
  BY DEF TypeOK, Untouched, Early, Before, NoResult, ErrorsTrue, Prepared, Plans, Results
<1>5. Coded' /\ HookedOnce'
  BY DEF TypeOK, Untouched, Early, Before, NoResult, Coded, HookedOnce, ExitCode
<1>6. QED BY <1>1, <1>2, <1>3, <1>4, <1>5

LEMMA ExitInv ==
  ASSUME Inv, NEW p \in Procs, Exit(p)
  PROVE  Inv'
<1> USE CommandsAssumption DEF Inv, Exit, Goto, Throw, World, disk, memory, outside
<1>1. TypeOK'
  <2>1. ExitCode(err[p]) \in {0, 1, 2, 4, 5, 6}
    BY DEF ExitCode
  <2>2. code' \in [Procs -> {0, 1, 2, 4, 5, 6} \cup {None}]
    BY <2>1 DEF TypeOK
  <2>3. QED BY <2>2 DEF TypeOK
<1>2. DiskOK'
  BY DEF TypeOK, DiskOK, Durable, Files
<1>3. Prepared' /\ Untouched'
  BY DEF TypeOK, Prepared, Untouched, Early, Before, Plans
<1>4. ErrorsTrue'
  BY DEF TypeOK, Untouched, Early, Before, NoResult, ErrorsTrue, Prepared, Plans, Results
<1>5. Coded' /\ HookedOnce'
  BY DEF TypeOK, Untouched, Early, Before, NoResult, Coded, HookedOnce, ExitCode
<1>6. QED BY <1>1, <1>2, <1>3, <1>4, <1>5

LEMMA KillInv ==
  ASSUME Inv, NEW p \in Procs, Kill(p)
  PROVE  Inv'
<1> USE CommandsAssumption DEF Inv, Kill, Running, Goto, Throw, World, disk, memory, outside
<1>1. TypeOK'
  BY DEF TypeOK, Errors, Results, NoResult, Files, Plans, Prepared, DiskOK, HookedOnce
<1>2. DiskOK'
  BY DEF TypeOK, DiskOK, Durable, Files
<1>3. Prepared' /\ Untouched'
  BY DEF TypeOK, Prepared, Untouched, Early, Before, Plans
<1>4. ErrorsTrue'
  BY DEF TypeOK, Untouched, Early, Before, NoResult, ErrorsTrue, Prepared, Plans, Results
<1>5. Coded' /\ HookedOnce'
  BY DEF TypeOK, Untouched, Early, Before, NoResult, Coded, HookedOnce, ExitCode
<1>6. QED BY <1>1, <1>2, <1>3, <1>4, <1>5

LEMMA EditInv ==
  ASSUME Inv, NEW c \in Configs, Edit(c)
  PROVE  Inv'
<1> USE CommandsAssumption DEF Inv, Edit, Goto, Throw, World, disk, memory, outside
<1>1. TypeOK'
  BY DEF TypeOK, Errors, Results, NoResult, Files, Plans, Prepared, DiskOK, HookedOnce
<1>2. DiskOK'
  BY DEF TypeOK, DiskOK, Durable, Files
<1>3. Prepared' /\ Untouched'
  BY DEF TypeOK, Prepared, Untouched, Early, Before, Plans
<1>4. ErrorsTrue'
  BY DEF TypeOK, Untouched, Early, Before, NoResult, ErrorsTrue, Prepared, Plans, Results
<1>5. Coded' /\ HookedOnce'
  BY DEF TypeOK, Untouched, Early, Before, NoResult, Coded, HookedOnce, ExitCode
<1>6. QED BY <1>1, <1>2, <1>3, <1>4, <1>5

LEMMA TickInv ==
  ASSUME Inv, Tick
  PROVE  Inv'
<1> USE CommandsAssumption DEF Inv, Tick, Goto, Throw, World, disk, memory, outside
<1>1. TypeOK'
  BY DEF TypeOK, Errors, Results, NoResult, Files, Plans, Prepared, DiskOK, HookedOnce
<1>2. DiskOK'
  BY DEF TypeOK, DiskOK, Durable, Files
<1>3. Prepared' /\ Untouched'
  BY DEF TypeOK, Prepared, Untouched, Early, Before, Plans
<1>4. ErrorsTrue'
  BY DEF TypeOK, Untouched, Early, Before, NoResult, ErrorsTrue, Prepared, Plans, Results
<1>5. Coded' /\ HookedOnce'
  BY DEF TypeOK, Untouched, Early, Before, NoResult, Coded, HookedOnce, ExitCode
<1>6. QED BY <1>1, <1>2, <1>3, <1>4, <1>5

LEMMA PowerFailInv ==
  ASSUME Inv, PowerFail
  PROVE  Inv'
<1> USE CommandsAssumption DEF Inv, PowerFail, Running, Goto, Throw, World, disk, memory, outside
<1>1. TypeOK'
  <2>1. path' \in {path, prior} /\ prior' = path'
    BY DEF DiskOK, Durable
  <2>2. pc' \in [Procs -> Places]
    BY DEF TypeOK, Places, Before, Early
  <2>3. UNCHANGED <<command, now, config, temp, memory, outside>>
    OBVIOUS
  <2> HIDE DEF PowerFail
  <2>4. QED BY <2>3, <2>1, <2>2 DEF TypeOK, Places, Before, Early
<1>2. DiskOK'
  BY DEF TypeOK, DiskOK, Durable, Files
<1>3. Prepared' /\ Untouched'
  BY DEF TypeOK, Prepared, Untouched, Early, Before, Plans
<1>4. ErrorsTrue'
  BY DEF TypeOK, Untouched, Early, Before, NoResult, ErrorsTrue, Prepared, Plans, Results
<1>5. Coded' /\ HookedOnce'
  BY DEF TypeOK, Untouched, Early, Before, NoResult, Coded, HookedOnce, ExitCode
<1>6. QED BY <1>1, <1>2, <1>3, <1>4, <1>5

LEMMA StutterInv ==
  ASSUME Inv, UNCHANGED vars
  PROVE  Inv'
<1> USE CommandsAssumption DEF Inv, vars, Goto, Throw, World, disk, memory, outside
<1>1. TypeOK'
  BY DEF TypeOK, Errors, Results, NoResult, Files, Plans, Prepared, DiskOK, HookedOnce
<1>2. DiskOK'
  BY DEF TypeOK, DiskOK, Durable, Files
<1>3. Prepared' /\ Untouched'
  BY DEF TypeOK, Prepared, Untouched, Early, Before, Plans
<1>4. ErrorsTrue'
  BY DEF TypeOK, Untouched, Early, Before, NoResult, ErrorsTrue, Prepared, Plans, Results
<1>5. Coded' /\ HookedOnce'
  BY DEF TypeOK, Untouched, Early, Before, NoResult, Coded, HookedOnce, ExitCode
<1>6. QED BY <1>1, <1>2, <1>3, <1>4, <1>5

LEMMA StepInv == Inv /\ [Next]_vars => Inv'
<1> SUFFICES ASSUME Inv, [Next]_vars PROVE Inv'
  OBVIOUS
<1>1. ASSUME NEW p \in Procs, Step(p) PROVE Inv'
  <2>1. CASE \/ Load(p) \/ LoadFails(p) \/ PlanFails(p) \/ Plan(p)
             \/ CreateTemp(p) \/ WriteTemp(p) \/ Sync(p)
    BY <2>1, LoadInv, LoadFailsInv, PlanFailsInv, PlanInv, CreateTempInv, WriteTempInv, SyncInv
  <2>2. CASE Rename(p) \/ WriteFails(p) \/ Render(p) \/ Read(p)
    BY <2>2, RenameInv, WriteFailsInv, RenderInv, ReadInv
  <2>3. CASE Apply(p) \/ Settle(p) \/ Report(p) \/ Hook(p) \/ Exit(p)
    BY <2>3, ApplyInv, SettleInv, ReportInv, HookInv, ExitInv
  <2>4. QED BY <1>1, <2>1, <2>2, <2>3 DEF Step
<1>2. QED BY <1>1, KillInv, EditInv, TickInv, PowerFailInv, StutterInv DEF Next

-----------------------------------------------------------------------------
(* Theorems.                                                               *)

\* Every reachable state of the processes and their files satisfies the
\* inductive invariant.
THEOREM Invariance == Spec => []Inv
<1>1. Init => Inv
  BY InitInv
<1>2. Inv /\ [Next]_vars => Inv'
  BY StepInv
<1>3. QED BY <1>1, <1>2, PTL DEF Spec

\* Type correctness.
THEOREM CommandsTypeCorrect == Spec => []TypeOK
<1>1. Inv => TypeOK
  BY DEF Inv
<1>2. QED BY <1>1, Invariance, PTL

\* Whatever crashes when, the plan file is whole or not there.
THEOREM PlanFileWhole == Spec => []WholePlan
<1>1. Inv => WholePlan
  BY DEF Inv, DiskOK, Durable, WholePlan
<1>2. QED BY <1>1, Invariance, PTL

\* What an exit code says of the deletions is true.
THEOREM ExitCodesTrue == Spec => []CodesAreTrue
<1>1. Inv => CodesAreTrue
  <2> SUFFICES ASSUME Inv, NEW p \in Procs, code[p] \in {0, 4, 5, 6}
               PROVE  /\ code[p] \in {4, 5} => p \notin accepted
                      /\ code[p] = 6 => result[p].failed
                      /\ code[p] = 0 => ~result[p].failed
    BY DEF CodesAreTrue
  <2>1. code[p] = ExitCode(err[p])
    BY CommandsAssumption DEF Inv, Coded
  <2>2. /\ code[p] = 0 => err[p] = "nil"
        /\ code[p] = 6 => err[p] = "partial"
        /\ code[p] \in {4, 5} => err[p] \in {"safety", "stale"}
    BY <2>1 DEF ExitCode
  <2>3. QED BY <2>2 DEF Inv, ErrorsTrue
<1>2. QED BY <1>1, Invariance, PTL

\* A command sends at most one webhook, after an apply that deleted something.
THEOREM WebhookOnce == Spec => []HookedOnce
<1>1. Inv => HookedOnce
  BY DEF Inv
<1>2. QED BY <1>1, Invariance, PTL

=============================================================================
