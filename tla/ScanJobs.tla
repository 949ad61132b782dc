------------------------------ MODULE ScanJobs ------------------------------
(***************************************************************************)
(* The job coordinator of the dashboard server: the flag in SCAN_STATE     *)
(* that admits one analysis at a time, the three workers that run on the   *)
(* event loop, the webhook handler that turns a whale signal into a job    *)
(* row and a task, and the rows of whale_signal_analysis_jobs.             *)
(*                                                                         *)
(* An asyncio task runs without interruption from one await to the next,   *)
(* so an action is such a segment together with the answer that ends the   *)
(* await.  A database write that fails may or may not have been committed. *)
(* The decision a worker looks up before it closes a job row is not        *)
(* recorded here: only the row's status is.                                *)
(***************************************************************************)
EXTENDS Integers, Sequences

CONSTANTS
    Tokens,        \* token addresses a signal or an operator may name
    NoToken,       \* the token of a full scan, which has none
    Tasks,         \* slots for asyncio tasks: bounds those alive at once
    Handlers,      \* webhook requests served at once
    Stages,        \* the names of the pipeline's stages, in order
    DbMayFail,     \* whether a bookkeeping statement may raise
    MaxRestarts    \* bound on the server restarts explored

ASSUME TokensAssumption == NoToken \notin Tokens
ASSUME StagesAssumption ==
    /\ Stages \in Seq(STRING)
    /\ Len(Stages) > 0
    /\ \A i, j \in 1..Len(Stages) : Stages[i] = Stages[j] => i = j
    /\ \A i \in 1..Len(Stages) :
          Stages[i] \notin {"queued", "ingestion", "manual_ingestion",
                           "whale_signal_ingestion"}
ASSUME DbMayFailAssumption == DbMayFail \in BOOLEAN
ASSUME MaxRestartsAssumption == MaxRestarts \in Nat

VARIABLES
    scan,       \* SCAN_STATE: running, status and stage
    tasks,      \* the worker coroutine in each task slot
    handlers,   \* the webhook requests in progress
    jobs,       \* status of the job row of each token, "none" without a row
    decided,    \* tokens with a row in watchlist_decisions
    restarts,   \* server restarts so far
    stuck,      \* history: a worker ended and left the flag, in this server
    orphans     \* history: tokens whose row was left RUNNING, with no worker

blame == <<stuck, orphans>>
vars == <<scan, tasks, handlers, jobs, decided, restarts, blame>>

TenStages ==
    << "market_filter", "contract_risk", "liquidity_filter",
       "wallet_analysis", "cluster_analysis", "wallet_intelligence",
       "wallet_manipulation", "dev_wallet_audit", "dev_wallet_flow",
       "watchlist_decision" >>

Last == Len(Stages)

(***************************************************************************)
(* Records                                                                 *)
(***************************************************************************)
IdleScan == [running |-> FALSE, status |-> "idle", stage |-> "idle"]
ScanAt(status, stage) ==
    [running |-> TRUE, status |-> status, stage |-> stage]
ScanOver(status) ==
    [running |-> FALSE, status |-> status, stage |-> status]

FreeSlot == [kind |-> "free", pc |-> "free", token |-> NoToken, at |-> 0]
NewTask(kind, t) == [kind |-> kind, pc |-> "created", token |-> t, at |-> 0]

IdleHandler == [pc |-> "idle", token |-> NoToken, seen |-> "none"]

JobStatuses == {"none", "QUEUED", "RUNNING", "FINISHED", "FAILED"}

\* A scan or manual task is born with the flag; a whale task must claim it.
Holds(k) ==
    /\ tasks[k].kind # "free"
    /\ tasks[k].kind = "whale" => tasks[k].pc # "created"

Goto(k, pc) == tasks' = [tasks EXCEPT ![k].pc = pc]
Ends(k) == tasks' = [tasks EXCEPT ![k] = FreeSlot]
SetJob(k, status) == jobs' = [jobs EXCEPT ![tasks[k].token] = status]

\* Of the tokens lost, those whose row is left RUNNING are orphans.
Orphaned(lost) == orphans' = {t \in orphans \union lost : jobs'[t] = "RUNNING"}

-----------------------------------------------------------------------------
Init ==
    /\ scan = IdleScan
    /\ tasks = [k \in Tasks |-> FreeSlot]
    /\ handlers = [h \in Handlers |-> IdleHandler]
    /\ jobs = [t \in Tokens |-> "none"]
    /\ decided = {}
    /\ restarts = 0
    /\ stuck = FALSE /\ orphans = {}

(***************************************************************************)
(* POST /api/scan and POST /api/analyze-token: the request claims the flag *)
(* and schedules the worker in one segment.  Refused while running.        *)
(***************************************************************************)
StartJob(k, kind, t) ==
    /\ tasks[k].kind = "free"
    /\ ~scan.running
    /\ scan' = ScanAt("queued", "queued")
    /\ tasks' = [tasks EXCEPT ![k] = NewTask(kind, t)]
    /\ UNCHANGED <<handlers, jobs, decided, restarts, blame>>

StartScan(k) == StartJob(k, "scan", NoToken)

StartManual(k, t) == StartJob(k, "manual", t)

(***************************************************************************)
(* First segment of each worker.                                           *)
(***************************************************************************)
WorkerBegins(k) ==
    /\ tasks[k].kind \in {"scan", "manual"}
    /\ tasks[k].pc = "created"
    /\ scan' = ScanAt("running", IF tasks[k].kind = "scan"
                                 THEN "ingestion" ELSE "manual_ingestion")
    /\ Goto(k, "ingest")
    /\ UNCHANGED <<handlers, jobs, decided, restarts, blame>>

\* Mutant: a "finally" clears the flag, whoever holds it.
WhaleStandsDown_ClearsFlag(k) ==
    /\ tasks[k].kind = "whale"
    /\ tasks[k].pc = "created"
    /\ scan.running
    /\ scan' = ScanOver("finished")
    /\ Ends(k)
    /\ UNCHANGED <<handlers, jobs, decided, restarts, blame>>

WhaleStandsDown(k) ==
    /\ tasks[k].kind = "whale"
    /\ tasks[k].pc = "created"
    /\ scan.running
    /\ Ends(k)
    /\ UNCHANGED <<scan, handlers, jobs, decided, restarts, blame>>

\* Mutant: the whale worker sets the flag without looking at it.
WhaleClaims_Unchecked(k) ==
    /\ tasks[k].kind = "whale"
    /\ tasks[k].pc = "created"
    /\ scan' = ScanAt("running", "whale_signal_ingestion")
    /\ Goto(k, "mark")
    /\ UNCHANGED <<handlers, jobs, decided, restarts, blame>>

WhaleClaims(k) ==
    /\ tasks[k].kind = "whale"
    /\ tasks[k].pc = "created"
    /\ ~scan.running
    /\ scan' = ScanAt("running", "whale_signal_ingestion")
    /\ Goto(k, "mark")
    /\ UNCHANGED <<handlers, jobs, decided, restarts, blame>>

(***************************************************************************)
(* The body of the workers: ingestion, then the stages.                    *)
(***************************************************************************)
JobMarkedRunning(k) ==
    /\ tasks[k].pc = "mark"
    /\ SetJob(k, "RUNNING")
    /\ Goto(k, "ingest")
    /\ orphans' = orphans \ {tasks[k].token}
    /\ UNCHANGED <<scan, handlers, decided, restarts, stuck>>

Ingested(k) ==
    /\ tasks[k].pc = "ingest"
    /\ tasks' = [tasks EXCEPT ![k].pc = "stage", ![k].at = 1]
    /\ scan' = [scan EXCEPT !.stage = Stages[1]]
    /\ UNCHANGED <<handlers, jobs, decided, restarts, blame>>

StageDone(k) ==
    /\ tasks[k].pc = "stage"
    /\ tasks[k].at < Last
    /\ tasks' = [tasks EXCEPT ![k].at = @ + 1]
    /\ scan' = [scan EXCEPT !.stage = Stages[tasks[k].at + 1]]
    /\ UNCHANGED <<handlers, jobs, decided, restarts, blame>>

\* The last stage upserts its decisions row by row; the run of a manual or
\* whale analysis ingested its own token only.
DecisionSaved(k, t) ==
    /\ tasks[k].pc = "stage"
    /\ tasks[k].at = Last
    /\ tasks[k].kind # "scan" => t = tasks[k].token
    /\ t \notin decided
    /\ decided' = decided \union {t}
    /\ UNCHANGED <<scan, tasks, handlers, jobs, restarts, blame>>

WorkerFinishes(k) ==
    /\ tasks[k].kind \in {"scan", "manual"}
    /\ tasks[k].pc = "stage"
    /\ tasks[k].at = Last
    /\ scan' = ScanOver("finished")
    /\ Ends(k)
    /\ UNCHANGED <<handlers, jobs, decided, restarts, blame>>

WhalePipelineDone(k) ==
    /\ tasks[k].kind = "whale"
    /\ tasks[k].pc = "stage"
    /\ tasks[k].at = Last
    /\ Goto(k, "finish")
    /\ UNCHANGED <<scan, handlers, jobs, decided, restarts, blame>>

JobFinished(k) ==
    /\ tasks[k].pc = "finish"
    /\ SetJob(k, "FINISHED")
    /\ scan' = ScanOver("finished")
    /\ Ends(k)
    /\ UNCHANGED <<handlers, decided, restarts, blame>>

(***************************************************************************)
(* Exceptions: an upstream error ends a scan or a manual analysis at once; *)
(* a whale analysis first awaits the FAILED update, with the flag held.    *)
(***************************************************************************)
\* Mutant: the except branch reports the error and forgets the flag.
WorkerRaises_KeepsFlag(k) ==
    /\ tasks[k].kind \in {"scan", "manual"}
    /\ tasks[k].pc \in {"ingest", "stage"}
    /\ Ends(k)
    /\ UNCHANGED <<scan, handlers, jobs, decided, restarts, blame>>

WorkerRaises(k) ==
    /\ tasks[k].kind \in {"scan", "manual"}
    /\ tasks[k].pc \in {"ingest", "stage"}
    /\ scan' = ScanOver("failed")
    /\ Ends(k)
    /\ UNCHANGED <<handlers, jobs, decided, restarts, blame>>

\* Mutant: the flag is cleared before the FAILED update instead of after it.
WhaleRaises_ReleasesFirst(k) ==
    /\ tasks[k].kind = "whale"
    /\ tasks[k].pc \in {"ingest", "stage"}
    /\ scan' = ScanOver("failed")
    /\ Goto(k, "fail")
    /\ UNCHANGED <<handlers, jobs, decided, restarts, blame>>

WhaleRaises(k) ==
    /\ tasks[k].kind = "whale"
    /\ tasks[k].pc \in {"ingest", "stage"}
    /\ Goto(k, "fail")
    /\ UNCHANGED <<scan, handlers, jobs, decided, restarts, blame>>

\* Mutant: the failure is shown on the monitor but not written to the row.
JobFailed_RowLeft(k) ==
    /\ tasks[k].pc = "fail"
    /\ scan' = ScanOver("failed")
    /\ Ends(k)
    /\ UNCHANGED <<handlers, jobs, decided, restarts, blame>>

JobFailed(k) ==
    /\ tasks[k].pc = "fail"
    /\ SetJob(k, "FAILED")
    /\ scan' = ScanOver("failed")
    /\ Ends(k)
    /\ UNCHANGED <<handlers, decided, restarts, blame>>

MarkRunningRaises(k) ==
    /\ DbMayFail
    /\ tasks[k].pc = "mark"
    /\ SetJob(k, "RUNNING") \/ UNCHANGED jobs
    /\ Goto(k, "fail")
    /\ UNCHANGED <<scan, handlers, decided, restarts, blame>>

FinishRaises(k) ==
    /\ DbMayFail
    /\ tasks[k].pc = "finish"
    /\ SetJob(k, "FINISHED") \/ UNCHANGED jobs
    /\ Goto(k, "fail")
    /\ UNCHANGED <<scan, handlers, decided, restarts, blame>>

\* The await in the except branch raises: the task ends, the flag stays set.
FailRaises(k) ==
    /\ DbMayFail
    /\ tasks[k].pc = "fail"
    /\ SetJob(k, "FAILED") \/ UNCHANGED jobs
    /\ Ends(k)
    /\ stuck' = TRUE
    /\ Orphaned({tasks[k].token})
    /\ UNCHANGED <<scan, handlers, decided, restarts>>

(***************************************************************************)
(* POST /api/whale-signal, for a signal that passed the gates on its type, *)
(* amount and wallet.  Each step ends with the answer of one statement.    *)
(***************************************************************************)
SignalArrives(h, t) ==
    /\ handlers[h].pc = "idle"
    /\ handlers' = [handlers EXCEPT ![h] =
                        [pc |-> "check", token |-> t, seen |-> "none"]]
    /\ UNCHANGED <<scan, tasks, jobs, decided, restarts, blame>>

DecisionChecked(h) ==
    /\ handlers[h].pc = "check"
    /\ handlers' = [handlers EXCEPT ![h] =
                        IF handlers[h].token \in decided
                        THEN IdleHandler ELSE [@ EXCEPT !.pc = "insert"]]
    /\ UNCHANGED <<scan, tasks, jobs, decided, restarts, blame>>

\* Mutant: ON CONFLICT ... SET status = EXCLUDED.status.
Upserted_Resets(t) == "QUEUED"

\* INSERT ... ON CONFLICT (token_address) DO UPDATE ... RETURNING status
Upserted(t) == IF jobs[t] = "none" THEN "QUEUED" ELSE jobs[t]

JobUpserted(h) ==
    LET t == handlers[h].token IN
    /\ handlers[h].pc = "insert"
    /\ jobs' = [jobs EXCEPT ![t] = Upserted(t)]
    /\ handlers' = [handlers EXCEPT ![h].pc = "answer", ![h].seen = Upserted(t)]
    /\ UNCHANGED <<scan, tasks, decided, restarts, blame>>

SignalQueued(h, k) ==
    /\ handlers[h].pc = "answer"
    /\ handlers[h].seen \in {"QUEUED", "FAILED"}
    /\ tasks[k].kind = "free"
    /\ tasks' = [tasks EXCEPT ![k] = NewTask("whale", handlers[h].token)]
    /\ handlers' = [handlers EXCEPT ![h] = IdleHandler]
    /\ UNCHANGED <<scan, jobs, decided, restarts, blame>>

SignalRefused(h) ==
    /\ handlers[h].pc = "answer"
    /\ handlers[h].seen \notin {"QUEUED", "FAILED"}
    /\ handlers' = [handlers EXCEPT ![h] = IdleHandler]
    /\ UNCHANGED <<scan, tasks, jobs, decided, restarts, blame>>

HandlerRaises(h) ==
    /\ DbMayFail
    /\ \/ handlers[h].pc = "check" /\ UNCHANGED jobs
       \/ /\ handlers[h].pc = "insert"
          /\ \/ UNCHANGED jobs
             \/ LET t == handlers[h].token
                IN  jobs' = [jobs EXCEPT ![t] = Upserted(t)]
    /\ handlers' = [handlers EXCEPT ![h] = IdleHandler]
    /\ UNCHANGED <<scan, tasks, decided, restarts, blame>>

(***************************************************************************)
(* Outside the server process.                                             *)
(***************************************************************************)
\* The command-line pipeline and run_watchlist_decision.py write decisions
\* without looking at SCAN_STATE, which lives in the server's memory.
CliDecides(t) ==
    /\ t \notin decided
    /\ decided' = decided \union {t}
    /\ UNCHANGED <<scan, tasks, handlers, jobs, restarts, blame>>

\* A crash or restart of the server loses its memory; the tables remain.
ServerRestart ==
    /\ restarts < MaxRestarts
    /\ restarts' = restarts + 1
    /\ scan' = IdleScan
    /\ tasks' = [k \in Tasks |-> FreeSlot]
    /\ handlers' = [h \in Handlers |-> IdleHandler]
    /\ UNCHANGED <<jobs, decided>>
    /\ stuck' = FALSE
    /\ Orphaned(Tokens)

-----------------------------------------------------------------------------
WorkerStep(k) ==
    \/ WorkerBegins(k) \/ WhaleStandsDown(k) \/ WhaleClaims(k)
    \/ JobMarkedRunning(k) \/ Ingested(k) \/ StageDone(k)
    \/ \E t \in Tokens : DecisionSaved(k, t)
    \/ WorkerFinishes(k) \/ WhalePipelineDone(k) \/ JobFinished(k)
    \/ WorkerRaises(k) \/ WhaleRaises(k) \/ JobFailed(k)
    \/ MarkRunningRaises(k) \/ FinishRaises(k) \/ FailRaises(k)

HandlerStep(h) ==
    \/ DecisionChecked(h) \/ JobUpserted(h)
    \/ \E k \in Tasks : SignalQueued(h, k)
    \/ SignalRefused(h) \/ HandlerRaises(h)

Request ==
    \/ \E k \in Tasks : StartScan(k)
    \/ \E k \in Tasks, t \in Tokens : StartManual(k, t)
    \/ \E h \in Handlers, t \in Tokens : SignalArrives(h, t)

Next ==
    \/ \E k \in Tasks : WorkerStep(k)
    \/ \E h \in Handlers : HandlerStep(h)
    \/ Request
    \/ \E t \in Tokens : CliDecides(t)
    \/ ServerRestart

Spec == Init /\ [][Next]_vars

\* The event loop runs every ready task, and every await ends: requests to
\* the upstream services have timeouts and bounded retries.  No request, no
\* restart and no command-line run is ever promised.
Fairness ==
    /\ \A k \in Tasks : WF_vars(WorkerStep(k))
    /\ \A h \in Handlers : WF_vars(HandlerStep(h))

FairSpec == Spec /\ Fairness

\* The same, with signals for every token arriving again and again.
FairSignalSpec ==
    /\ FairSpec
    /\ \A t \in Tokens : SF_vars(\E h \in Handlers : SignalArrives(h, t))

-----------------------------------------------------------------------------
(***************************************************************************)
(* Properties                                                              *)
(***************************************************************************)
Kinds == {"free", "scan", "manual", "whale"}
Pcs == {"free", "created", "mark", "ingest", "stage", "finish", "fail"}
ScanStatuses == {"idle", "queued", "running", "finished", "failed"}

Ingesting == {"ingestion", "manual_ingestion", "whale_signal_ingestion"}
StageNames == {"idle", "queued", "finished", "failed"} \union Ingesting
                \union {Stages[i] : i \in 1..Last}

\* The types of the variables; the types of a task and of a handler also say
\* which fields go together.
TypeOK ==
    /\ scan \in [running : BOOLEAN, status : ScanStatuses, stage : StageNames]
    /\ tasks \in [Tasks -> [kind : Kinds, pc : Pcs,
                            token : Tokens \union {NoToken}, at : 0..Last]]
    /\ handlers \in [Handlers -> [pc : {"idle", "check", "insert", "answer"},
                                  token : Tokens \union {NoToken},
                                  seen : JobStatuses]]
    /\ jobs \in [Tokens -> JobStatuses]
    /\ decided \in SUBSET Tokens
    /\ restarts \in 0..MaxRestarts
    /\ stuck \in BOOLEAN /\ orphans \in SUBSET Tokens

\* At most one analysis is in progress, whatever mix of scans, manual
\* analyses and whale signals was requested: workers.py's flag is checked
\* and set in one segment by every claimant.
AtMostOneAnalysis ==
    \A j, k \in Tasks : Holds(j) /\ Holds(k) => j = k

\* What the dashboard shows is what the analysis in progress is doing: the
\* flag is set, and the stage is the one its worker has reached.
Shown(k) ==
    CASE tasks[k].pc = "created" -> "queued"
      [] tasks[k].pc \in {"mark", "ingest"} ->
            (CASE tasks[k].kind = "scan" -> "ingestion"
               [] tasks[k].kind = "manual" -> "manual_ingestion"
               [] OTHER -> "whale_signal_ingestion")
      [] tasks[k].pc \in {"stage", "finish"} -> Stages[tasks[k].at]
      [] OTHER -> scan.stage

MonitorIsTruthful ==
    \A k \in Tasks :
        Holds(k) => /\ scan.running
                    /\ scan.stage = Shown(k)
                    /\ scan.status = IF tasks[k].pc = "created"
                                     THEN "queued" ELSE "running"

\* A flag that is set has a worker that will clear it.  SCAN_STATE is the
\* "single source of truth" of the Scan Monitor (scan_state.py:4).  One thing
\* alone leaves it set without a worker: the FAILED update in the except branch
\* of a whale analysis that raises itself; then nothing runs until a restart.
FlagHasHolder ==
    /\ scan.running <=> stuck \/ \E k \in Tasks : Holds(k)
    /\ stuck => \A k \in Tasks : ~Holds(k)

\* A whale analysis that got past its first update works on a row that says
\* RUNNING until it closes the row itself: nobody else's signal, analysis or
\* late update changes it meanwhile.
WhaleRowIsRunning ==
    \A k \in Tasks :
        tasks[k].kind = "whale" /\ tasks[k].pc \in {"ingest", "stage", "finish"}
            => jobs[tasks[k].token] = "RUNNING"

\* A row that says RUNNING has a worker that will close it, through failing
\* statements and restarts: only a restart in the middle of its analysis, and a
\* FAILED update that raises, leave a row that nobody works on.
RunningJobHasWorker ==
    \A t \in Tokens : jobs[t] = "RUNNING" =>
        \/ t \in orphans
        \/ \E k \in Tasks :
              /\ tasks[k].kind = "whale" /\ tasks[k].token = t
              /\ tasks[k].pc \in {"ingest", "stage", "finish", "fail"}

\* A row becomes FINISHED only from RUNNING: no analysis closes a row that
\* another one failed, or one that was never started.
FinishesOnlyRunningJobs ==
    [][\A t \in Tokens : jobs'[t] = "FINISHED" /\ jobs[t] # "FINISHED"
                              => jobs[t] = "RUNNING"]_vars

(***************************************************************************)
(* The abstract specification this one implements.                         *)
(***************************************************************************)
\* 0 while queued, 1 during ingestion, i + 1 during stage i.
ProgressOf(s) ==
    IF ~s.running \/ s.stage = "queued" THEN 0
    ELSE IF s.stage \in Ingesting THEN 1
    ELSE 1 + (CHOOSE i \in 1..Last : Stages[i] = s.stage)

Lease == INSTANCE AnalysisLease WITH
            Workers <- Tasks, MaxProgress <- Last + 1,
            holders <- {k \in Tasks : Holds(k)},
            busy <- scan.running, progress <- ProgressOf(scan)

\* Every behaviour of the coordinator is one of the lease: the flag is taken
\* only when free, stages never go backwards, and only the worker whose
\* analysis it is clears the flag.
ImplementsLease == Lease!Spec

(***************************************************************************)
(* Liveness                                                                *)
(***************************************************************************)
\* Every analysis that takes the flag gives it back, through any failures but
\* that of its FAILED update.
AnalysisEnds == scan.running ~> ~scan.running \/ stuck

\* A row that says RUNNING is eventually closed, unless its worker was lost.
RunningJobCloses ==
    \A t \in Tokens :
        jobs[t] = "RUNNING" ~> jobs[t] \in {"FINISHED", "FAILED"} \/ t \in orphans

\* "If the lock is held the job stays QUEUED and a future signal flush picks
\* it up" (workers.py:320): a QUEUED row does not stay QUEUED.
QueuedJobIsPickedUp ==
    \A t \in Tokens : jobs[t] = "QUEUED" ~> jobs[t] # "QUEUED"
=============================================================================
