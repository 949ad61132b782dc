--------------------------- MODULE ScanJobs_proofs ---------------------------
(***************************************************************************)
(* Proofs about ScanJobs, for every set of tokens, task slots and handlers *)
(* and every list of stages.                                               *)
(***************************************************************************)
EXTENDS ScanJobs, TLAPS

(***************************************************************************)
(* The fields of one task, and of one handler, that go together.           *)
(***************************************************************************)
TaskFieldsAgree ==
    \A k \in Tasks :
        /\ tasks[k].kind = "free" <=> tasks[k].pc = "free"
        /\ tasks[k].kind \in {"manual", "whale"} => tasks[k].token \in Tokens
        /\ tasks[k].pc \in {"mark", "finish", "fail"} => tasks[k].kind = "whale"
        /\ tasks[k].pc \in {"stage", "finish"} => tasks[k].at \in 1..Last

HandlerFieldsAgree ==
    \A h \in Handlers :
        handlers[h].pc # "idle" => handlers[h].token \in Tokens

Typed == TypeOK /\ TaskFieldsAgree /\ HandlerFieldsAgree

\* The inductive invariant: an analysis can be told from the flag only if it
\* is alone, and it can rely on its row only if the flag keeps others away.
IInv ==
    /\ Typed
    /\ AtMostOneAnalysis
    /\ MonitorIsTruthful
    /\ WhaleRowIsRunning

\* There is a first stage, and the names of the stages are stage names.
LEMMA StageFacts ==
    /\ Last \in Nat /\ Last > 0
    /\ \A i \in 1..Last : Stages[i] \in StageNames
    /\ {"idle", "queued", "finished", "failed"} \subseteq StageNames
    /\ Ingesting \subseteq StageNames
  BY StagesAssumption DEF Last, StageNames

\* Every value the workers assign to SCAN_STATE has the type of scan.
ScanType == [running : BOOLEAN, status : ScanStatuses, stage : StageNames]

LEMMA ScanValues ==
    /\ IdleScan \in ScanType
    /\ \A status \in ScanStatuses, stage \in StageNames :
          ScanAt(status, stage) \in ScanType
    /\ \A status \in {"finished", "failed"} : ScanOver(status) \in ScanType
    /\ \A s \in ScanType, stage \in StageNames :
          [s EXCEPT !.stage = stage] \in ScanType
  BY DEF ScanType, IdleScan, ScanAt, ScanOver, ScanStatuses, StageNames

-----------------------------------------------------------------------------
\* Every state of the coordinator is well typed, and so is every action's
\* result.
LEMMA TypedInit == Init => Typed
  <1> SUFFICES ASSUME Init PROVE Typed
    OBVIOUS
  <1>1. scan \in ScanType /\ restarts \in 0..MaxRestarts
    BY ScanValues, MaxRestartsAssumption DEF Init
  <1>2. FreeSlot \in [kind : Kinds, pc : Pcs, token : Tokens \union {NoToken},
                     at : 0..Last]
    BY StageFacts DEF FreeSlot, Kinds, Pcs
  <1>3. IdleHandler \in [pc : {"idle", "check", "insert", "answer"},
                        token : Tokens \union {NoToken}, seen : JobStatuses]
    BY DEF IdleHandler, JobStatuses
  <1>4. TypeOK
    BY <1>1, <1>2, <1>3 DEF Init, TypeOK, ScanType, JobStatuses
  <1>5. TaskFieldsAgree /\ HandlerFieldsAgree
    BY DEF Init, TaskFieldsAgree, HandlerFieldsAgree, FreeSlot, IdleHandler
  <1> QED  BY <1>4, <1>5 DEF Typed

LEMMA TypedStep == Typed /\ [Next]_vars => Typed'
  <1> SUFFICES ASSUME Typed, [Next]_vars PROVE Typed'
    OBVIOUS
  <1> USE TokensAssumption, MaxRestartsAssumption, StageFacts
      DEF Typed, TypeOK, TaskFieldsAgree, HandlerFieldsAgree, ScanStatuses,
          Kinds, Pcs, JobStatuses, blame, Orphaned
  <1>1. CASE UNCHANGED vars
    BY <1>1 DEF vars
  <1>2. ASSUME NEW k \in Tasks, WorkerStep(k) PROVE Typed'
    <2> USE DEF Goto, Ends, SetJob, ScanAt, ScanOver, FreeSlot
    <2>1. CASE WorkerBegins(k)  BY <2>1 DEF WorkerBegins, Ingesting
    <2>2. CASE WhaleStandsDown(k)  BY <2>2 DEF WhaleStandsDown
    <2>3. CASE WhaleClaims(k)  BY <2>3 DEF WhaleClaims, Ingesting
    <2>4. CASE JobMarkedRunning(k)  BY <2>4 DEF JobMarkedRunning
    <2>5. CASE Ingested(k)
      <3>1. scan' \in ScanType
        BY <2>5, ScanValues DEF Ingested, ScanType
      <3>2. tasks' = [tasks EXCEPT ![k] =
                        [tasks[k] EXCEPT !.pc = "stage", !.at = 1]]
        BY <2>5 DEF Ingested
      <3>3. tasks' \in [Tasks -> [kind : Kinds, pc : Pcs,
                          token : Tokens \union {NoToken}, at : 0..Last]]
        <4>1. 1 \in 0..Last  OBVIOUS
        <4>2. [tasks[k] EXCEPT !.pc = "stage", !.at = 1] \in
                [kind : Kinds, pc : Pcs,
                 token : Tokens \union {NoToken}, at : 0..Last]
          BY <4>1
        <4> QED  BY <3>2, <4>2
      <3>4. /\ tasks'[k].kind = tasks[k].kind /\ tasks'[k].pc = "stage"
            /\ tasks'[k].token = tasks[k].token /\ tasks'[k].at = 1
        BY <3>2
      <3>5. \A j \in Tasks : j # k => tasks'[j] = tasks[j]
        BY <3>2
      <3>6. TaskFieldsAgree'
        BY <2>5, <3>4, <3>5 DEF Ingested
      <3> QED  BY <2>5, <3>1, <3>3, <3>6 DEF Ingested, ScanType
    <2>6. CASE StageDone(k)  BY <2>6 DEF StageDone
    <2>7. CASE \E t \in Tokens : DecisionSaved(k, t)
      BY <2>7 DEF DecisionSaved
    <2>8. CASE WorkerFinishes(k)  BY <2>8 DEF WorkerFinishes
    <2>9. CASE WhalePipelineDone(k)  BY <2>9 DEF WhalePipelineDone
    <2>10. CASE JobFinished(k)  BY <2>10 DEF JobFinished
    <2>11. CASE WorkerRaises(k)  BY <2>11 DEF WorkerRaises
    <2>12. CASE WhaleRaises(k)  BY <2>12 DEF WhaleRaises
    <2>13. CASE JobFailed(k)  BY <2>13 DEF JobFailed
    <2>14. CASE MarkRunningRaises(k)  BY <2>14 DEF MarkRunningRaises
    <2>15. CASE FinishRaises(k)  BY <2>15 DEF FinishRaises
    <2>16. CASE FailRaises(k)  BY <2>16 DEF FailRaises
    <2> QED
      BY <1>2, <2>1, <2>2, <2>3, <2>4, <2>5, <2>6, <2>7, <2>8, <2>9, <2>10,
         <2>11, <2>12, <2>13, <2>14, <2>15, <2>16 DEF WorkerStep
  <1>3. ASSUME NEW h \in Handlers, HandlerStep(h) PROVE Typed'
    <2> USE DEF IdleHandler, Upserted
    <2>1. CASE DecisionChecked(h)  BY <2>1 DEF DecisionChecked
    <2>2. CASE JobUpserted(h)
      <3>1. handlers[h].token \in Tokens  BY <2>2 DEF JobUpserted
      <3>2. Upserted(handlers[h].token) \in JobStatuses  BY <3>1
      <3>3. jobs' \in [Tokens -> JobStatuses]
        BY <2>2, <3>2 DEF JobUpserted
      <3>4. handlers' = [handlers EXCEPT ![h] = [handlers[h] EXCEPT
                            !.pc = "answer", !.seen = Upserted(handlers[h].token)]]
        BY <2>2 DEF JobUpserted
      <3> HIDE DEF Upserted
      <3>5. handlers' \in [Handlers -> [pc : {"idle", "check", "insert", "answer"},
                    token : Tokens \union {NoToken}, seen : JobStatuses]]
        BY <3>2, <3>4
      <3>6. HandlerFieldsAgree'
        BY <3>1, <3>4
      <3> QED  BY <2>2, <3>3, <3>5, <3>6 DEF JobUpserted
    <2>3. CASE \E k \in Tasks : SignalQueued(h, k)
      BY <2>3 DEF SignalQueued, NewTask
    <2>4. CASE SignalRefused(h)  BY <2>4 DEF SignalRefused
    <2>5. CASE HandlerRaises(h)  BY <2>5 DEF HandlerRaises
    <2> QED  BY <1>3, <2>1, <2>2, <2>3, <2>4, <2>5 DEF HandlerStep
  <1>4. CASE Request
    <2>1. CASE \E k \in Tasks : StartScan(k)
      BY <2>1 DEF StartScan, StartJob, NewTask, ScanAt
    <2>2. CASE \E k \in Tasks, t \in Tokens : StartManual(k, t)
      BY <2>2 DEF StartManual, StartJob, NewTask, ScanAt
    <2>3. CASE \E h \in Handlers, t \in Tokens : SignalArrives(h, t)
      BY <2>3 DEF SignalArrives
    <2> QED  BY <1>4, <2>1, <2>2, <2>3 DEF Request
  <1>5. CASE \E t \in Tokens : CliDecides(t)
    BY <1>5 DEF CliDecides
  <1>6. CASE ServerRestart
    <2>1. scan' \in ScanType /\ restarts' \in 0..MaxRestarts
      BY <1>6, ScanValues DEF ServerRestart
    <2>2. /\ tasks' \in [Tasks -> [kind : Kinds, pc : Pcs,
                            token : Tokens \union {NoToken}, at : 0..Last]]
          /\ TaskFieldsAgree'
      BY <1>6 DEF ServerRestart, FreeSlot
    <2>3. /\ handlers' \in [Handlers -> [pc : {"idle", "check", "insert", "answer"},
                    token : Tokens \union {NoToken}, seen : JobStatuses]]
          /\ HandlerFieldsAgree'
      BY <1>6 DEF ServerRestart, IdleHandler
    <2>4. UNCHANGED <<jobs, decided>> /\ stuck' \in BOOLEAN
            /\ orphans' \in SUBSET Tokens
      BY <1>6 DEF ServerRestart
    <2> QED  BY <2>1, <2>2, <2>3, <2>4 DEF ScanType
  <1> QED  BY <1>1, <1>2, <1>3, <1>4, <1>5, <1>6 DEF Next

-----------------------------------------------------------------------------
\* A step of task slot k leaves the other slots alone; a step that changes a
\* slot replaces its record as a whole.
LEMMA OtherSlots ==
  ASSUME Typed, NEW k \in Tasks, WorkerStep(k)
  PROVE  \A j \in Tasks : j # k => tasks'[j] = tasks[j]
  BY DEF Typed, TypeOK, WorkerStep, WorkerBegins, WhaleStandsDown, WhaleClaims,
         JobMarkedRunning, Ingested, StageDone, DecisionSaved, WorkerFinishes,
         WhalePipelineDone, JobFinished, WorkerRaises, WhaleRaises, JobFailed,
         MarkRunningRaises, FinishRaises, FailRaises, Goto, Ends

\* Only a holder moves while the flag is set: a worker step that is not a
\* claim by, or the end of, a waiting whale task is a holder's.
LEMMA HolderMoves ==
  ASSUME Typed, NEW k \in Tasks, WorkerStep(k)
  PROVE  Holds(k) \/ WhaleStandsDown(k) \/ WhaleClaims(k)
  BY DEF Typed, TypeOK, TaskFieldsAgree, WorkerStep, WorkerBegins,
         JobMarkedRunning, Ingested, StageDone, DecisionSaved, WorkerFinishes,
         WhalePipelineDone, JobFinished, WorkerRaises, WhaleRaises, JobFailed,
         MarkRunningRaises, FinishRaises, FailRaises, Holds

\* The analysis is alone: a claim needs the flag clear, and while the flag is
\* clear nobody holds it.
LEMMA ExclusionStep ==
  IInv /\ Typed' /\ [Next]_vars => AtMostOneAnalysis'
  <1> SUFFICES ASSUME IInv, Typed', [Next]_vars PROVE AtMostOneAnalysis'
    OBVIOUS
  <1> USE DEF IInv, AtMostOneAnalysis, MonitorIsTruthful
  <1>1. CASE UNCHANGED vars
    BY <1>1 DEF vars, Holds
  <1>2. ASSUME NEW k \in Tasks, WorkerStep(k) PROVE AtMostOneAnalysis'
    <2>1. \A j \in Tasks : j # k => (Holds(j)' <=> Holds(j))
      BY <1>2, OtherSlots DEF Holds
    <2>2. CASE Holds(k)
      BY <2>1, <2>2
    <2>3. CASE WhaleStandsDown(k)
      <3>1. ~Holds(k)'
        BY <2>3 DEF WhaleStandsDown, Ends, FreeSlot, Holds, Typed, TypeOK
      <3> QED  BY <2>1, <3>1
    <2>4. CASE WhaleClaims(k)
      BY <2>1, <2>4 DEF WhaleClaims
    <2> QED  BY <1>2, <2>2, <2>3, <2>4, HolderMoves
  <1>3. ASSUME NEW h \in Handlers, HandlerStep(h) PROVE AtMostOneAnalysis'
    <2>1. CASE \E k \in Tasks : SignalQueued(h, k)
      BY <2>1 DEF SignalQueued, NewTask, Holds, Typed, TypeOK
    <2>2. CASE UNCHANGED tasks
      BY <2>2 DEF Holds
    <2> QED
      BY <1>3, <2>1, <2>2 DEF HandlerStep, DecisionChecked, JobUpserted,
         SignalRefused, HandlerRaises
  <1>4. CASE Request
    <2>1. ASSUME NEW k \in Tasks, NEW kind, NEW t, StartJob(k, kind, t)
          PROVE  AtMostOneAnalysis'
      <3>1. \A j \in Tasks : ~Holds(j)
        BY <2>1 DEF StartJob
      <3>2. \A j \in Tasks : j # k => tasks'[j] = tasks[j]
        BY <2>1 DEF StartJob
      <3> QED  BY <3>1, <3>2 DEF Holds
    <2>2. CASE \E h \in Handlers, t \in Tokens : SignalArrives(h, t)
      BY <2>2 DEF SignalArrives, Holds
    <2> QED  BY <1>4, <2>1, <2>2 DEF Request, StartScan, StartManual
  <1>5. CASE \E t \in Tokens : CliDecides(t)
    BY <1>5 DEF CliDecides, Holds
  <1>6. CASE ServerRestart
    BY <1>6 DEF ServerRestart, FreeSlot, Holds
  <1> QED  BY <1>1, <1>2, <1>3, <1>4, <1>5, <1>6 DEF Next

\* The monitor shows what the one analysis in progress does: a holder's step
\* changes its own record and the state together, and nobody else changes
\* the state while there is a holder.
Truthful(k) ==
    Holds(k) => /\ scan.running
                /\ scan.stage = Shown(k)
                /\ scan.status = IF tasks[k].pc = "created"
                                 THEN "queued" ELSE "running"

LEMMA MonitorUnchanged ==
  ASSUME NEW k \in Tasks, Truthful(k), tasks'[k] = tasks[k], scan' = scan
  PROVE  Truthful(k)'
  BY DEF Truthful, Holds, Shown

LEMMA MonitorStep ==
  IInv /\ Typed' /\ [Next]_vars => MonitorIsTruthful'
  <1> SUFFICES ASSUME IInv, Typed', [Next]_vars, NEW j \in Tasks
               PROVE  Truthful(j)'
    BY DEF MonitorIsTruthful, Truthful
  <1>0. Truthful(j)
    BY DEF IInv, MonitorIsTruthful, Truthful
  <1>1. CASE UNCHANGED vars
    BY <1>0, <1>1, MonitorUnchanged DEF vars
  <1>2. ASSUME NEW k \in Tasks, WorkerStep(k) PROVE Truthful(j)'
    <2>1. CASE j # k
      <3>1. tasks'[j] = tasks[j]
        BY <1>2, <2>1, OtherSlots DEF IInv
      <3>2. CASE ~Holds(j)
        BY <3>1, <3>2 DEF Truthful, Holds
      <3>3. CASE Holds(j)
        <4>1. scan.running /\ ~Holds(k)
          BY <1>0, <2>1, <3>3 DEF IInv, AtMostOneAnalysis, Truthful
        <4>2. WhaleStandsDown(k)
          BY <1>2, <4>1, HolderMoves DEF IInv, WhaleClaims
        <4> QED  BY <1>0, <3>1, <4>2, MonitorUnchanged DEF WhaleStandsDown
      <3> QED  BY <3>2, <3>3
    <2>2. CASE j = k
      <3> USE <2>2, <1>0 DEF IInv, Typed, TypeOK, TaskFieldsAgree, Truthful
      <3>1. CASE WorkerBegins(k)
        BY <3>1 DEF WorkerBegins, Goto, ScanAt, Holds, Shown
      <3>2. CASE tasks'[k].kind = "free"
        BY <3>2 DEF Holds
      <3>3. CASE WhaleClaims(k)
        BY <3>3 DEF WhaleClaims, Goto, ScanAt, Holds, Shown
      <3>4. CASE JobMarkedRunning(k)
        BY <3>4 DEF JobMarkedRunning, Goto, Holds, Shown
      <3>5. CASE Ingested(k)
        <4>1. tasks' = [tasks EXCEPT ![k] =
                          [tasks[k] EXCEPT !.pc = "stage", !.at = 1]]
          BY <3>5 DEF Ingested
        <4>2. /\ tasks'[k].kind = tasks[k].kind
              /\ tasks'[k].pc = "stage" /\ tasks'[k].at = 1
          BY <4>1
        <4> QED  BY <3>5, <4>2 DEF Ingested, Holds, Shown
      <3>6. CASE StageDone(k)
        BY <3>6 DEF StageDone, Holds, Shown
      <3>7. CASE \E t \in Tokens : DecisionSaved(k, t)
        BY <3>7, MonitorUnchanged DEF DecisionSaved
      <3>8. CASE WhalePipelineDone(k)
        BY <3>8 DEF WhalePipelineDone, Goto, Holds, Shown
      <3>9. CASE WhaleRaises(k) \/ MarkRunningRaises(k) \/ FinishRaises(k)
        BY <3>9 DEF WhaleRaises, MarkRunningRaises, FinishRaises, Goto,
                    Holds, Shown
      <3>10. WhaleStandsDown(k) \/ WorkerFinishes(k) \/ JobFinished(k)
               \/ WorkerRaises(k) \/ JobFailed(k) \/ FailRaises(k)
               => tasks'[k].kind = "free"
        BY DEF WhaleStandsDown, WorkerFinishes, JobFinished, WorkerRaises,
               JobFailed, FailRaises, Ends, FreeSlot
      <3> QED
        BY <1>2, <3>1, <3>2, <3>3, <3>4, <3>5, <3>6, <3>7, <3>8, <3>9, <3>10
           DEF WorkerStep
    <2> QED  BY <2>1, <2>2
  <1>3. ASSUME NEW h \in Handlers, HandlerStep(h) PROVE Truthful(j)'
    <2>1. CASE \E k \in Tasks : SignalQueued(h, k)
      BY <1>0, <2>1 DEF SignalQueued, NewTask, Truthful, Holds, Shown, IInv,
                        Typed, TypeOK
    <2>2. CASE UNCHANGED <<tasks, scan>>
      BY <1>0, <2>2, MonitorUnchanged
    <2> QED
      BY <1>3, <2>1, <2>2 DEF HandlerStep, DecisionChecked, JobUpserted,
         SignalRefused, HandlerRaises
  <1>4. CASE Request
    <2>1. ASSUME NEW k \in Tasks, NEW kind \in {"scan", "manual"}, NEW t,
                 StartJob(k, kind, t)
          PROVE  Truthful(j)'
      <3>1. CASE j = k
        BY <2>1, <3>1 DEF StartJob, NewTask, ScanAt, Truthful, Holds, Shown,
                          IInv, Typed, TypeOK
      <3>2. CASE j # k
        BY <1>0, <2>1, <3>2 DEF StartJob, Truthful, Holds
      <3> QED  BY <3>1, <3>2
    <2>2. CASE \E h \in Handlers, t \in Tokens : SignalArrives(h, t)
      BY <1>0, <2>2, MonitorUnchanged DEF SignalArrives
    <2> QED  BY <1>4, <2>1, <2>2 DEF Request, StartScan, StartManual
  <1>5. CASE \E t \in Tokens : CliDecides(t)
    BY <1>0, <1>5, MonitorUnchanged DEF CliDecides
  <1>6. CASE ServerRestart
    BY <1>6 DEF ServerRestart, FreeSlot, Truthful, Holds
  <1> QED  BY <1>1, <1>2, <1>3, <1>4, <1>5, <1>6 DEF Next

\* The row of a whale analysis: its holder is the only one that writes a
\* status over RUNNING, and an upsert keeps the status of an existing row.
RowRuns(k) ==
    tasks[k].kind = "whale" /\ tasks[k].pc \in {"ingest", "stage", "finish"}
        => jobs[tasks[k].token] = "RUNNING"

LEMMA UpsertKeepsRows ==
  ASSUME Typed, NEW h \in Handlers, HandlerStep(h), NEW t \in Tokens,
         jobs[t] # "none"
  PROVE  jobs'[t] = jobs[t]
  BY DEF HandlerStep, DecisionChecked, JobUpserted, SignalQueued,
         SignalRefused, HandlerRaises, Upserted, Typed, TypeOK,
         HandlerFieldsAgree

\* Only the task that runs a whale analysis writes that row's status.
LEMMA OnlyHolderWrites ==
  ASSUME Typed, NEW k \in Tasks, WorkerStep(k)
  PROVE  \/ UNCHANGED jobs
         \/ /\ Holds(k) /\ tasks[k].kind = "whale"
            /\ tasks[k].pc \in {"mark", "finish", "fail"}
  BY DEF Typed, TypeOK, TaskFieldsAgree, WorkerStep, WorkerBegins,
         WhaleStandsDown, WhaleClaims, JobMarkedRunning, Ingested, StageDone,
         DecisionSaved, WorkerFinishes, WhalePipelineDone, JobFinished,
         WorkerRaises, WhaleRaises, JobFailed, MarkRunningRaises,
         FinishRaises, FailRaises, Holds

LEMMA RowStep ==
  IInv /\ Typed' /\ [Next]_vars => WhaleRowIsRunning'
  <1> SUFFICES ASSUME IInv, Typed', [Next]_vars, NEW j \in Tasks
               PROVE  RowRuns(j)'
    BY DEF WhaleRowIsRunning, RowRuns
  <1>0. RowRuns(j) /\ Typed
    BY DEF IInv, WhaleRowIsRunning, RowRuns
  <1>a. ASSUME tasks'[j] = tasks[j], UNCHANGED jobs PROVE RowRuns(j)'
    BY <1>0, <1>a DEF RowRuns
  <1>1. CASE UNCHANGED vars
    BY <1>1, <1>a DEF vars
  <1>2. ASSUME NEW k \in Tasks, WorkerStep(k) PROVE RowRuns(j)'
    <2>1. CASE j # k
      <3>1. tasks'[j] = tasks[j]
        BY <1>0, <1>2, <2>1, OtherSlots
      <3>2. CASE UNCHANGED jobs
        BY <1>a, <3>1, <3>2
      <3>3. CASE Holds(k)
        BY <2>1, <3>1, <3>3 DEF IInv, AtMostOneAnalysis, Holds, RowRuns
      <3> QED  BY <1>0, <1>2, <3>2, <3>3, OnlyHolderWrites
    <2>2. CASE j = k
      <3> USE <2>2, <1>0 DEF Typed, TypeOK, TaskFieldsAgree, RowRuns
      <3>1. CASE WorkerBegins(k)
        BY <3>1 DEF WorkerBegins, Goto
      <3>2. CASE WhaleClaims(k)
        BY <3>2 DEF WhaleClaims, Goto
      <3>3. CASE JobMarkedRunning(k)
        BY <3>3 DEF JobMarkedRunning, Goto, SetJob
      <3>4. CASE Ingested(k)
        <4>1. /\ tasks'[k].kind = tasks[k].kind
              /\ tasks'[k].token = tasks[k].token
          BY <3>4 DEF Ingested
        <4> QED  BY <3>4, <4>1 DEF Ingested
      <3>5. CASE StageDone(k)
        BY <3>5 DEF StageDone
      <3>6. CASE \E t \in Tokens : DecisionSaved(k, t)
        BY <3>6 DEF DecisionSaved
      <3>7. CASE WhalePipelineDone(k)
        BY <3>7 DEF WhalePipelineDone, Goto
      <3>8. CASE WhaleRaises(k) \/ MarkRunningRaises(k) \/ FinishRaises(k)
        BY <3>8 DEF WhaleRaises, MarkRunningRaises, FinishRaises, Goto
      <3>9. CASE tasks'[k].kind = "free"
        BY <3>9
      <3>10. WhaleStandsDown(k) \/ WorkerFinishes(k) \/ JobFinished(k)
               \/ WorkerRaises(k) \/ JobFailed(k) \/ FailRaises(k)
               => tasks'[k].kind = "free"
        BY DEF WhaleStandsDown, WorkerFinishes, JobFinished, WorkerRaises,
               JobFailed, FailRaises, Ends, FreeSlot
      <3> QED
        BY <1>2, <3>1, <3>2, <3>3, <3>4, <3>5, <3>6, <3>7, <3>8, <3>9, <3>10
           DEF WorkerStep
    <2> QED  BY <2>1, <2>2
  <1>3. ASSUME NEW h \in Handlers, HandlerStep(h) PROVE RowRuns(j)'
    <2>1. CASE \E k \in Tasks : SignalQueued(h, k)
      BY <1>0, <2>1 DEF SignalQueued, NewTask, RowRuns, Typed, TypeOK
    <2>2. CASE UNCHANGED tasks
      BY <1>0, <1>3, <2>2, UpsertKeepsRows
         DEF RowRuns, Typed, TypeOK, TaskFieldsAgree
    <2> QED
      BY <1>3, <2>1, <2>2 DEF HandlerStep, DecisionChecked, JobUpserted,
         SignalRefused, HandlerRaises
  <1>4. CASE Request
    <2>1. ASSUME NEW k \in Tasks, NEW kind \in {"scan", "manual"}, NEW t,
                 StartJob(k, kind, t)
          PROVE  RowRuns(j)'
      BY <1>0, <2>1 DEF StartJob, NewTask, RowRuns, Typed, TypeOK
    <2>2. CASE \E h \in Handlers, t \in Tokens : SignalArrives(h, t)
      BY <1>a, <2>2 DEF SignalArrives
    <2> QED  BY <1>4, <2>1, <2>2 DEF Request, StartScan, StartManual
  <1>5. CASE \E t \in Tokens : CliDecides(t)
    BY <1>a, <1>5 DEF CliDecides
  <1>6. CASE ServerRestart
    BY <1>6 DEF ServerRestart, FreeSlot, RowRuns
  <1> QED  BY <1>1, <1>2, <1>3, <1>4, <1>5, <1>6 DEF Next

-----------------------------------------------------------------------------
\* The invariant holds in every state of every behaviour of the coordinator.
THEOREM Invariant == Spec => []IInv
  <1>1. Init => IInv
    BY TypedInit DEF Init, IInv, AtMostOneAnalysis, MonitorIsTruthful,
                     WhaleRowIsRunning, Holds, FreeSlot
  <1>2. IInv /\ [Next]_vars => IInv'
    BY TypedStep, ExclusionStep, MonitorStep, RowStep DEF IInv
  <1> QED  BY <1>1, <1>2, PTL DEF Spec

\* Type correctness, for every value of the constants.
THEOREM TypeCorrectness == Spec => []TypeOK
  BY Invariant, PTL DEF IInv, Typed

\* No two analyses ever run together, however many requests, signals, failing
\* statements and restarts there are.
THEOREM Exclusion == Spec => []AtMostOneAnalysis
  BY Invariant, PTL DEF IInv

\* While an analysis runs the monitor shows it, and shows its stage.
THEOREM TruthfulMonitor == Spec => []MonitorIsTruthful
  BY Invariant, PTL DEF IInv

\* The row of a whale analysis says RUNNING until that analysis closes it.
THEOREM RunningRow == Spec => []WhaleRowIsRunning
  BY Invariant, PTL DEF IInv

-----------------------------------------------------------------------------
\* A row is closed as FINISHED only by the analysis that found it RUNNING.
THEOREM FinishOnlyRunning == Spec => FinishesOnlyRunningJobs
  <1> DEFINE Closes(t) == jobs'[t] = "FINISHED" /\ jobs[t] # "FINISHED"
  <1>1. ASSUME IInv, [Next]_vars, NEW t \in Tokens, Closes(t)
        PROVE  jobs[t] = "RUNNING"
    <2> USE <1>1 DEF IInv
    <2>1. CASE UNCHANGED jobs
      BY <2>1
    <2>2. ASSUME NEW k \in Tasks, WorkerStep(k) PROVE jobs[t] = "RUNNING"
      <3>1. CASE JobFinished(k) \/ FinishRaises(k)
        BY <3>1 DEF JobFinished, FinishRaises, SetJob, WhaleRowIsRunning,
                    Typed, TypeOK, TaskFieldsAgree
      <3>2. CASE JobMarkedRunning(k) \/ MarkRunningRaises(k)
                   \/ JobFailed(k) \/ FailRaises(k)
        BY <3>2 DEF JobMarkedRunning, MarkRunningRaises, JobFailed,
                    FailRaises, SetJob, Typed, TypeOK
      <3> QED
        BY <2>1, <2>2, <3>1, <3>2 DEF WorkerStep, WorkerBegins,
           WhaleStandsDown, WhaleClaims, Ingested, StageDone, DecisionSaved,
           WorkerFinishes, WhalePipelineDone, WorkerRaises, WhaleRaises
    <2>3. ASSUME NEW h \in Handlers, HandlerStep(h) PROVE jobs[t] = "RUNNING"
      BY <2>3 DEF HandlerStep, DecisionChecked, JobUpserted, SignalQueued,
         SignalRefused, HandlerRaises, Upserted, Typed, TypeOK,
         HandlerFieldsAgree
    <2> QED
      BY <2>1, <2>2, <2>3 DEF Next, vars, Request, StartScan, StartManual,
         StartJob, SignalArrives, CliDecides, ServerRestart
  <1>2. IInv /\ [Next]_vars =>
          [\A t \in Tokens : jobs'[t] = "FINISHED" /\ jobs[t] # "FINISHED"
                                 => jobs[t] = "RUNNING"]_vars
    BY <1>1
  <1> QED  BY <1>2, Invariant, PTL DEF Spec, FinishesOnlyRunningJobs

\* The holders after a step: a worker step changes at most whether its own
\* slot holds the flag, and any other step that keeps the state changes nothing.
Held == \E j \in Tasks : Holds(j)

LEMMA HoldersAfter ==
  ASSUME Typed, NEW k \in Tasks, WorkerStep(k)
  PROVE  /\ \A j \in Tasks : j # k => (Holds(j)' <=> Holds(j))
         /\ stuck' = stuck \/ FailRaises(k)
  <1>1. \A j \in Tasks : j # k => (Holds(j)' <=> Holds(j))
    BY OtherSlots DEF Holds
  <1>2. stuck' = stuck \/ FailRaises(k)
    BY DEF WorkerStep, WorkerBegins, WhaleStandsDown, WhaleClaims,
         JobMarkedRunning, Ingested, StageDone, DecisionSaved, WorkerFinishes,
         WhalePipelineDone, JobFinished, WorkerRaises, WhaleRaises, JobFailed,
         MarkRunningRaises, FinishRaises, blame
  <1> QED  BY <1>1, <1>2

\* Whoever sets the flag is there to clear it, in spite of failing statements
\* and restarts; the one exception is the FAILED update that raises.
THEOREM FlagIsHeld == Spec => []FlagHasHolder
  <1>1. Init => FlagHasHolder
    BY DEF Init, IdleScan, FreeSlot, FlagHasHolder, Holds
  <1>2. ASSUME IInv, FlagHasHolder, [Next]_vars PROVE FlagHasHolder'
    <2> USE <1>2 DEF IInv
    <2>a. scan.running <=> stuck \/ Held
      BY DEF FlagHasHolder, Held
    <2>b. stuck => ~Held
      BY DEF FlagHasHolder, Held
    <2>c. SUFFICES (scan'.running <=> stuck' \/ Held') /\ (stuck' => ~Held')
      BY DEF FlagHasHolder, Held
    <2>1. ASSUME NEW k \in Tasks, WorkerStep(k)
          PROVE  (scan'.running <=> stuck' \/ Held') /\ (stuck' => ~Held')
      <3>0. /\ \A j \in Tasks : j # k => (Holds(j)' <=> Holds(j))
            /\ stuck' = stuck \/ FailRaises(k)
        BY <2>1, HoldersAfter
      <3>1. ASSUME ~Holds(k), ~Holds(k)', scan' = scan, stuck' = stuck
            PROVE  (scan'.running <=> stuck' \/ Held') /\ (stuck' => ~Held')
        <4>1. Held' <=> Held
          BY <3>0, <3>1 DEF Held
        <4> QED  BY <2>a, <2>b, <3>1, <4>1
      <3>2. ASSUME ~stuck, stuck' = stuck, scan'.running, Holds(k)'
            PROVE  (scan'.running <=> stuck' \/ Held') /\ (stuck' => ~Held')
        BY <3>2 DEF Held
      <3>3. ASSUME Holds(k), ~Holds(k)'
            PROVE  ~Held' /\ ~stuck /\ scan.running
        <4>1. \A j \in Tasks : j # k => ~Holds(j)
          BY <3>3 DEF AtMostOneAnalysis
        <4> QED  BY <2>a, <2>b, <3>0, <3>3, <4>1 DEF Held
      <3>4. CASE WhaleStandsDown(k)
        <4>1. ~Holds(k) /\ ~Holds(k)' /\ scan' = scan /\ stuck' = stuck
          BY <3>4 DEF WhaleStandsDown, Ends, FreeSlot, Holds, Typed, TypeOK,
                      blame
        <4> QED  BY <3>1, <4>1
      <3>5. CASE WhaleClaims(k)
        <4>1. ~scan.running /\ stuck' = stuck /\ scan'.running /\ Holds(k)'
          BY <3>5 DEF WhaleClaims, Goto, ScanAt, Holds, Typed, TypeOK, blame
        <4> QED  BY <2>a, <3>2, <4>1
      <3>6. CASE Holds(k) /\ FailRaises(k)
        <4>1. ~Holds(k)' /\ scan' = scan /\ stuck'
          BY <3>6 DEF FailRaises, Ends, FreeSlot, Holds, Typed, TypeOK
        <4> QED  BY <3>3, <3>6, <4>1
      <3>7. CASE Holds(k) /\ ~FailRaises(k) /\ ~Holds(k)'
        <4>1. ~scan'.running
          BY <2>1, <3>7 DEF WorkerStep, WorkerBegins, WhaleStandsDown,
             WhaleClaims, JobMarkedRunning, Ingested, StageDone,
             DecisionSaved, WorkerFinishes, WhalePipelineDone, JobFinished,
             WorkerRaises, WhaleRaises, JobFailed, MarkRunningRaises,
             FinishRaises, Goto, ScanOver, Holds, Typed, TypeOK,
             TaskFieldsAgree
        <4> QED  BY <3>0, <3>3, <3>7, <4>1
      <3>8. CASE Holds(k) /\ ~FailRaises(k) /\ Holds(k)'
        <4>1. ~stuck /\ scan.running
          BY <2>a, <2>b, <3>8 DEF Held
        <4>2. WorkerFinishes(k) \/ JobFinished(k) \/ WorkerRaises(k)
                \/ JobFailed(k) \/ WhaleStandsDown(k) => ~Holds(k)'
          BY DEF WorkerFinishes, JobFinished, WorkerRaises, JobFailed,
             WhaleStandsDown, Ends, FreeSlot, Holds, Typed, TypeOK
        <4>3. scan'.running
          BY <2>1, <3>8, <4>1, <4>2 DEF WorkerStep, WorkerBegins,
             WhaleClaims, JobMarkedRunning, Ingested, StageDone,
             DecisionSaved, WhalePipelineDone, WhaleRaises,
             MarkRunningRaises, FinishRaises, ScanAt, Typed, TypeOK
        <4> QED  BY <3>0, <3>2, <3>8, <4>1, <4>3
      <3> QED
        BY <2>1, <3>4, <3>5, <3>6, <3>7, <3>8, HolderMoves
    <2>2. ASSUME UNCHANGED <<scan, stuck>>, Held' <=> Held
          PROVE  (scan'.running <=> stuck' \/ Held') /\ (stuck' => ~Held')
      BY <2>2, <2>a, <2>b
    <2>3. CASE UNCHANGED <<scan, stuck, tasks>>
      <3>1. Held' <=> Held  BY <2>3 DEF Held, Holds
      <3> QED  BY <2>2, <2>3, <3>1
    <2>4. ASSUME NEW h \in Handlers, HandlerStep(h)
          PROVE  (scan'.running <=> stuck' \/ Held') /\ (stuck' => ~Held')
      <3>1. ASSUME NEW k \in Tasks, SignalQueued(h, k)
            PROVE  Held' <=> Held
        <4>1. \A j \in Tasks : Holds(j)' <=> Holds(j)
          BY <3>1 DEF SignalQueued, NewTask, Holds, Typed, TypeOK
        <4> QED  BY <4>1 DEF Held
      <3>2. ASSUME NEW k \in Tasks, SignalQueued(h, k)
            PROVE  UNCHANGED <<scan, stuck>>
        BY <3>2 DEF SignalQueued, blame
      <3>3. CASE UNCHANGED <<scan, stuck, tasks>>
        BY <2>3, <3>3
      <3> QED
        BY <2>2, <2>4, <3>1, <3>2, <3>3 DEF HandlerStep, DecisionChecked,
           JobUpserted, SignalRefused, HandlerRaises, blame
    <2>5. ASSUME NEW k \in Tasks, NEW kind \in {"scan", "manual"}, NEW t,
                 StartJob(k, kind, t)
          PROVE  (scan'.running <=> stuck' \/ Held') /\ (stuck' => ~Held')
      <3>1. Holds(k)' /\ scan'.running /\ ~stuck /\ stuck' = stuck
        BY <2>5, <2>a DEF StartJob, NewTask, ScanAt, Holds, Typed, TypeOK,
                          blame
      <3> QED  BY <3>1 DEF Held
    <2>6. CASE ServerRestart
      BY <2>6 DEF ServerRestart, IdleScan, FreeSlot, Held, Holds
    <2> QED
      BY <2>1, <2>3, <2>4, <2>5, <2>6 DEF Next, vars, blame, Request,
         StartScan, StartManual, SignalArrives, CliDecides
  <1> QED  BY <1>1, <1>2, Invariant, PTL DEF Spec

\* A RUNNING row has the worker that will close it, or lost it: to a restart,
\* or to a FAILED update that raised.
WorksOn(k, t) ==
    /\ tasks[k].kind = "whale" /\ tasks[k].token = t
    /\ tasks[k].pc \in {"ingest", "stage", "finish", "fail"}

\* A worker that holds the row goes on with it, closes it, or orphans it.
LEMMA WorkGoesOn ==
  ASSUME IInv, NEW k \in Tasks, WorkerStep(k), NEW t \in Tokens,
         WorksOn(k, t), jobs'[t] = "RUNNING"
  PROVE  WorksOn(k, t)' \/ t \in orphans'
  <1>0. Typed
    BY DEF IInv
  <1>1. ~JobFinished(k) /\ ~JobFailed(k)
    BY <1>0 DEF JobFinished, JobFailed, SetJob, Typed, TypeOK, WorksOn
  <1>2. Ingested(k) \/ StageDone(k) =>
          /\ tasks'[k].kind = tasks[k].kind
          /\ tasks'[k].token = tasks[k].token
          /\ tasks'[k].pc = "stage"
    BY <1>0 DEF Ingested, StageDone, Typed, TypeOK
  <1>3. Ingested(k) \/ StageDone(k) => WorksOn(k, t)'
    BY <1>2 DEF WorksOn
  <1>4. WhalePipelineDone(k) \/ WhaleRaises(k) \/ FinishRaises(k)
          \/ MarkRunningRaises(k) \/ (\E u \in Tokens : DecisionSaved(k, u))
          => WorksOn(k, t)'
    BY <1>0 DEF WhalePipelineDone, WhaleRaises, FinishRaises,
       MarkRunningRaises, DecisionSaved, Goto, Typed, TypeOK, WorksOn
  <1>5. FailRaises(k) => t \in orphans'
    BY <1>0 DEF FailRaises, Orphaned, WorksOn
  <1> QED
    BY <1>1, <1>3, <1>4, <1>5 DEF WorksOn, WorkerStep, WorkerBegins,
       WhaleStandsDown, WhaleClaims, JobMarkedRunning, WorkerFinishes,
       WorkerRaises

\* An orphan stays one while its row says RUNNING, except that a worker may
\* mark the row again.
LEMMA OrphansStay ==
  ASSUME Typed, NEW k \in Tasks, WorkerStep(k), NEW t \in Tokens,
         t \in orphans, jobs'[t] = "RUNNING",
         ~(JobMarkedRunning(k) /\ tasks[k].token = t)
  PROVE  t \in orphans'
  BY DEF Typed, TypeOK, WorkerStep, WorkerBegins, WhaleStandsDown,
     WhaleClaims, JobMarkedRunning, Ingested, StageDone, DecisionSaved,
     WorkerFinishes, WhalePipelineDone, JobFinished, WorkerRaises,
     WhaleRaises, JobFailed, MarkRunningRaises, FinishRaises, FailRaises,
     Orphaned, blame

THEOREM RunningJobIsWorkedOn == Spec => []RunningJobHasWorker
  <1> DEFINE Covered(t) == t \in orphans \/ \E k \in Tasks : WorksOn(k, t)
  <1>1. Init => RunningJobHasWorker
    BY DEF Init, RunningJobHasWorker
  <1>2. ASSUME IInv, RunningJobHasWorker, [Next]_vars
        PROVE  RunningJobHasWorker'
    <2> SUFFICES ASSUME NEW t \in Tokens, jobs'[t] = "RUNNING"
                 PROVE  Covered(t)'
      BY DEF RunningJobHasWorker, WorksOn
    <2>0. Typed
      BY <1>2 DEF IInv
    <2>1. jobs[t] = "RUNNING" => Covered(t)
      BY <1>2 DEF RunningJobHasWorker, WorksOn
    <2>2. ASSUME NEW k \in Tasks, WorkerStep(k) PROVE Covered(t)'
      <3>1. CASE (JobMarkedRunning(k) \/ MarkRunningRaises(k))
                   /\ tasks[k].token = t
        <4>1. WorksOn(k, t)'
          BY <2>0, <3>1 DEF JobMarkedRunning, MarkRunningRaises, Goto,
             WorksOn, Typed, TypeOK, TaskFieldsAgree
        <4> QED  BY <4>1
      <3>2. CASE ~((JobMarkedRunning(k) \/ MarkRunningRaises(k))
                     /\ tasks[k].token = t)
        <4>1. jobs[t] = "RUNNING"
          BY <2>0, <2>2, <3>2 DEF WorkerStep, WorkerBegins,
             WhaleStandsDown, WhaleClaims, JobMarkedRunning, Ingested,
             StageDone, DecisionSaved, WorkerFinishes, WhalePipelineDone,
             JobFinished, WorkerRaises, WhaleRaises, JobFailed,
             MarkRunningRaises, FinishRaises, FailRaises, SetJob, Typed,
             TypeOK, TaskFieldsAgree
        <4>2. CASE t \in orphans
          BY <2>0, <2>2, <3>2, <4>2, OrphansStay
        <4>3. ASSUME NEW j \in Tasks, WorksOn(j, t) PROVE Covered(t)'
          <5>1. CASE j = k
            BY <1>2, <2>2, <4>3, <5>1, WorkGoesOn
          <5>2. CASE j # k
            <6>1. tasks'[j] = tasks[j]
              BY <2>0, <2>2, <5>2, OtherSlots
            <6>2. WorksOn(j, t)'
              BY <4>3, <6>1 DEF WorksOn
            <6> QED  BY <6>2
          <5> QED  BY <5>1, <5>2
        <4> QED  BY <2>1, <4>1, <4>2, <4>3
      <3> QED  BY <3>1, <3>2
    <2>3. ASSUME jobs[t] = "RUNNING", orphans' = orphans,
                 \A k \in Tasks : tasks[k].kind # "free" =>
                                      tasks'[k] = tasks[k]
          PROVE  Covered(t)'
      <3>1. ASSUME NEW k \in Tasks, WorksOn(k, t) PROVE WorksOn(k, t)'
        BY <2>3, <3>1 DEF WorksOn
      <3> QED  BY <2>1, <2>3, <3>1
    <2>4. ASSUME NEW h \in Handlers, HandlerStep(h) PROVE Covered(t)'
      <3>1. jobs[t] = "RUNNING"
        BY <2>0, <2>4 DEF HandlerStep, DecisionChecked, JobUpserted,
           SignalQueued, SignalRefused, HandlerRaises, Upserted, Typed,
           TypeOK, HandlerFieldsAgree
      <3>2. \A k \in Tasks : tasks[k].kind # "free" => tasks'[k] = tasks[k]
        BY <2>0, <2>4 DEF HandlerStep, DecisionChecked, JobUpserted,
           SignalQueued, SignalRefused, HandlerRaises, Typed, TypeOK
      <3>3. orphans' = orphans
        BY <2>4 DEF HandlerStep, DecisionChecked, JobUpserted, SignalQueued,
           SignalRefused, HandlerRaises, blame
      <3> QED  BY <2>3, <3>1, <3>2, <3>3
    <2>5. ASSUME NEW j \in Tasks, NEW kind \in {"scan", "manual"}, NEW u,
                 StartJob(j, kind, u)
          PROVE  Covered(t)'
      <3>1. \A k \in Tasks : tasks[k].kind # "free" => tasks'[k] = tasks[k]
        BY <2>0, <2>5 DEF StartJob, Typed, TypeOK
      <3> QED  BY <2>3, <2>5, <3>1 DEF StartJob, blame
    <2>6. CASE UNCHANGED <<tasks, jobs, orphans>>
      BY <2>3, <2>6
    <2>7. CASE ServerRestart
      BY <2>7 DEF ServerRestart, Orphaned
    <2> QED
      BY <1>2, <2>2, <2>4, <2>5, <2>6, <2>7 DEF Next, vars, blame, Request,
         StartScan, StartManual, SignalArrives, CliDecides
  <1> QED  BY <1>1, <1>2, Invariant, PTL DEF Spec

-----------------------------------------------------------------------------
(***************************************************************************)
(* The coordinator implements the lease.                                   *)
(***************************************************************************)
HoldersNow == {k \in Tasks : Holds(k)}

\* The progress of a state is read off its stage, which names are distinct.
LEMMA ProgressValues ==
    /\ \A s : ~s.running => ProgressOf(s) = 0
    /\ \A s : s.stage = "queued" => ProgressOf(s) = 0
    /\ \A s : s.running /\ s.stage \in Ingesting => ProgressOf(s) = 1
    /\ \A s : \A i \in 1..Last :
          s.running /\ s.stage = Stages[i] => ProgressOf(s) = 1 + i
  <1>1. ASSUME NEW s, NEW i \in 1..Last, s.running, s.stage = Stages[i]
        PROVE  ProgressOf(s) = 1 + i
    <2>1. s.stage # "queued" /\ s.stage \notin Ingesting
      BY <1>1, StagesAssumption DEF Last, Ingesting
    <2>2. (CHOOSE j \in 1..Last : Stages[j] = s.stage) = i
      BY <1>1, StagesAssumption DEF Last
    <2> QED  BY <1>1, <2>1, <2>2 DEF ProgressOf
  <1>2. \A s : s.running /\ s.stage \in Ingesting => ProgressOf(s) = 1
    BY DEF ProgressOf, Ingesting
  <1> QED  BY <1>1, <1>2 DEF ProgressOf

\* The only holder is the whole set of holders.
LEMMA LoneHolder ==
  ASSUME IInv, NEW k \in Tasks, Holds(k)
  PROVE  HoldersNow = {k}
  BY DEF IInv, AtMostOneAnalysis, HoldersNow

\* Where the holder is tells the progress.
LEMMA HolderProgress ==
  ASSUME IInv, NEW k \in Tasks, Holds(k)
  PROVE  /\ scan.running
         /\ tasks[k].pc = "created" => ProgressOf(scan) = 0
         /\ tasks[k].pc \in {"mark", "ingest"} => ProgressOf(scan) = 1
         /\ tasks[k].pc = "stage" => ProgressOf(scan) = 1 + tasks[k].at
  <1>1. Truthful(k) /\ Typed
    BY DEF IInv, MonitorIsTruthful, Truthful
  <1>2. tasks[k].pc \in {"mark", "ingest"} => scan.stage \in Ingesting
    BY <1>1 DEF Truthful, Shown, Ingesting
  <1>3. tasks[k].pc = "stage" => tasks[k].at \in 1..Last
                                 /\ scan.stage = Stages[tasks[k].at]
    BY <1>1 DEF Truthful, Shown, Typed, TaskFieldsAgree
  <1>4. scan.running /\ (tasks[k].pc = "created" => scan.stage = "queued")
    BY <1>1 DEF Truthful, Shown
  <1> QED  BY <1>2, <1>3, <1>4, ProgressValues

LeaseUnchanged ==
    HoldersNow' = HoldersNow /\ scan' = scan

LEMMA WorkerRefines ==
  ASSUME IInv, Typed', NEW k \in Tasks, WorkerStep(k)
  PROVE  LeaseUnchanged \/ Lease!Next
  <1> USE DEF HoldersNow
  <1>0. Typed
    BY DEF IInv
  <1>1. \A j \in Tasks : j # k => (Holds(j)' <=> Holds(j))
    BY <1>0, OtherSlots DEF Holds
  <1>2. ASSUME Holds(k), Holds(k)' PROVE HoldersNow' = HoldersNow
    BY <1>1, <1>2
  <1>3. ASSUME Holds(k), ~Holds(k)' PROVE HoldersNow' = {} /\ HoldersNow = {k}
    BY <1>1, <1>3, LoneHolder
  <1>4. CASE WhaleStandsDown(k)
    <2>1. ~Holds(k) /\ ~Holds(k)'
      BY <1>0, <1>4 DEF WhaleStandsDown, Ends, FreeSlot, Holds, Typed, TypeOK
    <2> QED  BY <1>1, <1>4, <2>1 DEF WhaleStandsDown, LeaseUnchanged
  <1>5. CASE WhaleClaims(k)
    <2>1. \A j \in Tasks : ~Holds(j)
      BY <1>5 DEF WhaleClaims, IInv, MonitorIsTruthful
    <2>2. Holds(k)'
      BY <1>0, <1>5 DEF WhaleClaims, Goto, Holds, Typed, TypeOK
    <2>3. HoldersNow' = {k}
      BY <1>1, <2>1, <2>2
    <2>4. scan'.running = TRUE /\ ProgressOf(scan') = 1
      BY <1>5, ProgressValues DEF WhaleClaims, ScanAt, Ingesting
    <2>5. ~scan.running
      BY <1>5 DEF WhaleClaims
    <2> QED  BY <2>3, <2>4, <2>5 DEF Lease!Next, Lease!Claim
  <1>6. CASE Holds(k) /\ Holds(k)' /\ scan' = scan
    BY <1>2, <1>6 DEF LeaseUnchanged
  <1>7. ASSUME Holds(k), Holds(k)', scan'.running = scan.running,
               ProgressOf(scan) \in 0..Last,
               ProgressOf(scan') = ProgressOf(scan) + 1
        PROVE  Lease!Next
    <2>1. Lease!Advance(k)
      BY <1>2, <1>7, StageFacts DEF Lease!Advance
    <2> QED  BY <2>1 DEF Lease!Next
  <1>8. ASSUME Holds(k), ~Holds(k)', scan'.running = FALSE
        PROVE  Lease!Next
    <2>1. Lease!Release(k)
      BY <1>3, <1>8, ProgressValues DEF Lease!Release
    <2> QED  BY <2>1 DEF Lease!Next
  <1>9. ASSUME Holds(k), ~Holds(k)', scan' = scan PROVE Lease!Next
    <2>1. Lease!Lose(k)
      BY <1>3, <1>9 DEF Lease!Lose
    <2> QED  BY <2>1 DEF Lease!Next
  <1>10. CASE Holds(k)
    <2> USE <1>10
    <2>0. scan.running = TRUE
      BY <1>0, HolderProgress DEF Typed, TypeOK
    <2>1. CASE WorkerBegins(k)
      <3>1. Holds(k)' /\ scan'.running = TRUE /\ ProgressOf(scan') = 1
        BY <1>0, <2>1, ProgressValues
           DEF WorkerBegins, Goto, Holds, ScanAt, Ingesting, Typed, TypeOK
      <3>2. ProgressOf(scan) = 0
        BY <2>1, HolderProgress DEF WorkerBegins
      <3>3. ProgressOf(scan) \in 0..Last
              /\ ProgressOf(scan') = ProgressOf(scan) + 1
        BY <3>1, <3>2, StageFacts
      <3>4. Holds(k)' /\ scan'.running = scan.running
        BY <2>0, <3>1
      <3> HIDE DEF HoldersNow
      <3> QED  BY <1>7, <3>3, <3>4
    <2>2. CASE Ingested(k)
      <3>1. /\ tasks'[k].kind = tasks[k].kind /\ tasks'[k].pc = "stage"
            /\ scan' = [scan EXCEPT !.stage = Stages[1]]
        BY <1>0, <2>2 DEF Ingested, Typed, TypeOK
      <3>2. scan'.running = TRUE /\ scan'.stage = Stages[1]
        BY <1>0, <2>0, <3>1 DEF Typed, TypeOK
      <3>3. ProgressOf(scan') = 2
        BY <3>2, ProgressValues, StageFacts
      <3>4. ProgressOf(scan) = 1
        BY <2>2, HolderProgress DEF Ingested
      <3>5. Holds(k)'
        BY <3>1 DEF Holds
      <3>6. ProgressOf(scan) \in 0..Last
        BY <3>4, StageFacts
      <3>7. ProgressOf(scan') = ProgressOf(scan) + 1
        BY <3>3, <3>4
      <3>8. scan'.running = scan.running
        BY <2>0, <3>2
      <3> HIDE DEF HoldersNow
      <3> QED  BY <1>7, <3>5, <3>6, <3>7, <3>8
    <2>3. CASE StageDone(k)
      <3>1. /\ tasks'[k].kind = tasks[k].kind /\ tasks'[k].pc = "stage"
            /\ tasks[k].at \in 1..Last /\ tasks[k].at < Last
            /\ scan' = [scan EXCEPT !.stage = Stages[tasks[k].at + 1]]
        BY <1>0, <2>3 DEF StageDone, Typed, TypeOK, TaskFieldsAgree
      <3>2. scan'.running = TRUE /\ scan'.stage = Stages[tasks[k].at + 1]
        BY <1>0, <2>0, <3>1 DEF Typed, TypeOK
      <3>3. tasks[k].at + 1 \in 1..Last
        BY <3>1, StageFacts
      <3>4. ProgressOf(scan') = 1 + (tasks[k].at + 1)
        BY <3>2, <3>3, ProgressValues
      <3>5. ProgressOf(scan) = 1 + tasks[k].at
        BY <2>3, HolderProgress DEF StageDone
      <3>6. Holds(k)'
        BY <3>1 DEF Holds
      <3>7. ProgressOf(scan) \in 0..Last
              /\ ProgressOf(scan') = ProgressOf(scan) + 1
        BY <3>1, <3>4, <3>5, StageFacts
      <3>8. scan'.running = scan.running
        BY <2>0, <3>2
      <3> HIDE DEF HoldersNow
      <3> QED  BY <1>7, <3>6, <3>7, <3>8
    <2>4. JobMarkedRunning(k) \/ WhalePipelineDone(k) \/ WhaleRaises(k)
            \/ MarkRunningRaises(k) \/ FinishRaises(k)
            \/ (\E t \in Tokens : DecisionSaved(k, t))
            => Holds(k)' /\ scan' = scan
      BY <1>0 DEF JobMarkedRunning, WhalePipelineDone, WhaleRaises,
         MarkRunningRaises, FinishRaises, DecisionSaved, Goto, Holds, Typed,
         TypeOK, TaskFieldsAgree
    <2>5. WorkerFinishes(k) \/ JobFinished(k) \/ WorkerRaises(k)
            \/ JobFailed(k) => ~Holds(k)' /\ scan'.running = FALSE
      BY <1>0 DEF WorkerFinishes, JobFinished, WorkerRaises, JobFailed,
         ScanOver, Ends, FreeSlot, Holds, Typed, TypeOK
    <2>6. FailRaises(k) => ~Holds(k)' /\ scan' = scan
      BY <1>0 DEF FailRaises, Ends, FreeSlot, Holds, Typed, TypeOK
    <2> QED
      BY <1>4, <1>5, <1>6, <1>8, <1>9, <2>1, <2>2, <2>3, <2>4, <2>5, <2>6
         DEF WorkerStep
  <1> QED  BY <1>0, <1>4, <1>5, <1>10, HolderMoves

LEMMA LeaseStep ==
  IInv /\ Typed' /\ [Next]_vars => [Lease!Next]_(Lease!vars)
  <1> SUFFICES ASSUME IInv, Typed', [Next]_vars
               PROVE  LeaseUnchanged \/ Lease!Next
    BY DEF LeaseUnchanged, HoldersNow, Lease!vars
  <1>0. Typed
    BY DEF IInv
  <1>1. CASE UNCHANGED <<scan, tasks>>
    BY <1>1 DEF LeaseUnchanged, HoldersNow, Holds
  <1>2. CASE \E k \in Tasks : WorkerStep(k)
    BY <1>2, WorkerRefines
  <1>3. ASSUME NEW h \in Handlers, HandlerStep(h)
        PROVE  LeaseUnchanged
    <2>1. ASSUME NEW k \in Tasks, SignalQueued(h, k) PROVE LeaseUnchanged
      <3>1. \A j \in Tasks : Holds(j)' <=> Holds(j)
        BY <1>0, <2>1 DEF SignalQueued, NewTask, Holds, Typed, TypeOK
      <3> QED  BY <2>1, <3>1 DEF LeaseUnchanged, HoldersNow, SignalQueued
    <2>2. CASE UNCHANGED <<scan, tasks>>
      BY <2>2 DEF LeaseUnchanged, HoldersNow, Holds
    <2> QED
      BY <1>3, <2>1, <2>2 DEF HandlerStep, DecisionChecked, JobUpserted,
         SignalRefused, HandlerRaises
  <1>4. ASSUME NEW k \in Tasks, NEW kind \in {"scan", "manual"}, NEW t,
               StartJob(k, kind, t)
        PROVE  Lease!Next
    <2>1. \A j \in Tasks : ~Holds(j)
      BY <1>4 DEF StartJob, IInv, MonitorIsTruthful
    <2>2. Holds(k)' /\ \A j \in Tasks : j # k => ~Holds(j)'
      BY <1>0, <1>4, <2>1 DEF StartJob, NewTask, Holds, Typed, TypeOK
    <2>3. HoldersNow' = {k}
      BY <2>2 DEF HoldersNow
    <2>4. ~scan.running /\ scan'.running = TRUE /\ ProgressOf(scan') = 0
      BY <1>4, ProgressValues DEF StartJob, ScanAt
    <2>5. Lease!Claim(k)
      BY <2>3, <2>4 DEF Lease!Claim, HoldersNow
    <2> QED  BY <2>5 DEF Lease!Next
  <1>5. CASE ServerRestart
    <2>1. HoldersNow' = {}
      BY <1>5 DEF ServerRestart, FreeSlot, HoldersNow, Holds
    <2>2. scan'.running = FALSE /\ ProgressOf(scan') = 0
      BY <1>5, ProgressValues DEF ServerRestart, IdleScan
    <2>3. Lease!Restart
      BY <2>1, <2>2 DEF Lease!Restart, HoldersNow
    <2> QED  BY <2>3 DEF Lease!Next
  <1>6. Request => LeaseUnchanged \/ Lease!Next
    <2>1. ASSUME NEW h \in Handlers, NEW t \in Tokens, SignalArrives(h, t)
          PROVE  LeaseUnchanged
      BY <2>1 DEF SignalArrives, LeaseUnchanged, HoldersNow, Holds
    <2> QED  BY <1>4, <2>1 DEF Request, StartScan, StartManual
  <1> QED
    BY <1>1, <1>2, <1>3, <1>5, <1>6 DEF Next, vars, CliDecides

\* The coordinator implements the lease: the flag is claimed only when free,
\* progress only grows, and only the analysis that holds the flag clears it.
THEOREM Refinement == Spec => ImplementsLease
  <1>1. Init => Lease!Init
    <2> SUFFICES ASSUME Init PROVE Lease!Init
      OBVIOUS
    <2>1. {k \in Tasks : Holds(k)} = {}
      BY DEF Init, FreeSlot, Holds
    <2>2. scan.running = FALSE /\ ProgressOf(scan) = 0
      BY ProgressValues DEF Init, IdleScan
    <2> QED  BY <2>1, <2>2 DEF Lease!Init
  <1>2. IInv /\ IInv' /\ [Next]_vars => [Lease!Next]_(Lease!vars)
    BY LeaseStep DEF IInv
  <1> QED  BY <1>1, <1>2, Invariant, PTL DEF Spec, ImplementsLease, Lease!Spec
=============================================================================
