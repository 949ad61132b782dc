--------------------------- MODULE AnalysisPipeline ---------------------------
(***************************************************************************)
(* The ten analysis stages over the run-scoped result tables: the server's *)
(* pipeline, which is told its run, and the command-line scripts, whose    *)
(* every stage asks for MAX(id) FROM ingestion_runs and whose decision     *)
(* stage decides all runs.  Each stage first reads its inputs with one     *)
(* query and then saves one row per token; what happens between two saves  *)
(* is the other process's turn.                                            *)
(***************************************************************************)
EXTENDS DecisionRules

CONSTANTS
    Tokens,         \* token addresses
    MaxRuns,        \* bound on the ingestion runs explored
    MaxCliPasses,   \* bound on the command-line pipelines explored
    Possible,       \* what a stage may find: verdicts of each layer
    Faults          \* what may go wrong: "relations", "histories", "crash"

ASSUME MaxRunsAssumption == MaxRuns \in Nat
ASSUME MaxCliPassesAssumption == MaxCliPasses \in Nat
ASSUME PossibleAssumption ==
    \A l \in Layers : Possible[l] \subseteq Findings(l)
ASSUME FaultsAssumption ==
    Faults \subseteq {"relations", "histories", "crash"}

Runs == 1..MaxRuns
Procs == {"server", "cli"}

VARIABLES
    latest,      \* MAX(id) FROM ingestion_runs, 0 without one
    ready,       \* token_data_readiness: the tokens a run has data for
    row,         \* the result tables: a verdict per run, token and layer
    decision,    \* watchlist_decisions: final_watchlist_status, or "none"
    summary,     \* watchlist_decisions.intelligence_summary, as its verdict
    pipes,       \* how far each process is
    cliPasses    \* command-line passes so far

vars == <<latest, ready, row, decision, summary, pipes, cliPasses>>

\* Mutant: the developer's flow is analysed after the decision.
Stages_FlowLast ==
    << "market", "contract", "liquidity", "wallet", "cluster", "intelligence",
       "manipulation", "dev_audit", "decision", "dev_flow" >>

\* The stages in order, by the layer they fill; the last one decides.
Stages ==
    << "market", "contract", "liquidity", "wallet", "cluster", "intelligence",
       "manipulation", "dev_audit", "dev_flow", "decision" >>

NoRow == [l \in Layers |-> "none"]

Outcomes ==
    {"WATCHLIST_REJECT_MARKET", "WATCHLIST_WAIT_SECURITY_DATA",
     "WATCHLIST_REJECT_CONTRACT_RISK", "WATCHLIST_WAIT_LIQUIDITY",
     "WATCHLIST_REJECT_LIQUIDITY", "WATCHLIST_WAIT_WALLET_DATA",
     "WATCHLIST_REJECT_WALLET_RISK", "WATCHLIST_WAIT_CLUSTER_DATA",
     "WATCHLIST_REJECT_CLUSTER_RISK", "WATCHLIST_WAIT_MANIPULATION_DATA",
     "WATCHLIST_REJECT_WALLET_MANIPULATION", "WATCHLIST_REJECT_DEV_WALLET",
     "WATCHLIST_REJECT_DEV_FLOW", "WATCHLIST_REJECT_WALLET_INTELLIGENCE",
     "WATCHLIST_PASS", "WATCHLIST_PASS_HIGH_RISK", "WATCHLIST_REVIEW"}

\* at, until: the stage a process is in and its last one; run: the run_id
\* it was given, 0 for None; todo: the rows its query returned.
Pipe(pc, at, until, run, todo) ==
    [pc |-> pc, at |-> at, until |-> until, run |-> run, todo |-> todo]

IdlePipe == Pipe("idle", 0, 0, 0, {})

Init ==
    /\ latest = 0
    /\ ready = [r \in Runs |-> {}]
    /\ row = [r \in Runs |-> [t \in Tokens |-> NoRow]]
    /\ decision = [r \in Runs |-> [t \in Tokens |-> "none"]]
    /\ summary = [r \in Runs |-> [t \in Tokens |-> "none"]]
    /\ pipes = [p \in Procs |-> IdlePipe]
    /\ cliPasses = 0

Stage(p) == Stages[pipes[p].at]

-----------------------------------------------------------------------------
(***************************************************************************)
(* Ingestion, as far as the stages see it: the server's own run, and that  *)
(* of the command line, a script of its own that starts no pipeline.       *)
(***************************************************************************)
ServerIngests ==
    /\ pipes["server"].pc = "idle"
    /\ latest < MaxRuns
    /\ latest' = latest + 1
    /\ pipes' = [pipes EXCEPT !["server"] = Pipe("ingest", 0, 0, latest + 1, {})]
    /\ UNCHANGED <<ready, row, decision, summary, cliPasses>>

\* The run's tokens are stored, all those that can be.
IngestionEnds ==
    /\ pipes["server"].pc = "ingest"
    /\ \E S \in SUBSET Tokens :
          ready' = [ready EXCEPT ![pipes["server"].run] = S]
    /\ pipes' = [pipes EXCEPT !["server"] =
                    Pipe("read", 1, 10, pipes["server"].run, {})]
    /\ UNCHANGED <<latest, row, decision, summary, cliPasses>>

CliIngests ==
    /\ latest < MaxRuns
    /\ latest' = latest + 1
    /\ \E S \in SUBSET Tokens : ready' = [ready EXCEPT ![latest + 1] = S]
    /\ UNCHANGED <<row, decision, summary, pipes, cliPasses>>

\* memeco-pipeline runs all ten stages, every other script one.
CliStarts ==
    /\ pipes["cli"].pc = "idle"
    /\ cliPasses < MaxCliPasses
    /\ \E first \in 1..10, last \in 1..10 :
          /\ last = first \/ (first = 1 /\ last = 10)
          /\ pipes' = [pipes EXCEPT !["cli"] = Pipe("read", first, last, 0, {})]
    /\ cliPasses' = cliPasses + 1
    /\ UNCHANGED <<latest, ready, row, decision, summary>>

-----------------------------------------------------------------------------
(***************************************************************************)
(* One stage.                                                              *)
(***************************************************************************)
\* Mutant: the server's stages fall back on the latest run, too.
RunsOf_Latest(p) == {latest} \ {0}

\* COALESCE($1, (SELECT MAX(id) FROM ingestion_runs)): the runs a stage that
\* is not the decision reads.  One run, or none before the first ingestion.
RunsOf(p) == {IF p = "server" THEN pipes[p].run ELSE latest} \ {0}

\* The tokens a stage's query may return for run r.  token_holders, which
\* the intelligence stage reads, has rows for every token whose distribution
\* was judged, and perhaps for others whose contract report was read: their
\* percentages were missing, or the stage stopped before its judgement.
Judged(v) == v \in {"danger", "warning", "pass"}

Inputs(stage, r) ==
    LET With(l) == {t \in Tokens : row[r][t][l] # "none"}
        Passed == {t \in Tokens : PassFlag(row[r][t]["market"])}
        Holders == {t \in Tokens : Judged(row[r][t]["wallet"])}
    IN  CASE stage = "market" -> {ready[r]}
          [] stage \in {"contract", "liquidity"} -> {Passed}
          [] stage \in {"wallet", "dev_audit", "dev_flow"} -> {With("contract")}
          [] stage \in {"cluster", "manipulation"} -> {With("wallet")}
          [] stage = "intelligence" ->
                {S \in SUBSET With("contract") : Holders \subseteq S}

Item(r, t) == [run |-> r, token |-> t, outcome |-> "none", labels |-> "none"]

\* The decision stage classifies what it has read, not what it overwrites.
DecisionItem(r, t) ==
    [run |-> r, token |-> t,
     outcome |-> classify_watchlist_decision(row[r][t]),
     labels |-> row[r][t]["intelligence"]]

DecidedRuns(p) == IF p = "server" THEN {pipes[p].run} ELSE Runs

\* Without run_id the query has no condition on the run.
DecisionItems(p) ==
    LET Read == {x \in DecidedRuns(p) \X Tokens :
                    row[x[1]][x[2]]["market"] # "none"}
    IN  {DecisionItem(x[1], x[2]) : x \in Read}

Has(p, items) ==
    pipes' = [pipes EXCEPT ![p] =
        Pipe("save", pipes[p].at, pipes[p].until, pipes[p].run, items)]

StageReads(p) ==
    /\ pipes[p].pc = "read"
    /\ \/ Stage(p) = "decision" /\ Has(p, DecisionItems(p))
       \/ Stage(p) # "decision" /\ RunsOf(p) = {} /\ Has(p, {})
       \/ /\ Stage(p) # "decision"
          /\ \E r \in RunsOf(p) : \E S \in Inputs(Stage(p), r) :
                Has(p, {Item(r, t) : t \in S})
    /\ UNCHANGED <<latest, ready, row, decision, summary, cliPasses>>

SaveRow(i, l, v) ==
    row' = [row EXCEPT ![i.run] =
               [row[i.run] EXCEPT ![i.token] =
                   [row[i.run][i.token] EXCEPT ![l] = v]]]

\* A row is upserted.  The intelligence stage saves one row per holder: the
\* verdict is that of the holders so far and only the last one ends the
\* token.  Two holders stand for all: item.labels marks the one seen.
StageSaves(p) ==
    /\ pipes[p].pc = "save"
    /\ Stage(p) # "decision"
    /\ \E i \in pipes[p].todo, v \in Possible[Stage(p)] :
          /\ SaveRow(i, Stage(p), v)
          /\ \/ pipes' = [pipes EXCEPT ![p].todo = @ \ {i}]
             \/ /\ Stage(p) = "intelligence"
                /\ i.labels = "none"
                /\ pipes' = [pipes EXCEPT ![p].todo =
                       (@ \ {i}) \cup {[i EXCEPT !.labels = v]}]
    /\ UNCHANGED <<latest, ready, decision, summary, cliPasses>>

DecisionSaves(p) ==
    /\ pipes[p].pc = "save"
    /\ Stage(p) = "decision"
    /\ \E i \in pipes[p].todo :
          /\ decision' = [decision EXCEPT ![i.run] =
                 [decision[i.run] EXCEPT ![i.token] = i.outcome]]
          /\ summary' = [summary EXCEPT ![i.run] =
                 [summary[i.run] EXCEPT ![i.token] = i.labels]]
          /\ pipes' = [pipes EXCEPT ![p].todo = @ \ {i}]
    /\ UNCHANGED <<latest, ready, row, cliPasses>>

\* update_watchlist_intelligence_summary: the stored decisions of all runs
\* get the labels as they are now; what was decided stays as it is.
RewrittenSummaries ==
    [r \in Runs |-> [t \in Tokens |->
        IF decision[r][t] # "none" /\ row[r][t]["intelligence"] # "none"
        THEN row[r][t]["intelligence"] ELSE summary[r][t]]]

StageEnds(p) ==
    /\ pipes[p].pc = "save"
    /\ pipes[p].todo = {}
    /\ summary' = IF Stage(p) = "intelligence" THEN RewrittenSummaries ELSE summary
    /\ IF pipes[p].at = pipes[p].until
       THEN pipes' = [pipes EXCEPT ![p] = IdlePipe]
       ELSE pipes' = [pipes EXCEPT ![p] =
                Pipe("read", pipes[p].at + 1, pipes[p].until, pipes[p].run, {})]
    /\ UNCHANGED <<latest, ready, row, decision, cliPasses>>

-----------------------------------------------------------------------------
(***************************************************************************)
(* What goes wrong: Helius gives up on a wallet after its retries, in the  *)
(* stages that follow relations between holders or in those that read one  *)
(* wallet's history; or the pipeline ends on any other exception or with   *)
(* its process.                                                            *)
(***************************************************************************)
\* Cluster and manipulation analysis record the failure and go on.
UpstreamRecorded(p) ==
    /\ "relations" \in Faults
    /\ pipes[p].pc = "save"
    /\ Stage(p) \in {"cluster", "manipulation"}
    /\ \E i \in pipes[p].todo :
          /\ SaveRow(i, Stage(p), "unknown")
          /\ pipes' = [pipes EXCEPT ![p].todo = @ \ {i}]
    /\ UNCHANGED <<latest, ready, decision, summary, cliPasses>>

\* Mutant: the token is skipped without a row.
UpstreamAborts_SkipsToken(p) ==
    /\ "histories" \in Faults
    /\ pipes[p].pc = "save"
    /\ Stage(p) \in {"intelligence", "dev_audit", "dev_flow"}
    /\ \E i \in pipes[p].todo :
          pipes' = [pipes EXCEPT ![p].todo = @ \ {i}]
    /\ UNCHANGED <<latest, ready, row, decision, summary, cliPasses>>

\* The three other stages that ask Helius catch other errors only: the
\* exception ends the pipeline, with no decision for any token.
UpstreamAborts(p) ==
    /\ "histories" \in Faults
    /\ pipes[p].pc = "save"
    /\ Stage(p) \in {"intelligence", "dev_audit", "dev_flow"}
    /\ pipes[p].todo # {}
    /\ pipes' = [pipes EXCEPT ![p] = IdlePipe]
    /\ UNCHANGED <<latest, ready, row, decision, summary, cliPasses>>

Stops(p) ==
    /\ "crash" \in Faults
    /\ pipes[p].pc # "idle"
    /\ pipes' = [pipes EXCEPT ![p] = IdlePipe]
    /\ UNCHANGED <<latest, ready, row, decision, summary, cliPasses>>

-----------------------------------------------------------------------------
Works(p) == StageReads(p) \/ StageSaves(p) \/ DecisionSaves(p) \/ StageEnds(p)

Next ==
    \/ ServerIngests
    \/ IngestionEnds
    \/ CliIngests
    \/ CliStarts
    \/ \E p \in Procs :
          \/ StageReads(p)
          \/ StageSaves(p)
          \/ DecisionSaves(p)
          \/ StageEnds(p)
          \/ UpstreamRecorded(p)
          \/ UpstreamAborts(p)
          \/ Stops(p)

Spec == Init /\ [][Next]_vars

\* A pipeline that has started goes on: every await in it ends.
Fairness ==
    /\ WF_vars(IngestionEnds)
    /\ \A p \in Procs : WF_vars(Works(p))

FairSpec == Spec /\ Fairness

-----------------------------------------------------------------------------
(***************************************************************************)
(* Properties                                                              *)
(***************************************************************************)
Labels == Findings("intelligence") \cup {"none"}

Items == [run : Runs, token : Tokens,
          outcome : Outcomes \cup {"none"}, labels : Labels]

Pipes == [pc : {"idle", "ingest", "read", "save"}, at : 0..10, until : 0..10,
          run : 0..MaxRuns, todo : SUBSET Items]

\* A process works on one of the ten stages, the server's on a run it made.
PipesOK ==
    /\ pipes \in [Procs -> Pipes]
    /\ \A p \in Procs : pipes[p].pc \in {"read", "save"} =>
          pipes[p].at \in 1..10 /\ pipes[p].until \in pipes[p].at..10
    /\ pipes["server"].pc # "idle" => pipes["server"].run \in 1..latest
    /\ pipes["cli"].pc # "ingest"

\* Each layer holds only what its own stage can write.
RowsOK ==
    /\ row \in [Runs -> [Tokens -> [Layers -> Verdicts]]]
    /\ \A r \in Runs, t \in Tokens, l \in Layers :
          row[r][t][l] \in Findings(l) \cup {"none"}

\* The states of the tables and of the two processes.
TypeOK ==
    /\ latest \in 0..MaxRuns
    /\ ready \in [Runs -> SUBSET Tokens]
    /\ RowsOK
    /\ decision \in [Runs -> [Tokens -> Outcomes \cup {"none"}]]
    /\ summary \in [Runs -> [Tokens -> Labels]]
    /\ PipesOK
    /\ cliPasses \in 0..MaxCliPasses

\* Until the first script runs a stage, a token that was let pass has an
\* answer in every one of the nine layers, the developer's and the holders'
\* intelligence included, although classify_watchlist_decision does not ask
\* for those three.  The pipeline's order and its way of failing provide them.
PassSawEveryLayer ==
    cliPasses = 0 =>
        \A r \in Runs, t \in Tokens :
            Passes(decision[r][t]) =>
                \A l \in Layers : row[r][t][l] # "none"

\* Until then, too, a decision is the classification of the rows as they are
\* and shows the labels that it judged: nothing is written to a decided run.
DecisionIsCurrent ==
    cliPasses = 0 =>
        \A r \in Runs, t \in Tokens :
            decision[r][t] # "none" =>
                /\ decision[r][t] = classify_watchlist_decision(row[r][t])
                /\ summary[r][t] = row[r][t]["intelligence"]

\* However the scripts interleave with the server, on whichever run, a token
\* passes only if the five layers that must answer have answered for it.
SafetyLayers == {"contract", "liquidity", "wallet", "cluster", "manipulation"}
PassHasSafetyAnswers ==
    \A r \in Runs, t \in Tokens :
        Passes(decision[r][t]) =>
            \A l \in SafetyLayers : row[r][t][l] # "none"

\* "Helius-driven services (cluster, dev-flow, wallet intelligence) still
\* skip-and-continue on `UpstreamUnavailable`" (CHANGES.md:796-797): what the
\* market filter looked at is decided in the end, whatever Helius answers.
RunsAreDecided ==
    \A r \in Runs, t \in Tokens :
        row[r][t]["market"] # "none" ~> decision[r][t] # "none"
=============================================================================
