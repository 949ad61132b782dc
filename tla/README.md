# Verification of the meme-coin watchlist server

TLA+ models of the server under `src/app`, their TLC runs, and machine-checked
proofs. File references are relative to `src/`.

## 1. The system

One FastAPI process (asyncio, one event loop) and one PostgreSQL database. The
process ingests tokens from DexScreener, runs ten analysis stages over an
ingestion run, and decides for each token whether to watch it. Wallets that
bought early winners become *whale wallets*; a Helius webhook reports their
trades and may start an analysis by itself. Command-line entry points run the
same services in processes of their own, against the same database.

### Inventory

| Component | State it keeps | Operations | What is hard |
|---|---|---|---|
| Job coordinator (`app/jobs/workers.py`, `web_server.py:1228-1343, 1840-1911`) | `SCAN_STATE` in memory, `whale_signal_analysis_jobs` rows | start scan / manual / whale analysis, ten stages, webhook handler | many claimants of one flag; statements that fail; restarts that lose the memory and keep the rows |
| Live events (`app/jobs/scan_state.py`, `/api/events`, dashboard `index.js`) | subscriber queues, sockets, what each page shows | update, append step, subscribe, snapshot, forward, reconnect, poll | bounded queues, slow pages, two sources of truth in one page |
| Watchlist decision (`services/watchlist_decision_service.py`) | `watchlist_decisions`, `watchlist` | read the results of a run, classify, upsert | a missing result of one stage must not read as a pass |
| Analysis pipeline (`jobs/workers.py:51-132`, `run_analysis_pipeline.py`, migration 014) | run-scoped result tables | ten stages in order, each of them reads the tables of earlier ones | a stage that fails for one token or for all; `MAX(id)` read by each stage of the CLI |
| Ingestion (`ingest_dexscreener.py`, `risk.py`, `tokens.py`, `pairs.py`, `prices.py`, `system.py`) | `ingestion_runs`, `tokens`, `pairs`, snapshots, `risk_checks` | discover, ingest a token, manual ingestion | one failing token among many; a crash leaves a run `running` |
| Upstream clients (`http_utils.py`, `dexscreener.py`, `helius.py`) | limiter timestamps | request, retry, back off | retries bypass the limiter; exhausted retries raise a type that few callers catch |
| Market, contract, liquidity filters | result rows | classify a token | boundaries, missing data, the newest price of a pair instead of the run's |
| Holder, cluster, manipulation analyses | result rows, funding edges | fetch histories, classify | partial failure of parallel fetches |
| Wallet intelligence, developer audit and flow | wallet summaries, audit rows | fetch histories, classify | an upstream error ends the pipeline; a fetch error reads as an empty history |
| Whale wallets (discovery, reverse discovery, survival, consistency audit, scoring) | `whale_wallets`, profiles, clean-elite table | discover, score, demote | scores computed from tables other jobs rewrite |
| Whale signals, webhook sync | `whale_signals`, the webhook at Helius | store a signal, create or update the webhook | partial batches, crash between the remote call and the saved id |
| Migration runner (`apply_migrations.py`) | `schema_migrations` | apply pending files | two runners, failure inside a file |

Components interact through three media: the event loop (shared `SCAN_STATE`,
tasks, queues), the database (each stage reads what the earlier ones wrote;
the webhook handler reads decisions and writes jobs), and HTTP to DexScreener,
Helius and the browser.

### What makes each component correct

* Coordinator: one analysis at a time; the monitor shows what that analysis is
  doing; the flag is always given back; a job row is closed by the analysis
  that runs it; a signal for an undecided token is not lost.
* Events: order per connection; nothing announced is lost while the queue has
  room; every page that reads ends up showing the newest state.
* Decision and pipeline: a `PASS` needs every safety stage of the same run to
  have passed; an upstream failure for one token ends neither the run nor the
  other tokens; no decision mixes runs.
* Ingestion: one token's failure is recorded and leaves the others alone; a
  run is closed with the right status.
* Upstream: bounded attempts, no more than the allowed rate, back-off respects
  `Retry-After`.
* Webhook: one webhook at Helius per server, known to the database.

## 2. Structure

| # | Modules | Composes | Checks and proofs |
|---|---|---|---|
| 1 | `ScanJobs`, `AnalysisLease`, `MCScanJobs`, `ScanJobs_proofs` | refines `AnalysisLease` | safety and liveness with faults and restarts, refinement; all safety invariants and the refinement proved |
| 2 | `ScanEvents`, `ScanEvents_proofs` | beside 1 (a version stands for its `SCAN_STATE`) | bounds, order, no loss, catch-up; all invariants proved |
| 3 | `DecisionRules`, `AnalysisPipeline`, `MCAnalysisPipeline`, `Decision_proofs` | the pipeline's last stage applies `DecisionRules` | partial failure, scripts beside the server, what a decision rests on; all safety invariants proved |
| 4 | `TokenEvidence`, `DecisionTable`, `EvidenceTable`, `FoldFacts`, `Decision_proofs` | the classifiers that 3 calls, down to the decision | evidence at the boundaries; all proved, the judgements for all evidence, the decision for every row |
| 5 | `IngestionRuns`, `Ingestion`, `MCIngestion`, `Ingestion_proofs` | feeds 3 and 4; refines `IngestionRuns` | what a candidate has, counters, trail of an outage, abandoned runs, refinement; all proved |
| 6 | `UpstreamRequests`, `UpstreamRequests_proofs` | what 3, 5, 7 and 8 call | rate, back-off, meaning of "unavailable", every call ends; all but the last proved |
| 7 | `WhaleWebhook`, `WhaleSignals`, `MCWhaleSignals`, `Whale_proofs` | `WhaleSignals` extends `WhaleWebhook`; feeds 1 | webhooks at Helius, accepted signals, queue against alerts; all proved |
| 8 | `WhaleScoring`, `WhaleWallets`, `MCWhaleWallets`, `FoldFacts`, `Whale_proofs` | `WhaleWallets` applies `WhaleScoring`; 7 sees its results as a profile | tables of five services that overlap and fail; all proved |
| 9 | `Migrations`, `MCMigrations`, `Migrations_proofs` | the schema of all | order, completeness and idempotency of applied files; all proved |

Modules that theorems are about use no recursive operator; parameters are
constants with named assumptions; invariants are conjunctions of named parts.

There is one run per question, twelve in all: eleven pass, and one,
`jobs_queued_forever`, ends in a counterexample to a sentence of the
documentation. Other sentences that the code does not keep are named below,
beside the module in which the model shows them, and under the hazards of
`PROJECT.json`; no run is spent on them.

## 3. Modules

### ScanJobs: the job coordinator

An asyncio task runs undisturbed from one `await` to the next, so an action is
such a segment together with the answer of the `await` that ends it. A
statement that fails may or may not have been committed: the `...Raises`
actions choose.

| TLA+ | code |
|---|---|
| `scan` | `SCAN_STATE["running"], ["status"], ["stage"]` |
| `tasks[k]` | a worker coroutine: which kind, which token, how far (`pc`, `at`) |
| `handlers[h]` | one `POST /api/whale-signal` request between two statements |
| `jobs[t]` | status of the row of token `t` in `whale_signal_analysis_jobs` |
| `decided` | tokens with a row in `watchlist_decisions` |
| `StartScan`, `StartManual` | `start_scan_job`, `start_manual_token_job`, with their routes |
| `WorkerBegins` .. `WorkerRaises` | `scan_worker`, `manual_token_worker` |
| `WhaleStandsDown` .. `FailRaises` | `whale_signal_token_worker` and the three `mark_signal_analysis_*` |
| `SignalArrives` .. `HandlerRaises` | `maybe_queue_whale_signal_analysis` from the decision check on |
| `CliDecides` | the command-line pipeline, which does not know `SCAN_STATE` |
| `ServerRestart` | the process is replaced; `lifespan` repairs nothing |

`AnalysisLease` is what the coordinator promises: analyses take turns under a
lease, progress only grows, only the holder gives the lease back (or is lost
with the lease taken). `ScanJobs!ImplementsLease` is the refinement, with the
holders being the tasks past their claim and progress the position of
`SCAN_STATE["stage"]` in the pipeline.

Runs (`MCScanJobs`): `jobs_safety` has two tokens, three task slots, two
requests, failing statements and one restart, and checks the invariants and
the refinement. Two tokens tell one's own row from another's; three slots
allow a holder, a worker standing down and one being created; two requests
interleave their two statements. Two stages are enough to tell the last stage
from the others; the proofs hold for any list.

In the code two things leave a flag or a `RUNNING` row without a worker, and two
history variables record them: `stuck` is set when the `FAILED` update in the
`except` branch raises, `orphans` are the rows left by that and by a restart.
`FlagHasHolder` and `RunningJobHasWorker` say that nothing else does, in the
same run; `jobs_liveness`, with the same faults, one request less and two slots,
without symmetry, says that otherwise every analysis gives the flag back
(`AnalysisEnds`) and every `RUNNING` row is closed (`RunningJobCloses`).
`jobs_queued_forever` ends in a counterexample to what a
comment says: no flush picks up a job whose worker stood down.

Three more behaviours of the model contradict the documentation, without a run
of their own. The `FAILED` update may raise in the `except` branch, and the
flag then stays set until the server restarts. A row left `FINISHED` by an
analysis that decided nothing, or `RUNNING` by a restart, refuses every later
signal for a token that has no decision. And the two statements of the
duplicate guard let a decision between them, so that a decided token gets a
job (against `PROJECT_OVERVIEW.md:157`).

Fairness: weak fairness of each worker and each request, since the event loop
runs ready tasks and every await ends (timeouts and bounded retries upstream).
No fairness for requests, restarts or the CLI. `jobs_queued_forever` adds
strong fairness of signals for every token, so that "a future signal" keeps
coming and the finding does not rest on their absence.

Deadlock is checked in every run of `MCScanJobs`.

### ScanEvents: from a state change to the page

A state of `SCAN_STATE` is its version. `conn[n].posted` are the callbacks
`call_soon_threadsafe` scheduled for the queue of connection `n`, `queue` the
`asyncio.Queue`, `wire` the socket, which takes `WireMax` messages before the
generator has to wait. Connections are used once each, so that callbacks of a
closed connection never reach a new one. `dash[d]` is a page: its stream, the
state it shows (`view`), the newest state its stream brought (`heard`), its
outstanding `/api/scan/status` request.

Runs: `events_stream` has one prompt page with two connections, one after the
other, a queue of two and two changes, each of which may be two events, so the
queue overflows in some behaviours and in others not; `conn[n].lost` tells
which. It checks the bounds and the order in all of them, and where the queue
was never full that nothing announced is lost and that the page catches up,
with fairness of the loop's callbacks, of the generator and of the page's
reads only. `TypeOK`, which is proved, is more than types: a connection that is
not in use has no link and holds nothing, and the queue and the socket keep to
their bounds.
When the queue was full the page may show an old state until the next change:
a dropped final state is never resynced.
A status answer overtaken by the stream is in the model too, and is shown
until the next change. The server may stop changing state, so deadlock is not
checked here: a page that heard everything has nothing to do once the bounds
are used up.

Left out: half-open connections the browser does not notice; the list of steps
(presentation only); a client that goes away before its response begins to
stream (whether its queue is then removed depends on the web framework).

### DecisionRules, DecisionTable: the watchlist decision

A row has nine layers; a layer holds a *verdict*, which stands for a status
and its pass flag: `none` (the LEFT JOIN found no row), `unknown`, `danger`,
`warning`, `pass`. The header of `DecisionRules` lists which statuses are
which. `classify_watchlist_decision` keeps the order of the code's early
returns; `Findings(l)` is what the stage of a layer can write.

`DecisionTable` states what is expected of the decision for any of the 937,500
rows the stages may leave:

* `PassIsAnswered`: a pass has answers from the five layers that must answer,
  and no danger in any of the nine.
* `FirstObjectionNamed`: the documented order of `PROJECT_OVERVIEW.md`; a
  row without objections passes, so `WATCHLIST_REVIEW` is never reached.
* `WorseFinding` and `Caution`, for `WorseningNeverRescues`: a finding that
  gets worse does not make the outcome less cautious. A layer that falls
  silent is not a worse finding when it is one of the three the decision does
  not wait for: a missing developer audit does let a token pass that a
  dangerous one would stop, and the next modules show what stands in for that
  check.

All three are proved for every row; `evidence_table` checks the second on the
rows that evidence leads to (`FirstObjectionDecides`).

### TokenEvidence, EvidenceTable: what the stages conclude

The pipeline model lets a stage find any verdict. `TokenEvidence` says which:
it has the classifiers of the nine stages, from the facts they look at to the
verdict, the decision and the insider probability. A piece of evidence is a
record; its fields and what they stand for are in the module's header. A value
that may be missing is a set of at most one number. Thresholds are the code's;
a holder's percentage is in tenths, the probability in hundredths.

Abstracted: how a wallet's history becomes amounts, times and counts; the
fetches themselves, of which only success or failure is left (`answered`,
`configured`, `auditAnswered`, `flowAnswered`, an empty history of a wallet);
rounding. The developer's history is asked for twice, by the audit
(`dev_wallet_audit_service.py:333`) and by the flow stage, and either request
may fail alone. What he moved is `direct`, to recipients that received enough
to be followed, and `moved`, to others.

`EvidenceTable` starts from spotless evidence and spoils up to three facts, at
the values around each threshold. `Downhill` orders the values of a field from
good to bad. Fields without such an order are in `Sideways`: trades and volume
(too little and too much are both held against a token), market value, age,
what the developer bought and what he moved to others (both make the part
smaller that he handed to those who are followed), and a missing answer of the
developer's history. Three defects at a time reach every threshold that is a
sum of scores from below and above. The walk ends when its defects are used up,
so deadlock is not checked.

`evidence_table` checks, over 152,162 states:

* `SilenceNeverPasses`: no token passes without age, market value, volume,
  liquidity, listed holders or visible funders.
* `CleanPassIsLow`: a token shown as a clean pass is not shown with a medium
  insider probability; two functions with thresholds of their own agree.
* `WorseEvidenceNeverHelps`: a worse fact never makes the decision less
  cautious. Facts hide one another (a developer who sold everything is not
  "without balance"), so this is more than the monotony of each classifier.
  One fact is excepted (`Told`): sales of which the audit heard nothing. To the
  flow stage alone a developer who sold more is one who had more at first, and
  what he handed out is a smaller part of it; so when only the audit's request
  failed, more sales make a token look better.

`VerdictsAreFindings`, which is proved, ties the three models together: what
`DecisionTable` and `AnalysisPipeline` assume of a stage is what its classifier
writes.

An unanswered developer or holder history is no silence in this sense: the code
reads it as an empty history, `DEV_HOLDING` and `INTELLIGENCE_NEUTRAL`. A zero
that a RugCheck report states first is skipped by the chains of `or` in
`rugcheck_has_no_data`, although `contract_risk_service.py:54` gives
"supply=0, holders=0, marketCap=0" as its example of a report without data;
the model keeps this (`FirstOf`), and such a token is stopped by the wallet
layer instead when nobody is listed as a holder.

### AnalysisPipeline: ten stages over the tables of all runs

| TLA+ | code |
|---|---|
| `latest` | `MAX(id) FROM ingestion_runs` |
| `ready[r]` | tokens with a readiness row in run `r` (migration 014) |
| `row[r][t][l]` | the result tables of the nine stages that fill a layer |
| `decision`, `summary` | `final_watchlist_status` and `intelligence_summary` of `watchlist_decisions` |
| `pipes[p]` | how far a process is: stage (`at`), its last one (`until`), its `run_id`, the rows its query returned and it has not saved yet (`todo`) |
| `StageReads`, `StageSaves`, `StageEnds` | one stage: the query, an upsert per token, the return; the intelligence stage upserts per holder and ends by rewriting all stored summaries |
| `DecisionSaves` | the upsert of a decision that was classified from what the query returned |
| `UpstreamRecorded` | cluster and manipulation analysis catch `UpstreamUnavailable` and save an UNKNOWN row |
| `UpstreamAborts` | the three other stages that ask Helius do not catch it |
| `Stops` | any other exception, or the end of the process |

The server is told its run. A script asks for the newest run in each stage and
decides *all* runs. There is one server process and one script at a time;
`CliStarts` is the whole pipeline or any single stage.

Three kinds of `Faults`: `relations` is Helius giving up in the stages that
record it (`UpstreamRecorded`), `histories` in those that do not
(`UpstreamAborts`), `crash` is `Stops`.

Runs, all of `MCAnalysisPipeline`. They may stop, having used their bounds, so
deadlock is not checked; `pipeline_decides` says what must happen instead.

| Run | Instance | Shows |
|---|---|---|
| `pipeline_safety` | one token, two ingestion runs, one script, all faults | `PassSawEveryLayer`, `DecisionIsCurrent`, `PassHasSafetyAnswers` |
| `pipeline_decides` | two tokens, two runs, no script, `relations` | `RunsAreDecided`, under fairness |

Two runs tell a run from the newest one; two tokens tell a stage that loses
one token from one that loses all. What the stages find is thinned out to what
a run tells apart. `RiskyFlow`: the developer's flow is a warning when it was
analysed, so a decision that preceded the analysis differs from one that
followed it. `SomeContracts`: tokens with and without contract data. The
proofs below have no such restriction.

`PassSawEveryLayer` and `DecisionIsCurrent` speak of the time before the first
script (`cliPasses = 0`), for a script breaks both: the decision script decides
the server's unfinished run, in which the rows of three layers may still be
missing and count as no objection; and a stage run from a script rewrites rows
that were decided. `PassHasSafetyAnswers` has no such condition.

With `histories` among the faults `RunsAreDecided` does not hold, and no run is
spent on it: `CHANGES.md:796-797` says that cluster analysis, developer
flow and wallet intelligence skip a token when Helius is unavailable. The
`except` clauses of the intelligence, audit and flow stages do not name
`UpstreamUnavailable`, so the pipeline ends and no token of the run is decided.

Fairness: weak fairness of ingestion's end and of each process's next step,
since every `await` in a stage ends. None for the start of ingestion or of a
script, nor for failures.

### IngestionRuns, Ingestion: storing what DexScreener tells

| TLA+ | code |
|---|---|
| `runs`, `latest` | `ingestion_runs` and its `MAX(id)` |
| `tokens`, `owner`, `prices`, `snapshots` | `tokens`, `token_pairs.token_id`, `token_prices`, `raw_api_snapshots` |
| `checks`, `trails` | `risk_checks` of a token, by what they were computed from, and the row `upstream_unavailable` |
| `proc[p]` | `main` (a scan) or `ingest_manual_token`, its next statement and its counters |
| `Raised` | the `except` of the loop of the scan, or that of the run |
| `BasicCheck`, `data_readiness_status` | `add_basic_risk_checks` and the view of migration 014 that reads its rows |

Each statement is a transaction. It answers, or it takes effect and its answer
is lost (`late`), or it fails; a process may also die (`Dies`). Then the `except`
clauses decide what is counted and how the run is closed.

`IngestionRuns` is the promise to the stages: ids grow, a run gains candidates
while it is `running` and never after, a closed run stays closed.
`Ingestion!RunsAreOpenThenClosed` is the refinement.

Run `ingestion`: two processes, so that one can store the pair the other is
storing; two runs; two tokens that share a pair, with another pair on the
bonding curve, which is never preferred; a pair whose market cap and one whose
liquidity is missing, one of which is no candidate; two faults, so that the
statement that records a fault may fail as well. It checks:

* `CandidatesAreComplete`: what the stages read of a candidate is there, at
  every moment, though the pair may have changed its owner;
* `AccountsBalance`: the counters of a closed run against the tables;
* `UnreachableLeavesTrail`: `DEVELOPMENT_GUIDE.md:167`, for a run that ends
  because DexScreener did not answer. A *scan* during an outage finds an empty
  list and ends as a success without a trail; the model has it;
* `OnlyFaultsAbandonRuns`: each run that stays `running` with nobody at work
  has cost a fault. Nothing repairs such a run, and scripts take its id.

The figures of a price are left out: a pair has a price or not. Processes may
be idle for good, so deadlock is not checked.

### UpstreamRequests: limiter, retries, and what callers see

`call[t]` is the call a task is in, `queue[c]` the lock of a client's limiter,
`since[c]` the time since `_last_request_at`, in ticks of half a second, as
`MIN_REQUEST_INTERVAL` and the back-off are multiples of it. `Paces` and `Sends`
are the two halves of the limiter, before and after its sleep; `Fails`,
`Resends` and `Refused` are the paths of `request_with_retry`; `Returned` is
what each kind of method makes of the outcome.

Run `requests`: two tasks and two clients, so that tasks share a client or do
not; three attempts instead of five, which separates the first, a middle and
the last one; hints below and above the cap. It checks that calls of one
client begin an interval apart (`CallsAreSpaced`), that no hint of
`Retry-After` is cut short (`HintsAreHonored`), that "unavailable" means that
all attempts failed (`UnavailableIsTrue`), and that each call ends (`CallsEnd`).
Only the first attempt passes the limiter: `dexscreener.py:154-155` promises
the spacing for all requests, and retries come on top of it.

Fairness: `Tick`, for time passes, and each task's next step, since the loop
runs what is ready and an attempt ends with an answer or its timeout. None for
new calls. `Tick` and the answers keep the system going: deadlock is checked.

### WhaleScoring, WhaleWallets: who is worth watching

`WhaleScoring` has the pure part: how transfers become positions, positions
trades, and trades a score, a label and a survival profile. `WhaleWallets` has
the tables and the five services. A service reads (`DiscoveryReads`,
`ReverseStarts`, `AuditReads`, `RefreshReads`, `SurvivalReads`) and writes in
transactions of its own; in between, others run. The chain is a constant
`History`; prices are asked anew each time, and during an outage are not
answered. `elite` is overwritten by each service from its own evidence; `perf`
is keyed by wallet, token and source. `Upsert` is the `ON CONFLICT DO UPDATE` of
all of them. Accounts and tokens are finite sets, and a history holds amounts
that are not negative; nothing else is assumed of the chain.

`build_position` follows the audit's loop, in which a transaction may bring
tokens in and send tokens out (`MoveOf`): both for a transfer of a wallet to
itself. `cut` is a history variable, the targets that a failed run had reset and
not come to.

Run `whale_wallets`: a whale that holds one token and sold another, a bot that
sells one token at once, moves some of the other to itself and sells half of it
at 60% of its cost, the pool; two services at a time, three in a behaviour, as
it takes three to refresh, audit and judge. Signatures are limited to the newest
four, one less than the second pair has, so that its first purchase is out of
sight. 243,659 states. It checks:

* `EvidenceHasItsWallet`: no trade and no profile without its wallet;
* `AnalyzedTargetHasRows`: the counts of an analysed target against the rows
  of the wallets it promoted; and a target without counts is still to be
  analysed by a run under way, or was reset by a run that failed (`cut`);
* `RugsReturnedLittle`: a trade counts as a rug only if at most 55% of its cost
  came back. The rule means a loss of 90%, but the survival profile takes
  received plus profit for the current value, and prices that were not answered
  and amounts that were not stored read as 0: so a position that is not lost
  does count as a rug, up to that bound.

Two observations without a run: an audit gives every trade a pace of 0, so a
bot is watched again once it has been audited, against
`PROJECT_OVERVIEW.md:139` (each service overwrites the exclusion that another
one set); and a token that is analysed twice counts as two
trades. Services need not be started, so deadlock is not checked.

### WhaleWebhook, WhaleSignals: what Helius reports

`WhaleWebhook` is the synchronisation: read the wallets, read the id of the
last row of `whale_webhook_configs`, create or update the webhook at Helius,
save the row. `config` has the wallets of each row, `newest` the row that
`ORDER BY updated_at DESC` finds first. `hooks` is the state *at Helius* and external; an answer may be
lost and the request repeated (`AnswerLost`), the synchronisation may end
anywhere (`SyncFails`), two may overlap. `WhaleSignals` adds the receiver:
Helius reports a transaction for each webhook that watches one of its accounts
(`due`) until it sees a 202, in bodies of several items; the handler stores an
item and then passes the gates of `maybe_queue_whale_signal_analysis`, a
statement at a time. Its check that a token has the form of an address accepts
every mint of the chain and is not a step. The job's further life is in `ScanJobs`. `Alert` is the
filter of the radar page, which is not the queue's.

`tainted` and `overlaps` are history variables: which wallets were ever a bot
or risky, and how many synchronisations began while another one ran.

Run `whale_signals`: two wallets, one of them unknown at first and seller of
the token the other buys, so that their webhooks report the same transaction;
two synchronisations, one request, bodies of one or two items, one fault, two
changes of profile. One fault suffices for each window between two statements,
and two changes let a wallet be discovered and then tainted. It checks:

* `HooksCostFaults`: each webhook beyond the first has cost a fault or an
  overlap (`PROJECT_OVERVIEW.md:142` says one webhook);
* `SyncRepairs`: a synchronisation that ran alone leaves its row and the webhook
  which that row names in agreement, whatever earlier ones left. Webhooks that
  no row names keep reporting; `HooksCostFaults` counts them;
* `AcceptedIsStored`: what was answered with 202 is stored;
* `AlertsAreQueued`: the token of each alert about an untainted wallet has a
  job or a decision.

A `TOKEN_IN` has no amount, so it is never queued when there is a minimum,
although `README.md:196` names the type.

The environment may fall silent, so deadlock is not checked.

### Migrations: the migration runner

A file is its place in the order of names; of its contents the model keeps the
objects it drops and creates anew (`Replaces`) or creates where there is none
(`Adds`). `Applies` executes a file, which takes effect as a whole or not at
all: `apply_migrations.py` sends it as one query, in a transaction of its own,
in the file's own `BEGIN` and `COMMIT` (001 to 011), or, for the files with
TimescaleDB statements, in the implicit transaction that PostgreSQL makes of
one query. `Stops` stands for any file that is refused, too. `Records` is a
transaction of its own, and between the two a runner may stop. A runner reads
what is recorded once, at its start. A changed checksum is only reported
and a dry run writes nothing, so neither is a step.

Run `migrations`: three runners, and the files that define something twice:
001 and 014 (the readiness view), 012 and 013 (a retention policy). It checks
that versions are recorded in order (`AppliedInOrder`) and that a table of
versions that is up to date means a schema that is (`UpToDateIsCurrent`). That a
run that ends by itself has recorded them all (`DoneIsComplete`) is proved.

The last one has an exception, `spoiled`: a runner stopped while another was at
work, or while it repeated a recorded file. A slow runner may execute 001 again
after another one's 014 and puts the old view back; only that it goes on to 014
repairs this, so if it stops before, the old view stays and every version is
recorded. A single runner needs no exception: it may stop anywhere. Runners
need not start, so deadlock is not checked.

## 4. Proofs

### ScanJobs_proofs

`ScanJobs_proofs` proves, for every set of tokens, tasks and handlers, every
list of distinct stages, with or without failing statements and for any number
of restarts:

* `TypeCorrectness`, `Exclusion` (one analysis at a time), `TruthfulMonitor`,
  `RunningRow`, `FinishOnlyRunning`;
* `FlagIsHeld` and `RunningJobIsWorkedOn`, likewise through failing statements
  and restarts;
* `Refinement`: `Spec => ImplementsLease`.

The inductive invariant `IInv` joins the type invariant with the fields of a
task and of a handler that go together, and with the three safety invariants:
exclusion alone is not inductive, since a claimant is kept out only by a flag
that `MonitorIsTruthful` ties to the holder, and a row stays `RUNNING` only
because no second holder can close it. A step keeps the worker of a row
(`WorkGoesOn`), closes the row, or makes it an orphan. The theorems assume only the named
assumptions on the constants. Liveness stays with TLC: fairness is outside the
prover's reach.

### Decision_proofs: AnalysisPipeline

For every set of tokens, any numbers of runs and passes, and everything the
stages may find:

* `TypeCorrect`: `TypeOK`, in which each layer holds only what its own stage
  writes.
* `SafetyAnswers`: `PassHasSafetyAnswers`, with scripts, crashes and upstream
  failures. The invariant covers what is read but not yet saved: an item of
  `todo` that will pass has its answers in the tables, and since no row is
  ever removed they are still there when it is saved. `AnsweredStep` proves
  this once, for any set of layers.
* `EveryLayerSeen`: `PassSawEveryLayer`. The property says nothing of a run
  that is under way; the invariant `Covered` does: once a stage has its items,
  each token that obliges it to look (a contract row for the developer's
  stages, a judged holder distribution for the intelligence) has its row or is
  still to do. A pass needs a contract row and judged holders, so it has the
  other three as well.
* `DecisionsAreCurrent`: `DecisionIsCurrent`. The invariant adds that runs not
  begun, and the server's run before its last stage, have no decision; so no
  stage writes to a decided run.

Both invariants are stated for the time before the first script, as the two
properties are. `RunsAreDecided` is a liveness property and only model-checked.

### ScanEvents_proofs

For any connections, pages and bounds:

* `EventsTyped`: `TypeOK`, proved action by action for the one or two
  connections that an action touches.
* `EventsOrdered`: `EventsInOrder`. What waits for one page is spread over
  callbacks, the queue and the socket; the invariant says of each part that it
  is sorted, that all in a later part is newer than all in an earlier one, and
  that nothing is newer than the present version. A full queue drops the new
  event, which keeps a sorted sequence sorted.
* `EventsDelivered`: `NothingLost`. The property speaks of a page whose stream
  is open, but an event can be lost before that. `ConnEnds` says of every
  subscribed connection that never met a full queue that what waits for it, if
  anything does, ends with the state announced last; `WireEnds` that, if nothing
  does, the socket ends with that state or the page has heard it, for the snapshot
  is never older; `OwnStream` that an open stream is subscribed and of one page
  only, so that no other page reads its socket.

### FoldFacts

A sum is a fold over a finite set, and nothing is known of a fold before it is
shown to exist. `FoldExists` and `FoldRange` show of any fold that it exists and
stays in a set that each turn of the loop keeps; both argue about a smallest
subset that would not (`SmallestSet`), since the library's induction takes an
operator as its parameter. `TypedFold` joins them. From these follow
`SumIsInt`, `SumOfOne` and `SumIsMonotone` (smaller terms, smaller sum), which
`Decision_proofs` and `Whale_proofs` cite.

### Decision_proofs: TokenEvidence and EvidenceTable

For all evidence, whatever numbers and however many wallets, under
`IsEvidence` (amounts and counts are natural numbers; a number that may be
missing is one number or none, and so are the shares; the holders of one
funder are holders with a known funder):

* `VerdictsListed`: each classifier answers in `Findings`.
* `SilenceDoesNotPass`: the six silences, each by the layer that stops it.
* `CleanPassesAreLow`: a clean pass has at most 22.15 points. The bound is the
  sum of what each term can be without the warning that its layer would give:
  6 for relations, 4 for one sniper, 2 for the largest holder and 10.15 for a
  developer's flow below 30; the others are 0. It shows how far the thresholds
  may be moved before the two judgements disagree.
* `WorseFactsNeverHelp`: of any two pieces of evidence, of which one is no
  better than the other, it has no less cautious a decision. *No better* is said
  of five groups of facts: `PriceNoBetter`, `ReportNoBetter`, `HoldersNoBetter`,
  `DevNoBetter`, `WalletsNoBetter`. One lemma per stage (`MarketWorse` ..
  `IntelligenceWorse`) shows that its verdict does not rise. Where a fact hides
  another the lemma goes through the status behind the verdict (`AuditSays`), and
  the intelligence stage needs `CountWorse` for the labels and `AverageWorse`,
  by `SumIsMonotone`, for the mean of the scores. `WorseningNeverRescues`
  takes it from the verdicts to the decision.

For every row of verdicts: `PassesAreAnswered`, `FirstObjectionIsNamed` and
`WorseningNeverRescues`, from the chain of gates unfolded once (`Chain`).

For the walk, with any number of facts off at a time: its invariant is that the
row is what the stages make of the evidence, which is `IsEvidence` and has the
walk's fields. With the theorems above it gives `TableVerdicts`,
`TableSilence`, `TableCleanPass`, `TableFailsClosed`, `TableFirstObjection` and
`TableWorse`. The last needs that the lists of `Downhill` go downhill in the
sense of the five orders (`PriceLists` .. `WalletLists`), and that a step that
makes one fact worse leaves the others alone (`WorseIsOther`).

The run has three facts off at a time; the proof has any number. It did not
succeed for the walk as it was at first: with more facts off than three, one
answer for both requests and amounts that were independent of one another let
more sales help a token.
The model now tells the audit's answer from that of the flow stage and adds up
what was moved, as the code does; what remained is the exception `Told`.

### UpstreamRequests_proofs

For any tasks, any clients but none, any interval, number of attempts, cap and
hints:

* `RequestsTyped`: `TypeOK`.
* `UnavailableMeansSo`: `UnavailableIsTrue`. `CallOK` has the fields of a call
  that go together at each of its places: a request that is out has failed once
  less than it has been tried, one that backs off as often, and a call that ended
  without an answer has used all attempts and returns what its kind of method
  makes of that.
* `CallsSpaced`: `CallsAreSpaced`. That the lock is free for one task alone
  does not keep two calls an interval apart: `Paced` adds that who sleeps in the
  limiter is at the head of the client's queue, and that the time since the last
  request and the rest of its sleep make an interval; nobody else resets that
  time while it sleeps, since queues hold a task once (`Injective`).
* `HintsHonored`: `HintsAreHonored`. What is left of a hint runs out with the
  back-off's timer and is never more than the timer, and the next attempt begins
  when the timer is at 0.

### Migrations_proofs

For any files, objects and runners:

* `MigrationsTyped`, `MigrationsInOrder`, `DoneMeansComplete`. The invariant
  `InPlace`: what is recorded is a prefix of the files, and what a runner has
  left is a tail of them whose predecessors are all recorded.
* `UpToDateSchema`: once a file that defines an object for good has been
  executed, the object is as it says, or some runner is *behind*: at an earlier
  file, and so still to execute this one (`Replaced`). For objects that are only
  added, the first file that does so is the only one that can (`Added`). When
  all runners are off none is behind.

### Whale_proofs: WhaleSignals

For any wallets and transactions, any number of synchronisations, requests and
items, changes of profile, faults and restarts, and minima with
`QueueMin =< AlertMin`:

* `HooksAreCounted`: `HooksCostFaults` is not inductive, since a
  synchronisation that has read "none yet" will create a webhook whatever
  others do meanwhile. `Cost` counts these (`Creators`) like webhooks and lets
  one of them be free once a row is saved or while somebody is at work.
* `SyncRepaired`, from `Alone`: one that is still alone has nobody beside it,
  so nobody changes the webhook between its request and its row.
* `AcceptedStored`, `AlertsQueued`: an item is `Settled` when it raises no
  alert or its token has a job or a decision. A request has settled all items
  before the one it is at, and nothing unsettles them (`Growing`): rows keep
  what they were stored with, taint, jobs and decisions stay. Where a gate
  refuses an item, it raises no alert: below the queue's minimum it is below
  that of the alerts, and an untainted wallet that was tracked is clean.
* `SignalsTyped`: `TypeOK`, with the links between the tables.

### Whale_proofs: WhaleWallets

For any finite sets of accounts and tokens, any transfers, paces, prices, limits
and minima, and any processes:

* Folds first. A score is a sum over a finite set, a position the result of a
  loop over transfers. `FoldFacts` gives `SumType`, `PositionType`, `BuyersType`,
  and with them `ScoreRange`: a score is between 0 and 10000 whatever is summed.
* `WalletsIInv` adds to the types where each row comes from (`Origin`, the
  position it was made of) and what it keeps of it (`TrackedOK`): its money, and
  profits that are no lower than what came back less what was spent (`Fits`).
* `EvidenceOwned`: it is not enough that tables agree. A survival run holds
  profiles of wallets it read earlier, and saves them after others have written
  (`ProcOK`); `elite` only grows, so they still have their wallets.
* `TargetsBacked`: the rows of the promoted wallets are in the same transaction
  as the counts, and rows are never deleted (`MoreRows`), so other processes and
  later runs can only add to them. Promoted wallets map one to one into rows.
  `Unfinished` follows a target without counts to the run that will come to it
  or that failed; a run that analyses it for another one finishes it as well.
* `RugsJustified`: whatever a row's profit was made of (a price, the sales, a
  refresh with or without the amount held), it is no lower than what came back
  less what was spent, so the current value is no lower than twice the one less
  the other; with more than 55% back that is more than a tenth of the cost, and
  the return stored with it is above -90 (`Rated`, `ReturnedIsNoRug`).
* `TablesTyped`: `WalletsTypeOK`.

### Ingestion_proofs

For any processes, pairs, observations, runs and faults, a finite set of tokens
and a cap of at least one:

* `IngestionTyped` and `CandidatesComplete`. `Base` says whose run is whose
  (`Owned`: a process works on a run of its own, which stays `running` until it
  is closed), what a process has behind it at its place (`Holds`), and what a
  row of `risk_checks` has behind it (`Complete`). Nothing is ever deleted, and
  a pair changes its owner for another stored token only, so no other process
  can take these back (`Grows`). Nine steps of a token are nine small lemmas.
* `TrailsLeft` needs of `Holds` that the error "unavailable" is carried by a
  process only after the row is written; `AbandonedRuns` counts: a step adds a
  run to `Abandoned` only when it has used up a fault.
* `AccountsBalanced`: a counter may lag behind the tables, by an answer that was
  lost. `Account` says of an open run that its process has counted each token
  done as saved or as an error, that what is left of the list is not stored yet
  (each token is listed once), and that saved tokens are no more than the stored
  ones, these no more than both counters together.
* `RunsOpenThenClosed`: the refinement, step by step. That a row of
  `risk_checks` is written for an open run only is `Owned`.

## 5. Only model-checked

Liveness (`jobs_liveness`, `StreamCatchesUp`, `RunsAreDecided`, `CallsEnd`): fairness
is outside the prover's reach. Every safety invariant, every action property
and every refinement that a run checks is also a theorem.

## 6. Not modelled, and why

* Read-only endpoints, static pages and rendering: they change no state. What
  the page keeps of the events is in `ScanEvents`, the radar's filter in
  `WhaleSignals`.
* Command-line entry points: each opens a connection, calls one service and
  prints. What they call is modelled as a process beside the server.
* Retention, hypertables and continuous aggregates: declarative SQL that the
  database interprets. Unique keys and `ON CONFLICT` clauses are in the actions
  that rely on them.
* How a wallet's history becomes the counts and amounts that the holder,
  cluster, manipulation and developer analyses judge; holders that stay from an
  earlier pass over a run; the early-buyer figures, which decide nothing.
* The figures of prices and the order in which they are stored.
* The strings of messages, errors and log lines, everywhere.
