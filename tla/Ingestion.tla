------------------------------ MODULE Ingestion ------------------------------
(***************************************************************************)
(* Ingestion: the scan (main), which discovers tokens and stores each, and *)
(* ingest_manual_token, which stores one.  A process goes from statement   *)
(* to statement, each a transaction of its own; between two of them the    *)
(* others run.  A statement may fail, or take effect and fail to answer;   *)
(* a process may die.                                                      *)
(***************************************************************************)
EXTENDS Integers, Sequences, FiniteSets

CONSTANTS
    Procs,          \* the server's workers and the scripts
    Tokens, Pairs,
    NoToken, NoPair,
    Trades,         \* Trades[t]: the pairs that DexScreener lists for a token
    Bonding,        \* the pairs that trade on a bonding curve
    Observations,   \* what DexScreener may tell of a pair
    MaxTokens,      \* max_latest_tokens
    MaxRuns,        \* bound on the runs explored
    MaxFaults       \* bound on failing statements and dying processes

ASSUME TradesAssumption == Trades \in [Tokens -> SUBSET Pairs]
ASSUME TokensAssumption == IsFiniteSet(Tokens)
ASSUME NoneAssumption == NoToken \notin Tokens /\ NoPair \notin Pairs
ASSUME BoundsAssumption ==
    MaxTokens \in Nat \ {0} /\ MaxRuns \in Nat /\ MaxFaults \in Nat

-----------------------------------------------------------------------------
(***************************************************************************)
(* The basic checks, and the readiness that the view reads out of them.    *)
(***************************************************************************)
Fields == {"price", "liquidity", "volume_5m", "volume_1h", "market_cap", "fdv",
           "pair_created_at", "txns", "price_change"}
Values == {"fine", "low", "none"}

ASSUME ObservationsAssumption ==
    Observations \subseteq [Fields -> Values] /\ Observations # {}

Row(name, level) == [check_name |-> name, risk_level |-> level]

\* The names of a field's row when DexScreener gives it and when it does not.
Present == [price |-> "price_available", liquidity |-> "liquidity_ok",
            volume_5m |-> "volume_5m_ok", volume_1h |-> "volume_1h_available",
            market_cap |-> "market_cap_available", fdv |-> "fdv_available",
            pair_created_at |-> "pair_created_at_available",
            txns |-> "txns_available", price_change |-> "price_change_available"]
Missing == [price |-> "missing_price", liquidity |-> "missing_liquidity",
            volume_5m |-> "missing_volume_5m", volume_1h |-> "missing_volume_1h",
            market_cap |-> "missing_market_cap", fdv |-> "missing_fdv",
            pair_created_at |-> "missing_pair_created_at",
            txns |-> "missing_txns", price_change |-> "missing_price_change"]

\* Only liquidity and the volume of five minutes are held against a minimum.
BasicCheck(f, v) ==
    IF v = "none" THEN Row(Missing[f], "UNKNOWN")
    ELSE IF v = "low" /\ f = "liquidity" THEN Row("low_liquidity", "DANGER")
    ELSE IF v = "low" /\ f = "volume_5m" THEN Row("low_volume_5m", "WARNING")
    ELSE Row(Present[f], "PASS")

add_basic_risk_checks(seen) == {BasicCheck(f, seen[f]) : f \in Fields}

\* The checks without which the view calls a token NOT_READY.
Required == {"price_available", "volume_1h_available", "market_cap_available",
             "fdv_available", "pair_created_at_available", "txns_available",
             "price_change_available"}

data_readiness_status(rows) ==
    IF \E n \in Required : Row(n, "PASS") \notin rows THEN "NOT_READY"
    ELSE IF \E row \in rows : row.check_name = "missing_liquidity"
         THEN "PARTIAL_BUT_PASS"
    ELSE "READY_FOR_ANALYSIS"

ALLOWED_READINESS_STATUSES == {"READY_FOR_ANALYSIS", "PARTIAL_BUT_PASS"}

-----------------------------------------------------------------------------
VARIABLES
    runs,       \* ingestion_runs, by id; status "none" before it is started
    latest,     \* MAX(id) FROM ingestion_runs
    tokens,     \* tokens
    owner,      \* token_pairs: token_id of a pair, NoToken without a row
    prices,     \* token_prices: the pairs with a price
    snapshots,  \* raw_api_snapshots of pairs: the run and the pair
    checks,     \* risk_checks, by what they were computed from
    trails,     \* risk_checks 'upstream_unavailable', which have no pair
    proc,       \* how far each process is
    faults      \* the faults left

tables == <<tokens, owner, prices, snapshots, checks, trails>>
vars == <<runs, latest, tables, proc, faults>>

NoItem == [token |-> NoToken, pair |-> NoPair,
           seen |-> CHOOSE o \in Observations : TRUE]

Ended == [pc |-> "idle", kind |-> "scan", run |-> 0, todo |-> <<>>, item |-> NoItem,
          found |-> 0, saved |-> 0, errors |-> 0, error |-> "none"]

NoRun == [status |-> "none", found |-> 0, saved |-> 0, errors |-> 0, error |-> "none"]

Init ==
    /\ runs = [r \in 1..MaxRuns |-> NoRun]
    /\ latest = 0
    /\ tokens = {}
    /\ owner = [q \in Pairs |-> NoToken]
    /\ prices = {}
    /\ snapshots = {}
    /\ checks = {}
    /\ trails = {}
    /\ proc = [p \in Procs |-> Ended]
    /\ faults = MaxFaults

\* A statement answers, takes effect and does not answer, or fails.
Ends == {"done", "late", "failed"}

Min2(x, y) == IF x < y THEN x ELSE y

Token(p) == proc[p].item.token
Pair(p) == proc[p].item.pair

\* Mutant: the run is the latest one, not the one that was started.
Run_Latest(p) == latest
Run(p) == proc[p].run

\* The loop of the scan: the next token, or the end of the run.
NextToken(q) ==
    IF q.todo = <<>> THEN [q EXCEPT !.pc = "close"]
    ELSE [q EXCEPT !.pc = "profile", !.item = Head(q.todo), !.todo = Tail(q.todo)]

\* Mutant: a token that fails ends the loop.
Raised_EndsLoop(q, e) ==
    [q EXCEPT !.pc = IF q.kind = "scan" THEN "close" ELSE "fail",
              !.errors = @ + 1, !.error = e]

\* The exception e: the scan counts it and goes on with the next token, unless
\* it is not about a token; everything else ends in the except of the run,
\* where ingest_manual_token has saved nothing.
Raised(q, e) ==
    IF q.kind = "scan" /\ q.pc \notin {"discover", "close"}
    THEN NextToken([q EXCEPT !.errors = @ + 1])
    ELSE [q EXCEPT !.pc = "fail", !.errors = @ + 1, !.error = e,
                   !.saved = IF q.kind = "scan" THEN @ ELSE 0]

\* A statement of p has ended; q is the process if it has answered.
Goes(p, end, q) ==
    IF end = "done" THEN proc' = [proc EXCEPT ![p] = q] /\ UNCHANGED faults
    ELSE /\ faults > 0
         /\ faults' = faults - 1
         /\ proc' = [proc EXCEPT ![p] = Raised(proc[p], "database")]

Step(p, end, pc) == Goes(p, end, [proc[p] EXCEPT !.pc = pc])

\* The keys of a table after an upsert, unless the statement failed.
With(S, x, end) == IF end = "failed" THEN S ELSE S \cup {x}

-----------------------------------------------------------------------------
(***************************************************************************)
(* The start of a run and what it is to store.                             *)
(***************************************************************************)
\* start_ingestion_run.  When its answer is lost nobody knows the run's id.
Starts(p, kind, t, end) ==
    /\ proc[p].pc = "idle"
    /\ latest < MaxRuns
    /\ latest' = latest + 1
    /\ runs' = [runs EXCEPT ![latest + 1] = [NoRun EXCEPT !.status = "running"]]
    /\ IF end = "done"
       THEN /\ proc' = [proc EXCEPT ![p] =
                   IF kind = "scan"
                   THEN [Ended EXCEPT !.pc = "discover", !.run = latest + 1]
                   ELSE [Ended EXCEPT !.pc = "profile", !.kind = kind,
                            !.run = latest + 1, !.item = [NoItem EXCEPT !.token = t],
                            !.found = 1]]
            /\ UNCHANGED faults
       ELSE faults > 0 /\ faults' = faults - 1 /\ UNCHANGED proc
    /\ UNCHANGED tables

\* select_preferred_pair: the best of the pairs off the bonding curve.  Its
\* address may be missing.
Preferred(t) == (Trades[t] \ Bonding) \cup {NoPair}

\* What may be discovered: each token once, in any order, none in an outage.
Items == {i \in [token : Tokens, pair : Pairs \cup {NoPair}, seen : Observations] :
            /\ i.pair \in Preferred(i.token)
            /\ i.pair = NoPair => i.seen = NoItem.seen}
Discovered ==
    {l \in UNION {[1..n -> Items] : n \in 0..Cardinality(Tokens)} :
        \A i, j \in DOMAIN l : l[i].token = l[j].token => i = j}

\* Only the first max_latest_tokens are stored.
Discovers(p) ==
    /\ proc[p].pc = "discover"
    /\ \E l \in Discovered :
          proc' = [proc EXCEPT ![p] = NextToken(
                      [proc[p] EXCEPT !.found = Len(l),
                                      !.todo = SubSeq(l, 1, Min2(Len(l), MaxTokens))])]
    /\ UNCHANGED <<runs, latest, tables, faults>>

\* A list that is no JSON, or a limit that is no number, ends the run.
DiscoveryBreaks(p) ==
    /\ proc[p].pc = "discover"
    /\ Goes(p, "failed", proc[p])
    /\ UNCHANGED <<runs, latest, tables>>

-----------------------------------------------------------------------------
(***************************************************************************)
(* ingest_token.                                                           *)
(***************************************************************************)
\* Mutant: the address of the pair is not looked at.
SavesProfile_AnyPair(p, end) ==
    /\ proc[p].pc = "profile"
    /\ Step(p, end, IF proc[p].kind = "scan" THEN "snapshot" ELSE "fetch")
    /\ UNCHANGED <<runs, latest, tables>>

\* The profile and the orders are kept as they are; no stage reads them.  The
\* scan has its pair already.
SavesProfile(p, end) ==
    /\ proc[p].pc = "profile"
    /\ Goes(p, end,
            IF proc[p].kind # "scan" THEN [proc[p] EXCEPT !.pc = "fetch"]
            ELSE IF Pair(p) = NoPair THEN Raised(proc[p], "no_pair")
            ELSE [proc[p] EXCEPT !.pc = "snapshot"])
    /\ UNCHANGED <<runs, latest, tables>>

FindsPair(p) ==
    /\ proc[p].pc = "fetch"
    /\ \E i \in Items :
          /\ i.token = Token(p)
          /\ i.pair # NoPair
          /\ proc' = [proc EXCEPT ![p].pc = "snapshot", ![p].item = i]
    /\ UNCHANGED <<runs, latest, tables, faults>>

\* No completed pair, a pair without address, or a status such as 404.
FindsNoPair(p) ==
    /\ proc[p].pc = "fetch"
    /\ proc' = [proc EXCEPT ![p] = Raised(proc[p], "no_pair")]
    /\ UNCHANGED <<runs, latest, tables, faults>>

\* Mutant: the strict fetch is handled like any other exception.
FetchFails_NoTrail(p) ==
    /\ proc[p].pc = "fetch"
    /\ proc' = [proc EXCEPT ![p] = Raised(proc[p], "unavailable")]
    /\ UNCHANGED <<runs, latest, tables, faults>>

\* UpstreamUnavailable: first the token and the row that tells of it.
FetchFails(p) ==
    /\ proc[p].pc = "fetch"
    /\ proc' = [proc EXCEPT ![p].pc = "trail_token"]
    /\ UNCHANGED <<runs, latest, tables, faults>>

SavesTrailToken(p, end) ==
    /\ proc[p].pc = "trail_token"
    /\ tokens' = With(tokens, Token(p), end)
    /\ Step(p, end, "trail")
    /\ UNCHANGED <<runs, latest, owner, prices, snapshots, checks, trails>>

record_data_unavailable(p, end) ==
    /\ proc[p].pc = "trail"
    /\ trails' = With(trails, [run |-> Run(p), token |-> Token(p)], end)
    /\ Goes(p, end, Raised(proc[p], "unavailable"))
    /\ UNCHANGED <<runs, latest, tokens, owner, prices, snapshots, checks>>

SavesSnapshot(p, end) ==
    /\ proc[p].pc = "snapshot"
    /\ snapshots' = With(snapshots, [run |-> Run(p), pair |-> Pair(p)], end)
    /\ Step(p, end, "token")
    /\ UNCHANGED <<runs, latest, tokens, owner, prices, checks, trails>>

upsert_token(p, end) ==
    /\ proc[p].pc = "token"
    /\ tokens' = With(tokens, Token(p), end)
    /\ Step(p, end, "pair")
    /\ UNCHANGED <<runs, latest, owner, prices, snapshots, checks, trails>>

\* Mutant: the checks are written before the price.
upsert_token_pair_ChecksNext(p, end) ==
    /\ proc[p].pc = "pair"
    /\ owner' = IF end = "failed" THEN owner ELSE [owner EXCEPT ![Pair(p)] = Token(p)]
    /\ Step(p, end, "checks")
    /\ UNCHANGED <<runs, latest, tokens, prices, snapshots, checks, trails>>

\* The pair goes to the token that was stored last.
upsert_token_pair(p, end) ==
    /\ proc[p].pc = "pair"
    /\ owner' = IF end = "failed" THEN owner ELSE [owner EXCEPT ![Pair(p)] = Token(p)]
    /\ Step(p, end, "price")
    /\ UNCHANGED <<runs, latest, tokens, prices, snapshots, checks, trails>>

upsert_token_price(p, end) ==
    /\ proc[p].pc = "price"
    /\ prices' = With(prices, Pair(p), end)
    /\ Step(p, end, "checks")
    /\ UNCHANGED <<runs, latest, tokens, owner, snapshots, checks, trails>>

\* The nine rows in one transaction; then the token counts as saved.
insert_risk_checks(p, end) ==
    /\ proc[p].pc = "checks"
    /\ checks' = With(checks, [run |-> Run(p), token |-> Token(p), pair |-> Pair(p),
                               seen |-> proc[p].item.seen], end)
    /\ Goes(p, end, LET q == [proc[p] EXCEPT !.saved = @ + 1]
                    IN IF q.kind = "scan" THEN NextToken(q)
                       ELSE [q EXCEPT !.pc = "close"])
    /\ UNCHANGED <<runs, latest, tokens, owner, prices, snapshots, trails>>

-----------------------------------------------------------------------------
(***************************************************************************)
(* finish_ingestion_run, and a process that dies.                          *)
(***************************************************************************)
Finished(p, status) ==
    [runs EXCEPT ![Run(p)] =
        [status |-> status, found |-> proc[p].found, saved |-> proc[p].saved,
         errors |-> proc[p].errors, error |-> proc[p].error]]

\* Mutant: a scan that has found nothing returns at once.
Closes_EmptyReturns(p, end) ==
    /\ proc[p].pc = "close"
    /\ runs' = IF end = "failed" \/ proc[p].found = 0 THEN runs
               ELSE Finished(p, "success")
    /\ Goes(p, end, Ended)
    /\ UNCHANGED <<latest, tables>>

Closes(p, end) ==
    /\ proc[p].pc = "close"
    /\ runs' = IF end = "failed" THEN runs ELSE Finished(p, "success")
    /\ Goes(p, end, Ended)
    /\ UNCHANGED <<latest, tables>>

\* The except of the run.  When this statement fails as well, the run stays as
\* it is.
ClosesFailed(p, end) ==
    /\ proc[p].pc = "fail"
    /\ runs' = IF end = "failed" THEN runs ELSE Finished(p, "failed")
    /\ proc' = [proc EXCEPT ![p] = Ended]
    /\ IF end = "done" THEN UNCHANGED faults ELSE faults > 0 /\ faults' = faults - 1
    /\ UNCHANGED <<latest, tables>>

Dies(p) ==
    /\ proc[p].pc # "idle"
    /\ faults > 0
    /\ faults' = faults - 1
    /\ proc' = [proc EXCEPT ![p] = Ended]
    /\ UNCHANGED <<runs, latest, tables>>

Begins(p) == \E end \in {"done", "late"} :
    \/ Starts(p, "scan", NoToken, end)
    \/ \E t \in Tokens : Starts(p, "manual", t, end)

Statement(p, end) ==
    \/ SavesProfile(p, end) \/ SavesTrailToken(p, end)
    \/ record_data_unavailable(p, end) \/ SavesSnapshot(p, end)
    \/ upsert_token(p, end) \/ upsert_token_pair(p, end)
    \/ upsert_token_price(p, end) \/ insert_risk_checks(p, end)
    \/ Closes(p, end) \/ ClosesFailed(p, end)

Fetch(p) ==
    \/ Discovers(p) \/ DiscoveryBreaks(p)
    \/ FindsPair(p) \/ FindsNoPair(p) \/ FetchFails(p)

Proceeds(p) == Fetch(p) \/ \E end \in Ends : Statement(p, end)

Next == \E p \in Procs : Begins(p) \/ Proceeds(p) \/ Dies(p)

Spec == Init /\ [][Next]_vars

-----------------------------------------------------------------------------
(***************************************************************************)
(* Properties                                                              *)
(***************************************************************************)
\* What get_early_dex_candidates reads for a run.
candidates(r) ==
    {c \in checks : /\ c.run = r
                    /\ data_readiness_status(add_basic_risk_checks(c.seen)) \in
                          ALLOWED_READINESS_STATUSES}

Items0 == [token : Tokens \cup {NoToken}, pair : Pairs \cup {NoPair},
           seen : Observations]
Errors == {"none", "database", "no_pair", "unavailable"}

\* Every variable has its type, and a process that works has a run.
TypeOK ==
    /\ runs \in [1..MaxRuns -> [status : {"none", "running", "success", "failed"},
                               found : Nat, saved : Nat, errors : Nat, error : Errors]]
    /\ latest \in 0..MaxRuns
    /\ tokens \subseteq Tokens
    /\ owner \in [Pairs -> Tokens \cup {NoToken}]
    /\ prices \subseteq Pairs
    /\ snapshots \subseteq [run : 1..MaxRuns, pair : Pairs]
    /\ checks \subseteq [run : 1..MaxRuns, token : Tokens, pair : Pairs,
                         seen : Observations]
    /\ trails \subseteq [run : 1..MaxRuns, token : Tokens]
    /\ faults \in 0..MaxFaults
    /\ \A p \in Procs :
          /\ proc[p].pc \in {"idle", "discover", "profile", "fetch", "trail_token",
                             "trail", "snapshot", "token", "pair", "price",
                             "checks", "close", "fail"}
          /\ proc[p].kind \in {"scan", "manual"}
          /\ proc[p].run \in 0..latest
          /\ proc[p].pc # "idle" => runs[proc[p].run].status # "none"
          /\ proc[p].item \in Items0
          /\ proc[p].todo \in Seq(Items)
          /\ <<proc[p].found, proc[p].saved, proc[p].errors>> \in Nat \X Nat \X Nat
          /\ proc[p].error \in Errors

\* A token that the market filter takes up has all that the query and the
\* stages behind it read, at every moment and though other processes store the
\* same pair: its row, a pair with an owner, a price and the raw answer of its
\* own run; and DexScreener gave all seven figures that are required.
CandidatesAreComplete ==
    \A r \in 1..MaxRuns : \A c \in candidates(r) :
        /\ c.token \in tokens
        /\ owner[c.pair] \in tokens
        /\ c.pair \in prices
        /\ [run |-> r, pair |-> c.pair] \in snapshots
        /\ \A f \in Fields \ {"liquidity", "volume_5m"} : c.seen[f] # "none"

Stored(r) == {c.token : c \in {k \in checks : k.run = r}}

\* The counters of a closed run agree with the tables, in spite of statements
\* that took effect and did not answer: no more is counted than is stored,
\* what is stored and not counted is an error, and all tokens are accounted for.
AccountsBalance ==
    \A r \in 1..MaxRuns : runs[r].status \in {"success", "failed"} =>
        /\ runs[r].saved =< Cardinality(Stored(r))
        /\ Cardinality(Stored(r)) =< runs[r].saved + runs[r].errors
        /\ runs[r].status = "success" =>
              runs[r].saved + runs[r].errors = Min2(runs[r].found, MaxTokens)

\* DEVELOPMENT_GUIDE.md:167: a run that ends because DexScreener could not be
\* reached leaves a row that tells so.
UnreachableLeavesTrail ==
    \A r \in 1..MaxRuns :
        runs[r].error = "unavailable" => \E x \in trails : x.run = r

\* Only faults leave a run 'running' with nobody at work on it, each fault one
\* run at most.
OnlyFaultsAbandonRuns ==
    Cardinality({r \in 1..MaxRuns : /\ runs[r].status = "running"
                                    /\ \A p \in Procs : proc[p].run # r})
        =< MaxFaults - faults

\* What the stages rely on: a run gains candidates while it is open and never
\* after, and ids grow.
Abstract == INSTANCE IngestionRuns WITH
    open <- {r \in 1..MaxRuns : runs[r].status = "running"},
    ready <- [r \in 1..MaxRuns |-> {c.token : c \in candidates(r)}]

RunsAreOpenThenClosed == Abstract!Spec
=============================================================================
