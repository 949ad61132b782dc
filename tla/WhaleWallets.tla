---------------------------- MODULE WhaleWallets ----------------------------
(***************************************************************************)
(* The services that find whale wallets and judge them: discovery from the *)
(* wallet intelligence, reverse discovery from gaining tokens, the         *)
(* consistency audit, the price refresh and the survival profiles.  Each   *)
(* is started from the command line or from a page of the server, and      *)
(* nothing keeps two of them from running at once on the same tables.      *)
(*                                                                         *)
(* The tables are functions whose domain are the rows that exist.  What    *)
(* the chain holds is constant; prices are answered anew each time.        *)
(***************************************************************************)
EXTENDS WhaleScoring

CONSTANTS
    Tokens,
    History,         \* the transfers of each token, in the order of time
    Pace,            \* each wallet's transactions per minute, in hundredths
    Holders,         \* the wallets wallet intelligence looks at
    Prices,          \* what DexScreener may answer, in tenths of SOL
    Procs,           \* processes or requests that run a service
    SignatureLimit,  \* signature_limit
    AuditLimit,      \* wallet_limit of the audit
    Outages,         \* whether DexScreener may answer nothing
    Failures,        \* whether Helius or the process may fail
    MaxStarts,       \* bound on the services started
    MaxRows          \* bound on the intelligence rows of a wallet and token

ASSUME PricesAssumption == Prices \subseteq Nat /\ Holders \subseteq Accounts
ASSUME LimitsAssumption ==
    SignatureLimit \in Nat \ {0} /\ AuditLimit \in Nat \ {0}
ASSUME AccountsAssumption == IsFiniteSet(Accounts) /\ IsFiniteSet(Tokens)
ASSUME HistoryAssumption ==
    \A k \in Tokens :
        History[k] \in Seq([from : Accounts, to : Accounts, amount : Nat, sol : Nat,
                            minutes : Nat])
ASSUME StartsAssumption == MaxStarts \in Nat /\ MaxRows \in Nat
ASSUME FlagsAssumption == Outages \in BOOLEAN /\ Failures \in BOOLEAN

VARIABLES
    intel,    \* rows of wallet_intelligence_results, over all runs
    elite,    \* elite_wallets
    perf,     \* whale_performance_tracking, by wallet, token and source
    target,   \* whale_discovery_targets
    survival,  \* whale_survival_profiles
    proc,     \* what each process has read and has to do
    starts,   \* services started so far
    cut       \* history: targets reset by a run that failed before it came to them

walletVars == <<intel, elite, perf, target, survival, proc, starts, cut>>

Sources == {"wallet_intelligence", "reverse_profit_discovery",
            "wallet_consistency_audit"}
Keys == Accounts \X Tokens \X Sources

Idle == [job |-> "idle", todo |-> {}, read |-> <<>>]
Empty == [x \in {} |-> {}]    \* a table without rows

\* INSERT ... ON CONFLICT DO UPDATE: a new row replaces the one with its key.
Upsert(rows, table) ==
    [key \in DOMAIN rows \cup DOMAIN table |->
        IF key \in DOMAIN rows THEN rows[key] ELSE table[key]]

WalletsInit ==
    /\ intel = [w \in Accounts |-> [k \in Tokens |-> 0]]
    /\ elite = Empty /\ perf = Empty /\ target = Empty /\ survival = Empty
    /\ proc = [p \in Procs |-> Idle]
    /\ starts = 0 /\ cut = {}

Begins(p, job, todo, read) ==
    /\ proc[p].job = "idle"
    /\ starts < MaxStarts
    /\ starts' = starts + 1
    /\ proc' = [proc EXCEPT ![p] = [job |-> job, todo |-> todo, read |-> read]]

Ends(p) == proc' = [proc EXCEPT ![p] = Idle]

-----------------------------------------------------------------------------
(***************************************************************************)
(* What the services make of the chain: each wallet's own transactions,    *)
(* and the early buyers among the newest signatures of the pair.           *)
(***************************************************************************)
Positions == [w \in Accounts |-> [k \in Tokens |-> build_position(w, History[k])]]

fetch_pair_transactions(k) ==
    SubSeq(History[k], Max({1, Len(History[k]) - SignatureLimit + 1}), Len(History[k]))

EarlyBuyers == [k \in Tokens |->
                  extract_early_buyer_positions(fetch_pair_transactions(k))]

-----------------------------------------------------------------------------
(***************************************************************************)
(* The writes.                                                             *)
(***************************************************************************)
\* upsert_elite_wallet: every column is overwritten, the exclusion included.
EliteRow(trades, source) ==
    LET summary == summarize_whale_trades(trades)
    IN [label |-> classify_elite_wallet(summary), bot |-> summary.bot,
        count |-> summary.count, score |-> summary.score, source |-> source]

\* A row of whale_performance_tracking.  An upsert of the discoveries leaves
\* the columns of the price refresh alone.
PerfRow(key, trade, received, net) ==
    [spent |-> trade.amount, received |-> received, pnl |-> trade.pnl,
     roi |-> trade.roi, minutes |-> trade.minutes, net |-> net,
     fresh |-> IF key \in DOMAIN perf THEN perf[key].fresh ELSE {}]

RowsOf(w) == {key \in DOMAIN perf : key[1] = w}

-----------------------------------------------------------------------------
(***************************************************************************)
(* whale_discovery_service.                                                *)
(***************************************************************************)
\* The pipeline saves what it knows of a holder that bought.
IntelligenceSaves(w, k) ==
    /\ intel[w][k] < MaxRows
    /\ Positions[w][k].in > 0
    /\ intel' = [intel EXCEPT ![w][k] = @ + 1]
    /\ UNCHANGED <<elite, perf, target, survival, proc, starts, cut>>

DiscoveryReads(p) ==
    /\ Begins(p, "discovery", {}, intel)
    /\ UNCHANGED <<intel, elite, perf, target, survival, cut>>

WalletRow(w, k) == trade_from_wallet_row(Positions[w][k], Pace[w])

\* One trade per row: a token analysed in two runs counts twice.
IntelTrades(w, rows) ==
    LET index == {i \in Tokens \X (1..MaxRows) :
                    i[2] <= rows[w][i[1]] /\ WalletRow(w, i[1]).amount > 0}
    IN [i \in index |-> WalletRow(w, i[1])]

Grouped(rows) == {w \in Accounts : \E k \in Tokens : rows[w][k] > 0}

\* A wallet that earns too little is skipped: its old row stays.
Discovered(rows) ==
    {w \in Grouped(rows) :
        \/ TotalProfit(valid_whale_trades(IntelTrades(w, rows))) >= MinProfit
        \/ EliteRow(IntelTrades(w, rows), "wallet_intelligence").label
              = "ELITE_SMART_MONEY"}

\* Mutant: the rows of a skipped wallet are saved.
Evidence_OfAll(rows) ==
    {key \in Keys : /\ key[3] = "wallet_intelligence"
                    /\ rows[key[1]][key[2]] > 0}

Evidence(rows) ==
    {key \in Keys : /\ key[3] = "wallet_intelligence"
                    /\ rows[key[1]][key[2]] > 0
                    /\ key[1] \in Discovered(rows)}

\* One transaction, over the rows that were read before it.
DiscoverySaves(p) ==
    LET rows == proc[p].read
    IN /\ proc[p].job = "discovery"
       /\ elite' = Upsert([w \in Discovered(rows) |->
                      EliteRow(IntelTrades(w, rows), "wallet_intelligence")], elite)
       /\ perf' = Upsert([key \in Evidence(rows) |->
                      PerfRow(key, WalletRow(key[1], key[2]),
                        Positions[key[1]][key[2]].received, {})], perf)
       /\ Ends(p)
       /\ UNCHANGED <<intel, target, survival, starts, cut>>

-----------------------------------------------------------------------------
(***************************************************************************)
(* whale_reverse_discovery_service.                                        *)
(***************************************************************************)
NewTarget == [status |-> "DISCOVERED", checked |-> 0, profitable |-> 0,
              promoted |-> 0]

\* The gaining tokens DexScreener shows, with their prices; all of them are
\* (again) merely discovered before the first is analysed.  A pair without a
\* price has the price 0.
ReverseStarts(p) ==
    \E found \in SUBSET Tokens : \E price \in [found -> Prices] :
        /\ Begins(p, "reverse", found, price)
        /\ target' = Upsert([k \in found |-> NewTarget], target)
        /\ UNCHANGED <<intel, elite, perf, survival, cut>>

\* Rows of all sources count, an earlier row of this very trade as well; the
\* pace is not stored.
RowTrade(row) == [amount |-> row.spent, pnl |-> row.pnl, roi |-> row.roi,
                  minutes |-> row.minutes, rate |-> 0]
TradesWith(w, trade) ==
    Upsert([key \in {<<w>>} |-> trade], [key \in RowsOf(w) |-> RowTrade(perf[key])])

Buyers(k) == {w \in KnownIn(EarlyBuyers[k]) : EarlyBuyers[k][w].spent > 0}
GainedAtLeast(k, price, gain) ==
    {w \in Buyers(k) : Pnl(EarlyBuyers[k][w], price) >= gain}

\* Mutant: every profitable buyer is counted as promoted.
AnalyzedTarget_CountsAll(k, price) ==
    [status |-> "ANALYZED", checked |-> Cardinality(KnownIn(EarlyBuyers[k])),
     profitable |-> Cardinality(GainedAtLeast(k, price, 1)),
     promoted |-> Cardinality(GainedAtLeast(k, price, 1))]

AnalyzedTarget(k, price) ==
    [status |-> "ANALYZED", checked |-> Cardinality(KnownIn(EarlyBuyers[k])),
     profitable |-> Cardinality(GainedAtLeast(k, price, 1)),
     promoted |-> Cardinality(GainedAtLeast(k, price, MinProfit))]

\* The transactions are fetched, then one transaction saves the buyers and
\* the target.
ReverseAnalyzes(p, k) ==
    /\ proc[p].job = "reverse"
    /\ k \in proc[p].todo
    /\ LET price == proc[p].read[k]
           promoted == GainedAtLeast(k, price, MinProfit)
           trade(w) == position_to_trade(EarlyBuyers[k][w], price)
           row(w) == PerfRow(<<w, k, "reverse_profit_discovery">>, trade(w),
                       EarlyBuyers[k][w].received,
                       {EarlyBuyers[k][w].in - EarlyBuyers[k][w].out})
       IN /\ elite' = Upsert([w \in promoted |-> EliteRow(TradesWith(w, trade(w)),
                                "reverse_profit_discovery")], elite)
          /\ perf' = Upsert([key \in promoted \X {k} \X {"reverse_profit_discovery"} |->
                                row(key[1])], perf)
          /\ target' = Upsert([x \in {k} |-> AnalyzedTarget(k, price)], target)
    /\ proc' = [proc EXCEPT ![p].todo = @ \ {k}]
    /\ cut' = cut \ {k}
    /\ UNCHANGED <<intel, survival, starts>>

-----------------------------------------------------------------------------
(***************************************************************************)
(* whale_consistency_auditor_service.                                      *)
(***************************************************************************)
\* Mutant: the query forgets the exclusions.
Auditable_All == DOMAIN elite

Auditable == {w \in DOMAIN elite : ~elite[w].bot}

\* fetch_audit_wallets: the best ones first, up to the limit.
AuditReads(p) ==
    \E best \in SUBSET Auditable :
        /\ Cardinality(best) = Min({AuditLimit, Cardinality(Auditable)})
        /\ \A w \in best, v \in Auditable \ best : elite[w].score >= elite[v].score
        /\ Begins(p, "audit", best, <<>>)
        /\ UNCHANGED <<intel, elite, perf, target, survival, cut>>

Invested(w) == {k \in Tokens : Positions[w][k].spent > 0}

\* The wallet's last transactions reach back to some of its tokens, to none
\* if Helius answers something else than a list.  A price that is not
\* answered is a price of 0.
AuditsWallet(p, w) ==
    /\ proc[p].job = "audit"
    /\ w \in proc[p].todo
    /\ \E seen \in SUBSET Invested(w) :
       \E price \in [seen -> IF Outages THEN Prices \cup {0} ELSE Prices] :
          LET position == Positions[w]
              trade == [k \in seen |-> positions_to_trades(position[k], price[k])]
              saved == {k \in seen : NumberOr(trade[k].pnl, 0) >= 0}
              row(k) == [spent |-> trade[k].amount, received |-> position[k].received,
                         pnl |-> trade[k].pnl, roi |-> trade[k].roi, minutes |-> {},
                         net |-> {position[k].in - position[k].out},
                         fresh |-> trade[k].pnl]
          IN /\ elite' = Upsert([v \in {w} |->
                              EliteRow(trade, "wallet_consistency_audit")], elite)
             /\ perf' = Upsert([key \in {w} \X saved \X {"wallet_consistency_audit"} |->
                              row(key[2])], perf)
    /\ proc' = [proc EXCEPT ![p].todo = @ \ {w}]
    /\ UNCHANGED <<intel, target, survival, starts, cut>>

ServiceEnds(p) ==
    /\ proc[p].job \in {"reverse", "audit"}
    /\ proc[p].todo = {}
    /\ Ends(p)
    /\ UNCHANGED <<intel, elite, perf, target, survival, starts, cut>>

\* Helius gives up, a statement fails or the process ends: what was not
\* committed is lost, the rest of the list is not done.
ServiceFails(p) ==
    /\ Failures
    /\ proc[p].job # "idle"
    /\ Ends(p)
    /\ cut' = IF proc[p].job = "reverse" THEN cut \cup proc[p].todo ELSE cut
    /\ UNCHANGED <<intel, elite, perf, target, survival, starts>>

-----------------------------------------------------------------------------
(***************************************************************************)
(* whale_price_refresh_service and whale_survival_service.                 *)
(***************************************************************************)
RefreshReads(p) ==
    /\ Begins(p, "refresh", {key[2] : key \in DOMAIN perf}, <<>>)
    /\ UNCHANGED <<intel, elite, perf, target, survival, cut>>

\* A row without the amount held counts as one that holds nothing.
Refreshed(row, price) ==
    [row EXCEPT !.fresh =
        {row.received + Max({0, NumberOr(row.net, 0)}) * price - row.spent}]

\* One transaction around the requests; a token without a price is left.
RefreshSaves(p) ==
    /\ proc[p].job = "refresh"
    /\ \E answered \in IF Outages THEN SUBSET proc[p].todo ELSE {proc[p].todo} :
       \E price \in [answered -> Prices] :
          perf' = [key \in DOMAIN perf |->
                     IF key[2] \in answered /\ price[key[2]] # 0
                     THEN Refreshed(perf[key], price[key[2]]) ELSE perf[key]]
    /\ Ends(p)
    /\ UNCHANGED <<intel, elite, target, survival, starts, cut>>

\* fetch_survival_trades: every row with money in it, of every source, with
\* the refreshed profit if there is one.
SurvivalTrade(row) ==
    [spent |-> row.spent, received |-> row.received, roi |-> row.roi,
     pnl |-> IF row.fresh # {} THEN row.fresh ELSE row.pnl]
SurvivalTrades(w) ==
    [key \in {key \in RowsOf(w) : perf[key].spent > 0} |-> SurvivalTrade(perf[key])]

SurvivalReads(p) ==
    /\ Begins(p, "survival", {},
              [w \in {w \in Accounts : DOMAIN SurvivalTrades(w) # {}} |->
                  build_survival_profile(SurvivalTrades(w))])
    /\ UNCHANGED <<intel, elite, perf, target, survival, cut>>

SurvivalSaves(p) ==
    /\ proc[p].job = "survival"
    /\ survival' = Upsert(proc[p].read, survival)
    /\ Ends(p)
    /\ UNCHANGED <<intel, elite, perf, target, starts, cut>>

WalletsNext ==
    \/ \E w \in Holders, k \in Tokens : IntelligenceSaves(w, k)
    \/ \E p \in Procs :
          \/ DiscoveryReads(p) \/ DiscoverySaves(p)
          \/ ReverseStarts(p)
          \/ \E k \in Tokens : ReverseAnalyzes(p, k)
          \/ AuditReads(p)
          \/ \E w \in Accounts : AuditsWallet(p, w)
          \/ ServiceEnds(p) \/ ServiceFails(p)
          \/ RefreshReads(p) \/ RefreshSaves(p)
          \/ SurvivalReads(p) \/ SurvivalSaves(p)

WalletsSpec == WalletsInit /\ [][WalletsNext]_walletVars

-----------------------------------------------------------------------------
(***************************************************************************)
(* Properties.                                                             *)
(***************************************************************************)
AtMostOne(x) == Cardinality(x) <= 1 /\ \A n \in x : n \in Int

\* The tables hold rows of the right shape, and what each process has to do
\* fits its job.
WalletsTypeOK ==
    /\ intel \in [Accounts -> [Tokens -> 0..MaxRows]]
    /\ DOMAIN elite \subseteq Accounts
    /\ \A w \in DOMAIN elite :
          /\ elite[w].label \in Labels /\ elite[w].source \in Sources
          /\ elite[w].bot = (elite[w].label = "BOT_EXCLUDED")
          /\ elite[w].count \in Nat /\ elite[w].score \in 0..10000
    /\ DOMAIN perf \subseteq Keys
    /\ \A key \in DOMAIN perf :
          /\ perf[key].spent \in Nat /\ perf[key].received \in Nat
          /\ \A x \in {perf[key].pnl, perf[key].roi, perf[key].fresh} : AtMostOne(x)
    /\ DOMAIN target \subseteq Tokens /\ DOMAIN survival \subseteq Accounts
    /\ \A p \in Procs :
          /\ proc[p].job \in {"idle", "discovery", "survival"} => proc[p].todo = {}
          /\ proc[p].job = "audit" => proc[p].todo \subseteq Accounts
          /\ proc[p].job \in {"reverse", "refresh"} => proc[p].todo \subseteq Tokens
    /\ starts \in 0..MaxStarts /\ cut \subseteq Tokens

\* Every trade and every profile belongs to a wallet of elite_wallets,
\* whatever was cut short: the wallet and its rows are committed together, and
\* a wallet the discovery skips leaves no rows.
EvidenceHasItsWallet ==
    /\ \A key \in DOMAIN perf : key[1] \in DOMAIN elite
    /\ DOMAIN survival \subseteq DOMAIN elite

\* An analysed target has the rows of the wallets it claims to have promoted,
\* also when two runs analyse it at once; and only a run that failed leaves a
\* target without the counts it may have had: any other is analysed, or will be.
AnalyzedTargetHasRows ==
    \A k \in DOMAIN target :
        IF target[k].status = "ANALYZED"
        THEN /\ target[k].promoted <= target[k].profitable
             /\ target[k].profitable <= target[k].checked
             /\ target[k].promoted <=
                  Cardinality({key \in DOMAIN perf :
                     key[2] = k /\ key[3] = "reverse_profit_discovery"})
        ELSE k \in cut \/ \E p \in Procs : proc[p].job = "reverse" /\ k \in proc[p].todo

\* A trade counts as a rug only if at most 55% of what was spent came back,
\* whichever service recorded it, whether or not tokens are still held, and
\* whatever an outage, an audit or a refresh without the amounts held made of
\* their value.  The rule means 10% (RUG_ROI_THRESHOLD, -90): but what it calls
\* the current value counts what was received twice and what was spent not.
RugsReturnedLittle ==
    \A key \in DOMAIN perf :
        (perf[key].spent > 0 /\ is_rugged_trade(SurvivalTrade(perf[key]))) =>
        LET position == IF key[3] = "reverse_profit_discovery"
                        THEN EarlyBuyers[key[2]][key[1]] ELSE Positions[key[1]][key[2]]
        IN 20 * position.received <= 11 * position.spent
=============================================================================
