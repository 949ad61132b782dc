---------------------------- MODULE TokenEvidence ----------------------------
(***************************************************************************)
(* What the stages conclude from what they were told: the classifiers that *)
(* turn a token's evidence into the nine verdicts of a decision.           *)
(*                                                                         *)
(* A piece of evidence e has one field for each fact a classifier looks    *)
(* at.  A number that may be missing is a set: {x}, or {} for None; so     *)
(* "is not None and ..." reads \E x \in e.field : ...                      *)
(*   price   age of the pair in minutes, its price changes m5 and h1, its  *)
(*           trades (buys, sells) and volumes of 5 minutes and of an hour, *)
(*           mcap, liquidity                                               *)
(*   report  answered, totals, mint, freeze, risks, owners, shares, lp,    *)
(*           dev, balance: what RugCheck says                              *)
(*   holders configured, funded, largest, sponsored, distributed, linked,  *)
(*           dumped: Helius on the relations between the top holders;      *)
(*           largest counts the holders of one funder as the cluster stage *)
(*           finds them, sponsored when those of the relations are added   *)
(*   dev     auditAnswered, flowAnswered: each of the two stages asks for  *)
(*           the history; in it bought, sold, and what was moved: direct   *)
(*           to recipients that count, moved to others; of the recipients  *)
(*           splitters and proxies                                         *)
(*   wallets for each top holder what its own history shows                *)
(* Numbers that a report states to a fraction are whole here, and the      *)
(* last digits that the code rounds away are left out.                     *)
(***************************************************************************)
EXTENDS Integers, FiniteSets, Functions, DecisionRules

\* A number that may be missing.
IsOptional(x) == x \subseteq Int /\ \A a, b \in x : a = b

\* The holders that one funder funded are holders whose funder is known.
IsEvidence(e) ==
    /\ \A x \in {e.m5, e.h1, e.volume1, e.mcap, e.liquidity} : IsOptional(x)
    /\ e.owners \in Nat /\ e.balance \in Nat
    /\ e.funded \in Nat /\ e.largest \in Nat /\ e.largest =< e.funded
    /\ e.sponsored \in Nat /\ e.distributed \in Nat
    /\ e.linked \in Nat /\ e.dumped \in Nat
    /\ e.bought \in Nat /\ e.sold \in Nat /\ e.moved \in Nat
    /\ e.direct \in Nat /\ e.splitters \in Nat /\ e.proxies \in Nat
    /\ \A s \in e.shares : s \in [top : Int, ten : Int, twenty : Int, held : Int]
    /\ \A s, t \in e.shares : s = t
    /\ IsFiniteSet(DOMAIN e.wallets)

Larger(x, y) == IF x >= y THEN x ELSE y
Smaller(x, y) == IF x =< y THEN x ELSE y

\* The names that apply: a list the code appends to, one condition each.
When(condition, name) == IF condition THEN {name} ELSE {}

-----------------------------------------------------------------------------
(***************************************************************************)
(* Market filter.                                                          *)
(***************************************************************************)
\* classify_pair_age: at most a day old, and the date is known.
PassesEarly(e) == \E a \in e.age : 0 =< a /\ a < 1440

\* classify_dump_risk: the price has fallen, or sellers outweigh buyers by a
\* ratio that enough trades support.  A missing price change is no objection.
DumpRisk(e) ==
    LET txns5 == e.trades5.buys + e.trades5.sells
        txns1 == e.trades1.buys + e.trades1.sells
    IN  \/ \E x \in e.m5 : x =< -20
        \/ \E x \in e.h1 : x =< -40
        \/ (\E x \in e.h1 : x >= 100) /\ (\E x \in e.m5 : x =< -15)
        \/ txns5 >= 10 /\ 100 * e.trades5.buys < 35 * txns5
        \/ txns1 >= 50 /\ 100 * e.trades1.buys < 40 * txns1

\* The window in which activity is judged, with its moderate thresholds:
\* the strong ones are higher in all three and so let no other token pass.
Window(e) ==
    IF \E a \in e.age : a < 30
    THEN [volume |-> e.volume5, trades |-> e.trades5, minVolume |-> 1000, minTxns |-> 15]
    ELSE [volume |-> e.volume1, trades |-> e.trades1, minVolume |-> 10000, minTxns |-> 50]

\* classify_market_activity
PassesActivity(e) ==
    LET w == Window(e)
        txns == w.trades.buys + w.trades.sells
    IN  /\ \E a \in e.age : a >= 5
        /\ \E v \in w.volume : v >= w.minVolume
        /\ e.mcap # {}
        /\ txns >= w.minTxns
        /\ 100 * w.trades.buys >= 45 * txns

VolumeToMcapOver(e, k) ==
    \E v \in Window(e).volume, c \in e.mcap : c > 0 /\ v > k * c

\* classify_market_warnings, of a token that passes the three filters
MarketWarnings(e) ==
    When(\E x \in e.h1 : x =< -20, "1H_PRICE_WEAKNESS") \cup
    When(\E x \in e.m5 : x =< -10, "5M_SHORT_TERM_WEAKNESS") \cup
    When(VolumeToMcapOver(e, 10), "EXTREME_VOLUME_TO_MCAP") \cup
    When(VolumeToMcapOver(e, 20), "VERY_EXTREME_VOLUME_TO_MCAP") \cup
    When(\A x \in e.liquidity : x < 5000, "LIQUIDITY_UNKNOWN_OR_LOW") \cup
    When(\E x \in e.mcap : x < 5000, "MICRO_MARKET_CAP")

\* classify_market_filter_status
MarketVerdict(e) ==
    IF ~PassesEarly(e) \/ DumpRisk(e) \/ ~PassesActivity(e) THEN "danger"
    ELSE IF Cardinality(MarketWarnings(e)) > 2 THEN "warning"
    ELSE "pass"

-----------------------------------------------------------------------------
(***************************************************************************)
(* RugCheck's report: contract risk and the distribution of the holders.   *)
(* When the request fails the stored report is an error message, so the    *)
(* later stages find neither holders nor liquidity locks nor a developer.  *)
(***************************************************************************)
Owners(e) == IF e.answered THEN e.owners ELSE 0
Shares(e) == IF e.answered /\ e.owners > 0 THEN e.shares ELSE {}
Lock(e) == IF e.answered THEN e.lp ELSE {}
DevKnown(e) == e.answered /\ e.dev

\* first or last, Python's: a zero that is stated first is not looked at.
FirstOf(total) == IF \E x \in total.first : x # 0 THEN total.first ELSE total.last

Stated0(total) == \E x \in FirstOf(total) : x = 0

\* rugcheck_has_no_data
HasNoData(e) ==
    LET none == Stated0(e.totals.supply) IN
    \/ none /\ Stated0(e.totals.cap) /\ Stated0(e.totals.holders)
    \/ none /\ e.owners = 0

\* extract_rugcheck_summary.  "critical" is a risk whose level or name makes
\* it one; held is the share of the first ten owners that hold something.
ContractVerdict(e) ==
    IF ~e.answered \/ HasNoData(e) THEN "unknown"
    ELSE IF \/ e.mint \/ e.freeze
            \/ \E s \in Shares(e) : s.held >= 50
            \/ "critical" \in e.risks
         THEN "danger"
    ELSE IF e.risks # {} THEN "warning"
    ELSE "pass"

\* classify_wallet_distribution
WalletVerdict(e) ==
    IF Shares(e) = {} THEN "unknown"
    ELSE IF \E s \in Shares(e) : s.top >= 20 \/ s.ten >= 50 \/ s.twenty >= 70
         THEN "danger"
    ELSE IF \E s \in Shares(e) : s.ten >= 30 THEN "warning"
    ELSE "pass"

-----------------------------------------------------------------------------
(***************************************************************************)
(* Liquidity filter.                                                       *)
(***************************************************************************)
\* extract_lp_lock_summary, as the points classify_liquidity_trap gives it
LpLockPoints(e) ==
    IF \E k \in Lock(e) : k.burned \/ \E x \in k.pct : x >= 95 THEN 0
    ELSE IF \E k \in Lock(e) : \E x \in k.pct : x >= 70 THEN 4
    ELSE IF \E k \in Lock(e) : \E x \in k.pct : x < 50 THEN 22
    ELSE 10

\* The value of a field is more than k times the liquidity.
Over(field, k, e) == \E v \in field, l \in e.liquidity : v > k * l

\* classify_liquidity_trap, where there is liquidity
TrapScore(e) ==
    LET Below(x) == \E l \in e.liquidity : l < x
        depth == IF Below(3000) THEN 35
                 ELSE IF Below(10000) THEN 22
                 ELSE IF Below(25000) THEN 10 ELSE 0
        mcap == IF Over(e.mcap, 20, e) THEN 35
                ELSE IF Over(e.mcap, 10, e) THEN 24
                ELSE IF Over(e.mcap, 5, e) THEN 12 ELSE 0
        volume == IF Over(e.volume1, 20, e) THEN 20
                  ELSE IF Over(e.volume1, 10, e) THEN 12 ELSE 0
    IN  Smaller(100, depth + mcap + volume + LpLockPoints(e))

\* classify_liquidity.  What is left of LIQUIDITY_WEAK, less than 10000, has
\* a warning already: that status is never written.
LiquidityVerdict(e) ==
    IF ~\E l \in e.liquidity : l > 0 THEN "unknown"
    ELSE IF \/ \E l \in e.liquidity : l < 3000
            \/ Over(e.mcap, 20, e)
            \/ TrapScore(e) >= 75
         THEN "danger"
    ELSE IF \/ \E l \in e.liquidity : l < 10000
            \/ Over(e.mcap, 10, e)
            \/ Over(e.volume1, 10, e)
            \/ TrapScore(e) >= 25
         THEN "warning"
    ELSE "pass"

-----------------------------------------------------------------------------
(***************************************************************************)
(* The relations between the top holders.  Ten of them are asked for their *)
(* funders, three for their relations.  A holder whose history cannot be   *)
(* fetched counts as one without a funder and without relations.           *)
(***************************************************************************)
ClusterHolders(e) == Smaller(10, Owners(e))

\* Mutant: a shared funder is looked for before visibility is.
ClusterVerdict_AnyVisibility(e) ==
    IF ~e.configured \/ ClusterHolders(e) = 0 THEN "unknown"
    ELSE IF e.largest >= 5 THEN "danger"
    ELSE IF e.largest >= 2 THEN "warning"
    ELSE "pass"

\* classify_clusters: largest is the most holders that one funder funded.
ClusterVerdict(e) ==
    IF ~e.configured \/ ClusterHolders(e) = 0 THEN "unknown"
    ELSE IF e.largest >= 5 THEN "danger"
    ELSE IF e.largest >= 3 THEN "warning"
    ELSE IF e.funded < Larger(2, ClusterHolders(e) \div 3) THEN "unknown"
    ELSE IF e.largest >= 2 THEN "warning"
    ELSE "pass"

\* What is stored of the largest cluster: a funder of one holder is none.
ClusterSize(e) ==
    IF e.configured /\ ClusterHolders(e) > 0 /\ e.largest >= 2 THEN e.largest ELSE 0

\* Two thresholds, one or the other number of points.
Points(n, few, small, many, big) ==
    IF n >= many THEN big ELSE IF n >= few THEN small ELSE 0

\* classify_manipulation.  The saved funding edges count here as well.  With
\* three holders asked, linked never reaches the four of its upper threshold.
ManipulationPoints(e) ==
    IF ~e.configured THEN 0
    ELSE Points(Larger(e.largest, e.sponsored), 2, 2, 3, 4)
         + Points(e.distributed, 2, 2, 3, 4)
         + Points(e.linked, 2, 1, 4, 3)
         + Points(e.dumped, 2, 2, 3, 4)

ManipulationVerdict(e) ==
    IF ~e.configured \/ Owners(e) = 0 THEN "unknown"
    ELSE IF ManipulationPoints(e) >= 7 THEN "danger"
    ELSE IF ManipulationPoints(e) >= 3 THEN "warning"
    ELSE "pass"

-----------------------------------------------------------------------------
(***************************************************************************)
(* The developer.  A history that cannot be fetched is an empty one.       *)
(***************************************************************************)
DevHistory(e, answered) ==
    IF e.configured /\ answered
    THEN [bought |-> e.bought, sold |-> e.sold, moved |-> e.moved + e.direct,
          direct |-> e.direct, splitters |-> e.splitters, proxies |-> e.proxies]
    ELSE [bought |-> 0, sold |-> 0, moved |-> 0,
          direct |-> 0, splitters |-> 0, proxies |-> 0]

\* What the developer had at first, as far as the history h tells.
Initial(e, h) == Larger(h.bought, h.sold + h.moved + e.balance)

\* analyze_dev_wallet_transactions; a balance the report omits is 0.0.
DevAuditStatus(e) ==
    LET h == DevHistory(e, e.auditAnswered)
        initial == Initial(e, h)
    IN
    IF ~DevKnown(e) THEN "DEV_UNKNOWN"
    ELSE IF initial > 0 /\ 100 * h.sold >= 80 * initial THEN "DEV_SOLD_OUT"
    ELSE IF h.sold > 0 THEN "DEV_SOLD_PARTIAL"
    ELSE IF h.moved > 0 THEN "DEV_TRANSFERRED_TOKENS"
    ELSE IF e.balance = 0 THEN "DEV_NO_BALANCE"
    ELSE "DEV_HOLDING"

\* Mutant: a status is missing in the list of the dangerous ones.
DevAuditVerdict_SoldOutForgotten(e) ==
    LET status == DevAuditStatus(e) IN
    IF status = "DEV_UNKNOWN" THEN "unknown"
    ELSE IF status = "DEV_SOLD_PARTIAL" THEN "danger"
    ELSE IF status = "DEV_HOLDING" THEN "pass"
    ELSE "warning"

\* Mutant: moving the tokens is no warning.
DevAuditVerdict_MovingIsHolding(e) ==
    LET status == DevAuditStatus(e) IN
    IF status = "DEV_UNKNOWN" THEN "unknown"
    ELSE IF status \in {"DEV_SOLD_OUT", "DEV_SOLD_PARTIAL"} THEN "danger"
    ELSE IF status \in {"DEV_TRANSFERRED_TOKENS", "DEV_HOLDING"} THEN "pass"
    ELSE "warning"

DevAuditVerdict(e) ==
    LET status == DevAuditStatus(e) IN
    IF status = "DEV_UNKNOWN" THEN "unknown"
    ELSE IF status \in {"DEV_SOLD_OUT", "DEV_SOLD_PARTIAL"} THEN "danger"
    ELSE IF status = "DEV_HOLDING" THEN "pass"
    ELSE "warning"

\* analyze_dev_wallet_flow: direct is what the recipients of at least half a
\* percent received; splitters and proxies are found among those and theirs.
ShadowDevScore(e) ==
    LET h == DevHistory(e, e.flowAnswered)
        initial == Initial(e, h)
        Part(pct) == initial > 0 /\ 100 * h.direct >= pct * initial
        tracked == h.direct > 0
        direct == IF Part(20) THEN 25 ELSE IF Part(5) THEN 12 ELSE 0
        splits == IF tracked /\ h.splitters > 0 THEN 50 ELSE 0
        dumps == IF tracked THEN Smaller(50, 45 * h.proxies) ELSE 0
    IN  IF DevKnown(e) THEN Smaller(100, direct + splits + dumps) ELSE 0

DevFlowVerdict(e) ==
    IF ~DevKnown(e) THEN "unknown"
    ELSE IF ShadowDevScore(e) >= 70 THEN "danger"
    ELSE IF ShadowDevScore(e) >= 30 THEN "warning"
    ELSE "pass"

-----------------------------------------------------------------------------
(***************************************************************************)
(* The intelligence on the holders' wallets.  A wallet w has its percent   *)
(* of the supply in tenths, its rank, the holders that share its funder,   *)
(* and of its history: entry (seconds after launch), age and span in       *)
(* seconds, txs, dex (trades among them), tokens bought and sold.          *)
(***************************************************************************)
Fetched(e, w) ==
    IF e.configured THEN w
    ELSE [percent |-> w.percent, rank |-> w.rank, shared |-> w.shared,
          entry |-> {}, age |-> {}, span |-> {}, txs |-> 0, dex |-> 0,
          bought |-> 0, sold |-> 0]

Busy(w) == \E s \in w.span : 20 * w.txs >= s
Sniper(w) == \E x \in w.entry : 0 =< x /\ x =< 60
Whale(w) == w.percent >= 50 \/ (w.rank =< 3 /\ w.percent >= 15)
SoldPart(w, pct) == w.bought > 0 /\ 100 * w.sold >= pct * w.bought

\* The first six labels of analyze_wallet_transactions.  Who sold more than
\* it bought has a ratio above one: the second dumper rule adds nothing.
Suspicions(w) ==
    When(Whale(w), "WHALE") \cup
    When(Sniper(w), "SNIPER") \cup
    When(w.txs < 100 /\ \E a \in w.age : 0 =< a /\ a =< 86400, "FRESH_WALLET") \cup
    When(SoldPart(w, 65), "DUMPER") \cup
    When(\/ w.shared >= 3
         \/ w.shared >= 2 /\ (w.percent >= 10 \/ Sniper(w) \/ Whale(w)),
         "DEV_RELATED") \cup
    When(\/ w.dex >= 25
         \/ w.dex >= 12 /\ \E s \in w.span : s =< 600
         \/ w.txs >= 15 /\ Busy(w),
         "BOT")

WalletLabels(w) ==
    Suspicions(w) \cup
    When(/\ w.percent \in 2..80
         /\ w.bought > w.sold
         /\ 100 * w.sold =< 20 * w.bought
         /\ \A x \in w.entry : x > 300
         /\ Suspicions(w) \subseteq {"WHALE"},
         "SMART_WALLET")

\* score_wallet
LabelScore(l) ==
    CASE l = "SMART_WALLET" -> 3 [] l = "WHALE" -> 1
      [] l \in {"SNIPER", "BOT"} -> -2 [] l = "DUMPER" -> -3
      [] l \in {"FRESH_WALLET", "DEV_RELATED"} -> -4

WalletScore(w) ==
    LET labels == [l \in WalletLabels(w) |-> LabelScore(l)]
        extra == (IF w.percent >= 200 THEN -3 ELSE IF w.percent >= 100 THEN -1 ELSE 0)
                 + (IF SoldPart(w, 80) THEN -2 ELSE 0)
                 + (IF Busy(w) THEN -1 ELSE 0)
    IN  Larger(-10, Smaller(10, SumFunction(labels) + extra))

\* update_watchlist_intelligence_summary
HolderLabels(e) == [h \in DOMAIN e.wallets |-> WalletLabels(Fetched(e, e.wallets[h]))]

Count(labels, l) == Cardinality({h \in DOMAIN labels : l \in labels[h]})

AverageAtMost(e, x) ==
    /\ e.wallets # << >>
    /\ SumFunction([h \in DOMAIN e.wallets |-> WalletScore(Fetched(e, e.wallets[h]))])
         =< x * Cardinality(DOMAIN e.wallets)

\* classify_wallet_intelligence
IntelligenceVerdict(e) ==
    LET labels == HolderLabels(e)
        N(l) == Count(labels, l)
    IN
    IF \/ N("FRESH_WALLET") >= 2
       \/ N("FRESH_WALLET") >= 1 /\ (N("SNIPER") >= 1 \/ N("DEV_RELATED") >= 1)
       \/ N("DEV_RELATED") >= 2
       \/ /\ N("DEV_RELATED") >= 1
          /\ N("DUMPER") >= 1 \/ N("BOT") >= 1 \/ N("SNIPER") >= 1
       \/ N("BOT") >= 3
       \/ N("DUMPER") >= 4
       \/ N("SNIPER") >= 5 /\ N("DUMPER") >= 2
       \/ AverageAtMost(e, -6)
    THEN "danger"
    ELSE IF \/ N("FRESH_WALLET") >= 1
            \/ N("SNIPER") >= 2
            \/ N("WHALE") >= 2
            \/ N("DUMPER") >= 1
            \/ N("BOT") >= 1
            \/ AverageAtMost(e, -3)
    THEN "warning"
    ELSE "pass"

-----------------------------------------------------------------------------
(***************************************************************************)
(* The decision, and the insider probability that is stored beside it.     *)
(***************************************************************************)
Verdict(e, l) ==
    IF l = "market" THEN MarketVerdict(e)
    ELSE IF l = "contract" THEN ContractVerdict(e)
    ELSE IF l = "liquidity" THEN LiquidityVerdict(e)
    ELSE IF l = "wallet" THEN WalletVerdict(e)
    ELSE IF l = "cluster" THEN ClusterVerdict(e)
    ELSE IF l = "manipulation" THEN ManipulationVerdict(e)
    ELSE IF l = "dev_audit" THEN DevAuditVerdict(e)
    ELSE IF l = "dev_flow" THEN DevFlowVerdict(e)
    ELSE IntelligenceVerdict(e)

Row(e) == [l \in Layers |-> Verdict(e, l)]

Decision(e) == classify_watchlist_decision(Row(e))

\* Evidence without which nobody can judge a token.
IsSilent(e) ==
    \/ e.age = {} \/ e.mcap = {} \/ Window(e).volume = {}
    \/ \A l \in e.liquidity : l =< 0
    \/ Shares(e) = {}
    \/ ~e.configured
    \/ e.funded < 2

\* Points of a score that a verdict raises: at least this much for its status.
AtLeast(points, verdict, warning, danger) ==
    IF verdict = "danger" THEN Larger(points, danger)
    ELSE IF verdict = "warning" THEN Larger(points, warning)
    ELSE points

HolderPoints(e) ==
    LET Ten(x) == \E s \in Shares(e) : s.ten >= x
        Top(x) == \E s \in Shares(e) : s.top >= x
    IN  Smaller(20,
          (IF Ten(80) THEN 16 ELSE IF Ten(60) THEN 12
           ELSE IF Ten(40) THEN 8 ELSE IF Ten(30) THEN 5 ELSE 0)
          + (IF Top(25) THEN 4 ELSE IF Top(15) THEN 2 ELSE 0))

DevPoints(e) ==
    LET status == DevAuditStatus(e) IN
    IF status = "DEV_SOLD_OUT" THEN 25
    ELSE IF status = "DEV_SOLD_PARTIAL" THEN 18
    ELSE IF status = "DEV_TRANSFERRED_TOKENS" THEN 14
    ELSE IF status = "DEV_NO_BALANCE" THEN 10 ELSE 0

FreshPoints(n) == IF n >= 3 THEN 30 ELSE IF n >= 2 THEN 24 ELSE IF n >= 1 THEN 15 ELSE 0

\* calculate_insider_probability, in hundredths: the developer's flow counts
\* 0.35 for each point.
InsiderPoints(e) ==
    100 * ( AtLeast(Smaller(30, 4 * ClusterSize(e)), ClusterVerdict(e), 14, 24)
          + AtLeast(Smaller(30, 3 * Smaller(10, ManipulationPoints(e))),
                    ManipulationVerdict(e), 14, 24)
          + Smaller(20, 4 * Count(HolderLabels(e), "SNIPER"))
          + FreshPoints(Count(HolderLabels(e), "FRESH_WALLET"))
          + DevPoints(e)
          + HolderPoints(e) )
    + AtLeast(Smaller(3500, 35 * ShadowDevScore(e)), DevFlowVerdict(e), 1400, 3000)

\* The level below which a score counts as low is 25 after rounding, and
\* 24.5 rounds to the even 24.
LevelIsLow(e) == InsiderPoints(e) =< 2450
=============================================================================
