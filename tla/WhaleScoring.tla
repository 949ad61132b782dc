---------------------------- MODULE WhaleScoring ----------------------------
(***************************************************************************)
(* How trades become a wallet's score, label and survival profile:         *)
(* whale_scoring_logic.py, and the functions of the whale services that    *)
(* make trades from transfers and rows.                                    *)
(*                                                                         *)
(* SOL amounts are in tenths, rates of transactions per minute and scores  *)
(* in hundredths.  A value that may be missing is a set of at most one     *)
(* number.  A list of trades or positions is a function from any finite    *)
(* set of indices.  Rounding is left out.                                  *)
(***************************************************************************)
EXTENDS Integers, FiniteSets, FiniteSetsExt, Folds, SequencesExt

CONSTANTS
    Accounts,      \* accounts that take part in transfers, pools included
    MinTrades,    \* MIN_TRADES_FOR_SCORE, 5, and the 5 of build_survival_profile
    BuyerLimit,   \* early_buyer_limit
    MinProfit     \* min_profit_sol and MIN_PROFIT_SOL_FOR_DISCOVERY, in tenths

ASSUME MinTradesAssumption == MinTrades \in Nat \ {0}
ASSUME BuyerLimitAssumption == BuyerLimit \in Nat \ {0}
ASSUME MinProfitAssumption == MinProfit \in Nat \ {0}

Labels == {"BOT_EXCLUDED", "ELITE_SMART_MONEY", "WATCHLIST_CANDIDATE", "UNPROVEN"}

-----------------------------------------------------------------------------
(***************************************************************************)
(* The score.                                                              *)
(***************************************************************************)
Total(f) == MapThenSumSet(LAMBDA i : f[i], DOMAIN f)
Clamped(x) == Max({0, Min({100, x})})
NumberOr(known, default) == IF known = {} THEN default ELSE CHOOSE x \in known : TRUE

valid_whale_trades(trades) ==
    RestrictDomain(trades, LAMBDA i : trades[i].amount >= 1)

is_bot_like_wallet(trades) == \E i \in DOMAIN trades : trades[i].rate > 500

Wins(trades) == {i \in DOMAIN trades : NumberOr(trades[i].pnl, 0) > 0}
TotalProfit(trades) == Total([i \in DOMAIN trades |-> NumberOr(trades[i].pnl, 0)])

\* The mean of what is known, none if nothing is.
MeanOf(values) ==
    LET known == {i \in DOMAIN values : values[i] # {}}
    IN IF known = {} THEN {}
       ELSE {Total([i \in known |-> NumberOr(values[i], 0)]) \div Cardinality(known)}

win_rate_score(trades) ==
    (100 * Cardinality(Wins(trades))) \div Cardinality(DOMAIN trades)

roi_score(trades) ==
    Clamped(NumberOr(MeanOf([i \in DOMAIN trades |-> trades[i].roi]), 0) \div 5)

early_entry_score(trades) ==
    LET known == {i \in DOMAIN trades : trades[i].minutes # {}}
        minutes == Total([i \in known |-> NumberOr(trades[i].minutes, 0)])
    IN IF known = {} THEN 0
       ELSE IF minutes <= 2 * Cardinality(known) THEN 100
       ELSE IF minutes <= 10 * Cardinality(known) THEN 50 ELSE 0

consistency_score(trades) == Clamped(TotalProfit(trades) \div 10)

\* of valid trades
whale_score(trades) ==
    IF Cardinality(DOMAIN trades) < MinTrades \/ is_bot_like_wallet(trades) THEN 0
    ELSE 35 * win_rate_score(trades) + 25 * roi_score(trades)
         + 20 * early_entry_score(trades) + 20 * consistency_score(trades)

summarize_whale_trades(trades) ==
    LET valid == valid_whale_trades(trades)
    IN [count |-> Cardinality(DOMAIN valid),
        profitable |-> Cardinality(Wins(valid)),
        profit |-> TotalProfit(valid),
        bot |-> is_bot_like_wallet(valid),
        score |-> whale_score(valid)]

\* Mutant: the bot rule comes last.
classify_elite_wallet_BotLast(summary) ==
    IF summary.score >= 7500 THEN "ELITE_SMART_MONEY"
    ELSE IF summary.score >= 5500 THEN "WATCHLIST_CANDIDATE"
    ELSE IF summary.score > 0 /\ summary.bot THEN "BOT_EXCLUDED" ELSE "UNPROVEN"

classify_elite_wallet(summary) ==
    IF summary.bot THEN "BOT_EXCLUDED"
    ELSE IF summary.score >= 7500 THEN "ELITE_SMART_MONEY"
    ELSE IF summary.score >= 5500 THEN "WATCHLIST_CANDIDATE"
    ELSE "UNPROVEN"

-----------------------------------------------------------------------------
(***************************************************************************)
(* From transfers to positions to trades.  A transfer moves amount tokens  *)
(* from one account to another, against sol in the other direction, at     *)
(* minutes after launch; a history is in the order of time, a transaction  *)
(* has one transfer.                                                       *)
(***************************************************************************)
NoPosition == [known |-> FALSE, in |-> 0, out |-> 0, spent |-> 0, received |-> 0,
               txs |-> 0, minutes |-> 0]
NoPositions == [w \in Accounts |-> NoPosition]
KnownIn(positions) == {w \in Accounts : positions[w].known}

Bought(position, x) ==
    [position EXCEPT !.known = TRUE,
                     !.minutes = IF position.known THEN @ ELSE x.minutes,
                     !.in = @ + x.amount, !.spent = @ + x.sol, !.txs = @ + 1]
Sold(position, x) ==
    [position EXCEPT !.out = @ + x.amount, !.received = @ + x.sol, !.txs = @ + 1]

\* One turn of the loop: the buyer first, then a seller that is a buyer.
AddTransfer(positions, x) ==
    LET room == positions[x.to].known \/ Cardinality(KnownIn(positions)) < BuyerLimit
        bought == IF room THEN [positions EXCEPT ![x.to] = Bought(@, x)] ELSE positions
    IN IF bought[x.from].known THEN [bought EXCEPT ![x.from] = Sold(@, x)] ELSE bought

extract_early_buyer_positions(history) ==
    FoldLeft(AddTransfer, NoPositions, history)

\* The audit's view: what comes in and what goes out, both for a transfer of
\* the wallet to itself; a token it only sells has a position as well.
MoveOf(wallet, position, x) ==
    LET bought == IF x.to = wallet THEN Bought(position, x) ELSE position
        both == IF x.from = wallet THEN Sold(bought, x) ELSE bought
    IN IF wallet \in {x.to, x.from}
       THEN [both EXCEPT !.known = TRUE, !.txs = position.txs + 1] ELSE position

build_position(wallet, history) ==
    FoldLeft(LAMBDA position, x : MoveOf(wallet, position, x), NoPosition, history)

Holding(position) == Max({0, position.in - position.out})
Pnl(position, price) ==
    position.received + Holding(position) * price - position.spent
\* Rounded up, so that a comparison with -90 is exact.
Percent(part, whole) == -((-100 * part) \div whole)
Roi(position, price) == Percent(Pnl(position, price), position.spent)

TxRate(position) ==
    IF position.minutes > 0
    THEN (100 * position.txs) \div position.minutes ELSE 0

\* For a position on which SOL was spent; the others are skipped.
position_to_trade(position, price) ==
    [amount |-> position.spent, pnl |-> {Pnl(position, price)},
     roi |-> {Roi(position, price)}, minutes |-> {position.minutes},
     rate |-> TxRate(position)]

\* The audit knows neither the launch nor the pace of a trade.
positions_to_trades(position, price) ==
    [position_to_trade(position, price) EXCEPT !.minutes = {}, !.rate = 0]

\* What wallet intelligence stored: the profit of what was sold, nothing
\* when nothing was.
RealizedCost(position) ==
    (Min({position.out, position.in}) * position.spent) \div position.in
RealizedPnl(position) ==
    IF position.out > 0 /\ position.in > 0 /\ position.received > 0
    THEN {position.received - RealizedCost(position)} ELSE {}
RealizedRoi(position) ==
    IF RealizedPnl(position) # {} /\ RealizedCost(position) > 0
    THEN {Percent(NumberOr(RealizedPnl(position), 0), RealizedCost(position))} ELSE {}

trade_from_wallet_row(position, rate) ==
    [amount |-> position.spent, pnl |-> RealizedPnl(position),
     roi |-> RealizedRoi(position), minutes |-> {position.minutes}, rate |-> rate]

-----------------------------------------------------------------------------
(***************************************************************************)
(* The survival profile, from rows with spent, received, roi and pnl, the  *)
(* refreshed one if there is one.  What it calls the current value is what *)
(* was received plus the profit.                                           *)
(***************************************************************************)
\* Mutant: a fifth of what was spent instead of a tenth.
is_rugged_trade_Fifth(trade) ==
    LET current_value == trade.received + NumberOr(trade.pnl, 0)
    IN \/ \E roi \in trade.roi : roi <= -90
       \/ trade.pnl # {} /\ current_value > 0 /\ 5 * current_value <= trade.spent

is_rugged_trade(trade) ==
    LET roi == IF trade.roi # {} THEN NumberOr(trade.roi, 0)
               ELSE IF trade.pnl # {} THEN Percent(NumberOr(trade.pnl, 0), trade.spent)
               ELSE 0
        current_value == IF trade.pnl # {}
                         THEN trade.received + NumberOr(trade.pnl, 0) ELSE 0
    IN roi <= -90 \/ (current_value > 0 /\ 10 * current_value <= trade.spent)

build_survival_profile(trades) ==
    LET total == Cardinality(DOMAIN trades)
        rugged == Cardinality({i \in DOMAIN trades : is_rugged_trade(trades[i])})
    IN [total |-> total, rugged |-> rugged,
        security |-> IF total < MinTrades THEN "UNPROVEN"
                     ELSE IF 100 * (total - rugged) < 80 * total THEN "RISKY"
                     ELSE "SAFE_TO_WATCH"]
=============================================================================
