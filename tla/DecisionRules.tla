---------------------------- MODULE DecisionRules ----------------------------
(***************************************************************************)
(* How the results of the analysis stages become a watchlist decision:     *)
(* classify_watchlist_decision.                                            *)
(*                                                                         *)
(* A row holds one verdict for each layer.  A verdict stands for the       *)
(* status a stage writes, with its pass flag:                              *)
(*   "none"      no row of that run and token, the LEFT JOIN gives NULL    *)
(*   "unknown"   ..._UNKNOWN, the stage ran without data                   *)
(*   "danger"    ..._DANGER; the market's rejections; DEV_SOLD_OUT,        *)
(*               DEV_SOLD_PARTIAL                                          *)
(*   "warning"   ..._WARNING; MARKET_PASS_HIGH_RISK; LIQUIDITY_WEAK;       *)
(*               DEV_TRANSFERRED_TOKENS, DEV_NO_BALANCE                    *)
(*   "pass"      every other status: LIQUIDITY_STRONG, DEV_HOLDING, ...    *)
(***************************************************************************)
EXTENDS Integers

Layers == {"market", "contract", "liquidity", "wallet", "cluster",
           "manipulation", "dev_audit", "dev_flow", "intelligence"}

Verdicts == {"none", "unknown", "danger", "warning", "pass"}

\* What a stage can find for a token it looks at.  The market filter is an
\* inner join and always answers; holders without any label are a "pass".
Findings(l) ==
    IF l \in {"market", "intelligence"} THEN {"danger", "warning", "pass"}
    ELSE {"unknown", "danger", "warning", "pass"}

\* The ..._pass column.  The developer's audit has one that nobody reads.
PassFlag(v) == v \in {"warning", "pass"}

\* Mutant: the check for a missing row is dropped, and NULL is not FALSE.
Gate_NullGoesOn(v, wait, reject, next) ==
    IF v = "unknown" THEN wait
    ELSE IF v = "danger" THEN reject
    ELSE next

\* A layer that must have answered: without data the token waits, with a
\* dangerous answer it is rejected, otherwise the next layer is looked at.
Gate(v, wait, reject, next) ==
    IF v \in {"none", "unknown"} THEN wait
    ELSE IF ~PassFlag(v) THEN reject
    ELSE next

\* contract_risk is missing: its warnings do not raise the risk level.
RaisesRisk == Layers \ {"contract"}

FinalPass(row) ==
    IF \E l \in RaisesRisk : row[l] = "warning" THEN "WATCHLIST_PASS_HIGH_RISK"
    ELSE IF /\ row["market"] = "pass"
            /\ \A l \in {"contract", "liquidity", "wallet", "cluster",
                         "manipulation"} : PassFlag(row[l])
         THEN "WATCHLIST_PASS"
    ELSE "WATCHLIST_REVIEW"

\* Mutant: the intelligence of the holders is asked before the developer.
DevAndIntelligence_Swapped(row) ==
    IF row["intelligence"] = "danger"
    THEN "WATCHLIST_REJECT_WALLET_INTELLIGENCE"
    ELSE IF row["dev_audit"] = "danger" THEN "WATCHLIST_REJECT_DEV_WALLET"
    ELSE IF row["dev_flow"] \in {"unknown", "danger"}
         THEN "WATCHLIST_REJECT_DEV_FLOW"
    ELSE FinalPass(row)

\* A developer without data does not wait: an unknown audit is let through,
\* an unknown flow has flow_pass FALSE and rejects.
DevAndIntelligence(row) ==
    IF row["dev_audit"] = "danger" THEN "WATCHLIST_REJECT_DEV_WALLET"
    ELSE IF row["dev_flow"] \in {"unknown", "danger"}
         THEN "WATCHLIST_REJECT_DEV_FLOW"
    ELSE IF row["intelligence"] = "danger"
         THEN "WATCHLIST_REJECT_WALLET_INTELLIGENCE"
    ELSE FinalPass(row)

classify_watchlist_decision(row) ==
    IF row["market"] = "danger" THEN "WATCHLIST_REJECT_MARKET"
    ELSE
    Gate(row["contract"], "WATCHLIST_WAIT_SECURITY_DATA",
                          "WATCHLIST_REJECT_CONTRACT_RISK",
    Gate(row["liquidity"], "WATCHLIST_WAIT_LIQUIDITY",
                           "WATCHLIST_REJECT_LIQUIDITY",
    Gate(row["wallet"], "WATCHLIST_WAIT_WALLET_DATA",
                        "WATCHLIST_REJECT_WALLET_RISK",
    Gate(row["cluster"], "WATCHLIST_WAIT_CLUSTER_DATA",
                         "WATCHLIST_REJECT_CLUSTER_RISK",
    Gate(row["manipulation"], "WATCHLIST_WAIT_MANIPULATION_DATA",
                              "WATCHLIST_REJECT_WALLET_MANIPULATION",
    DevAndIntelligence(row))))))

PassOutcomes == {"WATCHLIST_PASS", "WATCHLIST_PASS_HIGH_RISK"}

\* final_watchlist_pass
Passes(outcome) == outcome \in PassOutcomes
=============================================================================
