---------------------------- MODULE DecisionTable ----------------------------
(***************************************************************************)
(* What is expected of the decision, for any row of verdicts that the      *)
(* stages may leave: a layer that must answer is never taken for granted,  *)
(* the first objection decides, and a worse finding never rescues.         *)
(***************************************************************************)
EXTENDS DecisionRules

\* The layers that answer before the token may pass, in the order in which
\* they are asked: PROJECT_OVERVIEW.md:172-177.
MustAnswer == {"contract", "liquidity", "wallet", "cluster", "manipulation"}

Position ==
    [market |-> 1, contract |-> 2, liquidity |-> 3, wallet |-> 4, cluster |-> 5,
     manipulation |-> 6, dev_audit |-> 7, dev_flow |-> 8, intelligence |-> 9]

\* A row: every layer but the market may lack its own.
IsRow(r) ==
    /\ r \in [Layers -> Verdicts]
    /\ \A l \in Layers : r[l] \in Findings(l) \union {"none"}
    /\ r["market"] # "none"

\* A layer that ends the decision when nothing before it has.
Objects(r, l) ==
    \/ r[l] = "danger"
    \/ l \in MustAnswer /\ r[l] \in {"none", "unknown"}
    \/ l = "dev_flow" /\ r[l] = "unknown"

OutcomesOf ==
    [market |-> {"WATCHLIST_REJECT_MARKET"},
     contract |-> {"WATCHLIST_WAIT_SECURITY_DATA", "WATCHLIST_REJECT_CONTRACT_RISK"},
     liquidity |-> {"WATCHLIST_WAIT_LIQUIDITY", "WATCHLIST_REJECT_LIQUIDITY"},
     wallet |-> {"WATCHLIST_WAIT_WALLET_DATA", "WATCHLIST_REJECT_WALLET_RISK"},
     cluster |-> {"WATCHLIST_WAIT_CLUSTER_DATA", "WATCHLIST_REJECT_CLUSTER_RISK"},
     manipulation |-> {"WATCHLIST_WAIT_MANIPULATION_DATA",
                       "WATCHLIST_REJECT_WALLET_MANIPULATION"},
     dev_audit |-> {"WATCHLIST_REJECT_DEV_WALLET"},
     dev_flow |-> {"WATCHLIST_REJECT_DEV_FLOW"},
     intelligence |-> {"WATCHLIST_REJECT_WALLET_INTELLIGENCE"}]

PassIsAnswered(r) ==
    Passes(classify_watchlist_decision(r)) =>
        /\ \A l \in MustAnswer : PassFlag(r[l])
        /\ \A l \in Layers : r[l] # "danger"

IsFirstObjection(r, l) ==
    Objects(r, l) /\ \A e \in Layers : Position[e] < Position[l] => ~Objects(r, e)

FirstObjectionNamed(r) ==
    \/ \E l \in Layers :
          IsFirstObjection(r, l) /\ classify_watchlist_decision(r) \in OutcomesOf[l]
    \/ (\A l \in Layers : ~Objects(r, l)) /\ Passes(classify_watchlist_decision(r))

\* A finding may get worse, and a layer that must answer may lose its answer.
WorseFinding(l, v, w) ==
    \/ v = "pass" /\ w = "warning"
    \/ v \in {"pass", "warning"} /\ w = "danger"
    \/ l \in MustAnswer /\ v # w /\ w \in {"none", "unknown"}

\* How cautious an outcome is: a clean pass, a risky one, none.
Caution(o) ==
    IF o = "WATCHLIST_PASS" THEN 0
    ELSE IF o = "WATCHLIST_PASS_HIGH_RISK" THEN 1 ELSE 2
=============================================================================
