-------------------------- MODULE MCAnalysisPipeline --------------------------
(***************************************************************************)
(* Small instances of AnalysisPipeline for TLC.  What a stage may find is  *)
(* thinned out to what the runs tell apart; the stages that record a       *)
(* failure of Helius write "unknown" besides.                              *)
(***************************************************************************)
EXTENDS AnalysisPipeline

\* A token whose developer's flow was analysed is risky, one whose flow was
\* not analysed is not.
RiskyFlow ==
    [l \in Layers |-> IF l = "dev_flow" THEN {"warning"} ELSE {"pass"}]

\* Some contracts have no data, so that tokens differ.
SomeContracts ==
    [l \in Layers |-> IF l = "contract" THEN {"pass", "unknown"} ELSE {"pass"}]
=============================================================================
