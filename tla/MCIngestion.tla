----------------------------- MODULE MCIngestion -----------------------------
(***************************************************************************)
(* Two tokens that trade in the same pair, and a pair whose market cap or  *)
(* whose liquidity DexScreener does not tell.                              *)
(***************************************************************************)
EXTENDS Ingestion, TLC

CONSTANTS t1, t2, q1, q2

Traded == [t \in {t1, t2} |-> IF t = t1 THEN {q1} ELSE {q1, q2}]

Full == [f \in Fields |-> IF f = "volume_5m" THEN "low" ELSE "fine"]
Seen == {[Full EXCEPT !.market_cap = "none"], [Full EXCEPT !.liquidity = "none"]}

Alike == Permutations(Procs)
=============================================================================
