--------------------------- MODULE MCWhaleSignals ---------------------------
(***************************************************************************)
(* An instance of WhaleSignals: a token that arrives at w1 without a       *)
(* payment, and a buy of w2, a wallet that is not known at the start; the  *)
(* seller is w1, so the webhooks that watch w1 report both.                *)
(***************************************************************************)
EXTENDS WhaleSignals, TLC

CONSTANTS w1, w2, t1, market

Tx(payer, from, to, mint, paid) ==
    [payer |-> payer, from |-> from, to |-> to, mint |-> mint, paid |-> paid, got |-> 0]

MCChain == {Tx(w1, market, w1, t1, 0), Tx(w2, w1, w2, t1, 10)}

Alike == Permutations(Syncs)
=============================================================================
