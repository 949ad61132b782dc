--------------------------- MODULE MCWhaleWallets ---------------------------
EXTENDS WhaleWallets
CONSTANTS p1, p2, k1, k2, whale, bot, pool

Swap(from, to, amount, sol, minutes) ==
    [from |-> from, to |-> to, amount |-> amount, sol |-> sol, minutes |-> minutes]

\* The whale holds one token and sells the other at a gain; the bot is fast,
\* sells the one at once and half of the other for a little more than the 55%
\* of RugsReturnedLittle, after moving some of it to itself; the pool is the
\* other side of every trade.
MCProcs == {p1, p2}
ProcSymmetry == Permutations(MCProcs)
MCTokens == {k1, k2}
MCAccounts == {whale, bot, pool}
MCHolders == {bot}
MCHistory ==
    (k1 :> << Swap(pool, bot, 100, 10, 1), Swap(pool, whale, 100, 10, 1),
              Swap(bot, pool, 100, 120, 2) >>)
    @@ (k2 :> << Swap(pool, bot, 50, 20, 0), Swap(pool, whale, 50, 20, 2),
              Swap(bot, bot, 10, 0, 3), Swap(bot, pool, 25, 12, 20),
              Swap(whale, pool, 50, 200, 30) >>)
MCPace == [w \in MCAccounts |-> IF w = whale THEN 100 ELSE 600]
=============================================================================
