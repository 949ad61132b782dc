\* Two runs of two processes, one of the pairs on the bonding curve.
SPECIFICATION Spec
CONSTANTS
    t1 = t1
    t2 = t2
    q1 = q1
    q2 = q2
    Procs = {server, script}
    Tokens = {t1, t2}
    Pairs = {q1, q2}
    NoToken = NoToken
    NoPair = NoPair
    Trades <- Traded
    Bonding = {q2}
    Observations <- Seen
    MaxTokens = 2
    MaxRuns = 2
    MaxFaults = 2
INVARIANT TypeOK
INVARIANT CandidatesAreComplete
INVARIANT AccountsBalance
INVARIANT UnreachableLeavesTrail
INVARIANT OnlyFaultsAbandonRuns
PROPERTY RunsAreOpenThenClosed
SYMMETRY Alike
CHECK_DEADLOCK FALSE
