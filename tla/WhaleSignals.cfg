SPECIFICATION Spec
CONSTANTS
    w1 = w1
    w2 = w2
    t1 = t1
    market = market
    NoToken = NoToken
    Wallets = {w1, w2}
    Syncs = {s1, s2}
    MaxSyncs = 2
    MaxFaults = 1
    MaxChanges = 2
    Known = {w1}
    Noise = {}
    Reliable = {w1, w2}
    QueueMin = 10
    AlertMin = 10
    Chain <- MCChain
    Requests = {r1}
    MaxBody = 2
SYMMETRY Alike
INVARIANTS
    HooksCostFaults
    AcceptedIsStored
    AlertsAreQueued
PROPERTY SyncRepairs
CHECK_DEADLOCK FALSE
