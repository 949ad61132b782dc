\* Two tokens, three task slots, two webhook requests, faults and a restart.
SPECIFICATION Spec
CONSTANTS
    Tokens = {t1, t2}
    NoToken = NoToken
    Tasks = {k1, k2, k3}
    Handlers = {h1, h2}
    Stages <- TwoStages
    DbMayFail = TRUE
    MaxRestarts = 1
SYMMETRY Symmetry
INVARIANTS AtMostOneAnalysis MonitorIsTruthful WhaleRowIsRunning
           FlagHasHolder RunningJobHasWorker
PROPERTIES ImplementsLease
