\* No flush picks up a job that found the flag taken.
SPECIFICATION FairSignalSpec
CONSTANTS
    Tokens = {t1, t2}
    NoToken = NoToken
    Tasks = {k1, k2}
    Handlers = {h1, h2}
    Stages <- TwoStages
    DbMayFail = FALSE
    MaxRestarts = 0
PROPERTIES QueuedJobIsPickedUp
