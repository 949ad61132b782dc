\* Whatever fails, an analysis ends and its row is closed, with the two
\* exceptions that the properties name.
SPECIFICATION FairSpec
CONSTANTS
    Tokens = {t1, t2}
    NoToken = NoToken
    Tasks = {k1, k2}
    Handlers = {h1}
    Stages <- TwoStages
    DbMayFail = TRUE
    MaxRestarts = 1
PROPERTIES AnalysisEnds RunningJobCloses
