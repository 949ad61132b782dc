\* Two ingestion runs, one script beside the server, everything may fail.
SPECIFICATION Spec
CONSTANTS
    Tokens = {t1}
    MaxRuns = 2
    MaxCliPasses = 1
    Possible <- RiskyFlow
    Faults = {"relations", "histories", "crash"}
INVARIANTS PassSawEveryLayer DecisionIsCurrent PassHasSafetyAnswers
CHECK_DEADLOCK FALSE
