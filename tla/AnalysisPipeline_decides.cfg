\* Two tokens, two ingestion runs; Helius fails in the stages that record it.
SPECIFICATION FairSpec
CONSTANTS
    Tokens = {t1, t2}
    MaxRuns = 2
    MaxCliPasses = 0
    Possible <- SomeContracts
    Faults = {"relations"}
PROPERTIES RunsAreDecided
CHECK_DEADLOCK FALSE
