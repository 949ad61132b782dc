\* Up to three facts are off at a time.
SPECIFICATION TableSpec
CONSTANT MaxDefects = 3
INVARIANT SilenceNeverPasses
INVARIANT CleanPassIsLow
INVARIANT FirstObjectionDecides
PROPERTY WorseEvidenceNeverHelps
CHECK_DEADLOCK FALSE
