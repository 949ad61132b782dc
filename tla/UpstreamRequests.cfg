SPECIFICATION Spec
CONSTANTS
    Tasks = {t1, t2}
    Clients = {c1, c2}
    Interval = 2
    MaxAttempts = 3
    MaxWait = 2
    RetryAfterMax = 3
    Hints = {1, 4}
INVARIANTS TypeOK UnavailableIsTrue
PROPERTIES CallsAreSpaced HintsAreHonored CallsEnd
