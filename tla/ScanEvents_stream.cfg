\* A queue that holds some of the events: it overflows in some behaviours.
SPECIFICATION FairSpec
CONSTANTS
    Dashboards = {d1}
    Prompt = {d1}
    Conns = {n1, n2}
    NoConn = NoConn
    QueueMax = 2
    WireMax = 1
    MaxVersion = 2
INVARIANTS EventsInOrder NothingLost
PROPERTIES StreamCatchesUp
CHECK_DEADLOCK FALSE
