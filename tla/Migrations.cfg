\* Three runners at once; every file that is defined again later.
SPECIFICATION Spec
CONSTANTS
    Runners = {r1, r2, r3}
    view = view
    policy = policy
    tables = tables
    Objects = {view, policy, tables}
    LastFile <- FourFiles
    Replaces <- TheReplaces
    Adds <- TheAdds
SYMMETRY AnyRunner
CHECK_DEADLOCK FALSE
INVARIANTS AppliedInOrder UpToDateIsCurrent
