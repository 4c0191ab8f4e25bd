SPECIFICATION FairSpec
CONSTANTS
    WorkId <- Works
    Path <- Paths
    Mutation <- Mutations
    Changes <- AllForgotten
    Call = {c1, c2}
    Write = {m1, m2, m3}
    PathOf <- Reads
    KindOf <- Writes
    MaxRecoveries = 1
    NoCall = NoCall
    NoWrite = NoWrite
    Budgets <- OneEach
    c1 = c1
    c2 = c2
    m1 = m1
    m2 = m2
    m3 = m3
INVARIANT TypeOK
INVARIANT ReadersHaveRequests
PROPERTY ReadYourWrites
PROPERTY NoOvertakenAnswer
PROPERTY EveryReadSettles
CHECK_DEADLOCK FALSE
