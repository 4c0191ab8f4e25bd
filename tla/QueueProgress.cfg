SPECIFICATION FairSpec
CONSTANTS
    Job = {1, 2}
    Inline = {}
    Library = {1}
    Recoverable = {1}
    Graph = {1}
    Split = {}
    Translation = {2}
    Detached = {}
    Priority <- Priorities
    Background = 0
    MaxRetries = 1
    Worker = Worker
    NoLease = NoLease
    NoJob = NoJob
    NoOne = NoOne
    Reserved = Reserved
    Other = Other
    l1 = l1
    l2 = l2
    l3 = l3
    Lease <- OneLease
    Budgets <- ProgressBudgets
INVARIANT JobAndRunAgree
PROPERTY QueueSpec
PROPERTY OrphansAreSettled
PROPERTY QueuedJobsMove
CHECK_DEADLOCK FALSE
