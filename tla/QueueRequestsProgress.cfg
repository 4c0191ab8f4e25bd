SPECIFICATION FairSpec
CONSTANTS
    Job = {1, 2}
    Inline = {2}
    Library = {1, 2}
    Recoverable = {1}
    Graph = {}
    Split = {2}
    Translation = {}
    Detached = {}
    Priority <- Priorities
    Background = 0
    MaxRetries = 0
    Worker = Worker
    NoLease = NoLease
    NoJob = NoJob
    NoOne = NoOne
    Reserved = Reserved
    Other = Other
    l1 = l1
    l2 = l2
    l3 = l3
    Lease <- LeasePair
    Budgets <- RequestBudgets
PROPERTY QueuedJobsMove
CHECK_DEADLOCK FALSE
