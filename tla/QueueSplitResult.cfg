SPECIFICATION Spec
CONSTANTS
    Job = {1}
    Inline = {1}
    Library = {1}
    Recoverable = {}
    Graph = {}
    Split = {1}
    Translation = {}
    Detached = {}
    Priority <- Priorities
    Background = 0
    MaxRetries = 0
    Worker = Worker
    NoLease = NoLease
    NoJob = NoJob
    NoOne = NoOne
    Reserved = Reserved
    Other = Other
    l1 = l1
    l2 = l2
    l3 = l3
    Lease <- Leases
    Budgets <- NoBudgets
SYMMETRY LeaseSymmetry
INVARIANT InterruptedResultIsSettled
CHECK_DEADLOCK FALSE
