SPECIFICATION Spec
CONSTANTS
    Job = {1, 2}
    Inline = {2}
    Library = {1, 2}
    Recoverable = {1, 2}
    Graph = {}
    Split = {}
    Translation = {}
    Detached = {1}
    Priority <- Priorities
    Background = 0
    MaxRetries = 1
    Worker = Worker
    NoLease = NoLease
    NoJob = NoJob
    NoOne = NoOne
    Reserved = Reserved
    Other = Other
    l1 = l1
    l2 = l2
    l3 = l3
    Lease <- Leases
    Budgets <- StopBudgets
SYMMETRY LeaseSymmetry
INVARIANT TypeOK
INVARIANT OneRunningRow
INVARIANT ExecutorKeepsItsJob
INVARIANT JobHasOneExecutor
INVARIANT LibraryExclusive
PROPERTY ResumesSpentOnOrphans
PROPERTY SettledStaysSettled
CHECK_DEADLOCK FALSE
