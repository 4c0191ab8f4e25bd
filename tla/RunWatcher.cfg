SPECIFICATION FairSpec
CONSTANTS
    Subscriber = {show, keep}
    Polling = {keep}
    Flight = {f1, f2}
    NoFlight = NoFlight
    MaxVersion = 3
    Budgets <- WatcherBudgets
    show = show
    keep = keep
    f1 = f1
    f2 = f2
INVARIANT TypeOK
INVARIANT DeniedShowsNothing
PROPERTY NothingStartsUnwatched
PROPERTY SnapshotNeverGoesBack
PROPERTY EndIsShown
CHECK_DEADLOCK FALSE
