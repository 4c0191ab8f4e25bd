SPECIFICATION Spec
CONSTANTS
    Tab = {t1, t2}
    Work = {w1, w2}
    FamilyOf <- Editions
    Session = {s1, s2}
    Missing = {}
    NoSession = NoSession
    NoPost = NoPost
    ProgressCap = 2
    HistoryCap = 2
    Jump = 0
    MaxOrder = 1
    Budgets <- TabBudgets
    t1 = t1
    t2 = t2
    s1 = s1
    s2 = s2
    w1 = w1
    w2 = w2
    family = family
    other = other
SYMMETRY Symmetry
INVARIANT ClearedStaysCleared
INVARIANT CountedOnce
INVARIANT ClearIsNotUndone
INVARIANT AnnouncedIsRecorded
PROPERTY CheckpointsKept
PROPERTY ListeningKept
PROPERTY LedgerSpec
CHECK_DEADLOCK FALSE
