SPECIFICATION FairSpec
CONSTANTS
    Tab = {t1, t2}
    Work = {w1, w2}
    FamilyOf <- Works
    Session = {s1}
    Missing = {w2}
    NoSession = NoSession
    NoPost = NoPost
    ProgressCap = 2
    HistoryCap = 2
    Jump = 0
    MaxOrder = 1
    Budgets <- DrainBudgets
    t1 = t1
    t2 = t2
    s1 = s1
    s2 = s2
    w1 = w1
    w2 = w2
    family = family
    other = other
INVARIANT TypeOK
PROPERTY OutboxDrains
CHECK_DEADLOCK FALSE
