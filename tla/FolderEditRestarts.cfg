SPECIFICATION Spec
CONSTANTS
    a = a
    b = b
    c = c
    d = d
    old = old
    foreign = foreign
    nothing = nothing
    Foreign = foreign
    Nothing = nothing
    Path <- ShiftPaths
    Move <- Moves
    Item <- ShiftItems
    Removal <- ShiftRemovals
    Replace <- ShiftReplaced
    Src <- MoveSrc
    Dst <- ShiftDst
    Target <- ShiftTarget
    Before <- ShiftBefore
    Size <- Sizes
    Budget <- RestartBudget
INVARIANT TypeOK
INVARIANT MovedFileSurvives
INVARIANT SuccessIsComplete
INVARIANT OneCopy
PROPERTY LeavesAfterCollecting
CHECK_DEADLOCK FALSE
