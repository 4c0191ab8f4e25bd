SPECIFICATION FairSpec
CONSTANTS
    a = a
    b = b
    c = c
    d = d
    old = old
    foreign = foreign
    nothing = nothing
    Foreign = foreign
    Nothing = nothing
    Path <- TradePaths
    Move <- Moves
    Item <- TradeItems
    Removal <- TradeRemovals
    Replace <- TradeReplaced
    Src <- MoveSrc
    Dst <- TradeDst
    Target <- TradeTarget
    Before <- TradeBefore
    Size <- Sizes
    Budget <- CancelBudget
INVARIANT ForeignFileKept
INVARIANT SuccessIsComplete
INVARIANT StoppedEditPutsBack
PROPERTY CancelledIsSettled
CHECK_DEADLOCK FALSE
