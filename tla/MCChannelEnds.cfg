SPECIFICATION FairSpec
CONSTANTS
    BufferBudgets <- Budgets
    MaxTimeout = 1
    Uses <- FourUses
    MaxPendingAcks = 1
    Timeouts = {0, 1}
    MaxBreaks = 1
CHECK_DEADLOCK FALSE
INVARIANTS
    CloseHolds
    NothingGoesUntold
PROPERTIES
    EndIsFinal
    EndsReachBoth
