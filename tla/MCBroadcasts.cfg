SPECIFICATION FairSpec
CONSTANTS
    AdapterUses <- MCUses
    Pages <- MCPages
    BufferBudgets <- MCBudgets
    Isolates <- MCIsolates
    Loops <- MCLoops
CHECK_DEADLOCK FALSE
INVARIANTS
    OrderIsKept
    QueueHolds
    PageIsServed
    PublishOrderHolds
    KeyStateHolds
    MessagesAreConsumed
PROPERTIES
    PublishesAreDelivered
    PageSettles
    CloudflareSettles
    LoopEnds
