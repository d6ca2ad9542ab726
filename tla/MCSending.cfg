SPECIFICATION Spec
CONSTANTS
    c1 = c1
    c2 = c2
    AllChannels = {c1, c2}
    Plans <- SendingPlans
CHECK_DEADLOCK FALSE
INVARIANTS
    ExchangeHolds
    QueuedInOrder
PROPERTIES
    ReliableChannels
