SPECIFICATION Spec
CONSTANTS
    c1 = c1
    c2 = c2
    AllChannels = {c1}
    Plans <- LatePlans
INVARIANTS
    NothingIsLost
CHECK_DEADLOCK FALSE
