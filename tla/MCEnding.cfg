SPECIFICATION FairSpec
CONSTANTS
    c1 = c1
    c2 = c2
    AllChannels = {c1}
    Plans <- EndingPlans
CHECK_DEADLOCK FALSE
INVARIANTS
    ChannelsAreHeld
    NothingIsLost
PROPERTIES
    SendsArrive
    EndsSettle
