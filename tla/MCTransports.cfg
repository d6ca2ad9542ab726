SPECIFICATION TransportsSpec
CONSTANTS
    HandoffPlans <- MCHandoffPlans
    UploadPlans <- MCUploadPlans
    Channels = {a, b}
    MaxListens = 2
    MaxPublishes = 2
    MaxFailures = 1
CHECK_DEADLOCK FALSE
INVARIANTS
    HandoffHolds
    CallOrderIsKept
    NoneIsStranded
    ListenersHear
    UploadsHold
PROPERTIES
    HandoffSettles
    PublishesSettle
    UploadsSettle
