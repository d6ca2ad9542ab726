SPECIFICATION TransportsSpec
CONSTANTS
    HandoffPlans <- MCOwedPlans
    UploadPlans <- MCUploadPlans
    Channels = {a}
    MaxListens = 1
    MaxPublishes = 1
    MaxFailures = 0
PROPERTIES
    OwedGoes
CHECK_DEADLOCK FALSE
