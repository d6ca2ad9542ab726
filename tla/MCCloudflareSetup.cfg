SPECIFICATION CloudflareSpec
CONSTANTS
    Isolates <- MCIsolates
INVARIANT
    OwnSubscribersHear
CHECK_DEADLOCK FALSE
