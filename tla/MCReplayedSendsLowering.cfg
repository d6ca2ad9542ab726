SPECIFICATION Spec
CONSTANTS
    MaxSeq = 3
    Sizes <- MCSizes
    Limits <- MCLowerings
PROPERTIES
    LoweringTrimsNoNeededFrame
CHECK_DEADLOCK FALSE
