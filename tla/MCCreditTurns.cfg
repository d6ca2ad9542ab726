SPECIFICATION FairCreditSpec
CONSTANTS
    Tasks = {t1, t2}
    Loose = loose
    MessageSizes = {1}
    InitialBytes = 8
    BatchBytes = 12
    InitialMessages = 2
    MaxMessages = 4
    Modulus = 64
    Plans <- StoppingPlans
PROPERTIES
    TurnsCome
CHECK_DEADLOCK FALSE
