SPECIFICATION EitherSpec
CONSTANTS
    MaxSeq = 3
    Sizes <- MCSizes
    Limits <- MCLimits
    Tasks = {t1, t2}
    Loose = loose
    MessageSizes = {1, 5}
    InitialBytes = 8
    BatchBytes = 12
    InitialMessages = 2
    MaxMessages = 4
    Modulus = 64
    Plans <- SomePlans
    PieceHeader = 1
    AnnounceBytes = 1
    LengthBytes = 1
    AckFrameBytes = 1
    ProbeFirst = 2
    ProbePair = 3
    SendAckMin = 3
    AnnouncedMin = 6
    GatherMost = 8
    AckBytes = 8
    SendAhead = 20
    PiecePlans <- MCPiecePlans
CHECK_DEADLOCK FALSE
INVARIANTS
    ReplayIsExact
    LimitsAreReached
    QueuedFramesCanBePushed
    CreditHolds
    TurnsAreKept
    PiecesHold
PROPERTIES
    EvictionIsLawful
    LimitsOnlyRise
    TurnsCome
    PiecesArrive
