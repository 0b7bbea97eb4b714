SPECIFICATION Spec
CONSTANTS
    Isn = 5
    SeqWrap = 12
    MaxLength = 3
    MaxTroubles = 2
    Commands = {"probe", "probeGame", "fetch"}
INVARIANTS
    TypeOK
    OnlyIssuedSessionsAreUsed
    ExitStatusIsEarned
    LiveAgreesWithOffline
    CaptureIsTheStream
    LossIsLocal
PROPERTIES EveryCommandEnds
CHECK_DEADLOCK FALSE
