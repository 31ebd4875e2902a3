\* One conversation; sends fail, the socket breaks, the capture stops, the user interrupts.
SPECIFICATION FairSpec
CONSTANTS
    Items <- MCItems
    Sizes <- MCSizes
    Block = 2
    Latency = 2
    AssumedBuffer = 1
    Debounce = 1
    IdleTimeout = 1
    Faults = {"send", "fatal", "mic"}
    MaxFrames = 10
INVARIANTS
    TypeOK
    TruncateIsHonest
    DrainedIsSilence
    UserHasTheFloor
    SpeakingFollowsPlayer
PROPERTIES
    NothingAudibleIgnored
    FailureEndsIt
CHECK_DEADLOCK FALSE
