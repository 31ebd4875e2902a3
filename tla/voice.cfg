\* Turns and conversations with every fault.
SPECIFICATION FairSpec
CONSTANTS
    Configs <- MCConfigs
    Faults = {"stt", "stuck", "session", "device", "hang"}
    Capacity = 3
    Guard = 2
    TurnLimit = 3
    DrainLimit = 2
    FlushBlocks = 2
    PreRoll = 1
    StartLimit = 2
    SilenceLimit = 2
    MaxChunks = 3
INVARIANTS
    TypeOK
    DeafToItself
    FreshEars
    ArmedIsClean
PROPERTIES
    TranscriptionUsed
    Rearms
    ListensAgain
