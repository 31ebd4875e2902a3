\* Turn after turn, with every profile and every fault.
SPECIFICATION FairSpec
CONSTANTS
    Primaries = {"flux", "nova", "local"}
    Frames = 2
    SchemaThreshold = 2
    SttFaults = {"connect", "send", "message", "drop", "buffered"}
    MaxHistoryTurns = 2
    MaxToolRounds = 1
    Responses <- MCResponses
    HasFallbackVoice = TRUE
    AgentFaults = {"provider", "voice"}
INVARIANTS
    TypeOK
    HistoryIsWhole
    RefusedOnlySoOften
    SilentOnlyIfWordless
    UtteranceKept
PROPERTIES
    TranscriptionImplemented
    TurnEnds
