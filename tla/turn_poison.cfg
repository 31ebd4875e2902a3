\* Without a fault, a turn that runs out of rounds.
SPECIFICATION Spec
CONSTANTS
    Primaries = {"local"}
    Frames = 1
    SchemaThreshold = 2
    SttFaults = {}
    MaxHistoryTurns = 2
    MaxToolRounds = 1
    Responses <- MCResponses
    HasFallbackVoice = TRUE
    AgentFaults = {}
INVARIANTS
    ReadyForNextWake
