\* What a fallback is asked with when nova-3 fails in the middle of an utterance.
SPECIFICATION FairSpec
CONSTANTS
    Primaries = {"nova"}
    Frames = 2
    SchemaThreshold = 2
    SttFaults = {"message"}
    MaxHistoryTurns = 2
    MaxToolRounds = 1
    Responses <- MCResponses
    HasFallbackVoice = TRUE
    AgentFaults = {}
INVARIANTS
    FallbackHearsAll
