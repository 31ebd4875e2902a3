\* A local playback that raises ends the audio loop.
SPECIFICATION FairSpec
CONSTANTS
    Parts <- MCParts
    Values <- MCValues
    Unknown = Unknown
    Requests <- MCRequests
    Runs <- DeviceRuns
    Below = 3
    MaxSubmits = 2
    MaxTime = 1
PROPERTIES
    GateReopens
