\* Every fault, or refusals only: the queues, the counter, the gate, the lanes,
\* what the body and the controller believe of each other, and liveness.
SPECIFICATION FairSpec
CONSTANTS
    Parts <- MCParts
    Values <- MCValues
    Unknown = Unknown
    Requests <- MCRequests
    Runs <- MCRuns
    Below = 3
    MaxSubmits = 3
    MaxTime = 1
INVARIANTS
    TypeOK
    IdleExact
    NoLostWakeup
    HalfDuplex
    BeliefSound
PROPERTIES
    MotionLaneImplemented
    AudioLaneImplemented
    AudioGateImplemented
    LateByOneRequest
    GateReopensInTime
    IdleReturns
