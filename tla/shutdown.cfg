\* Both backends, a reply in two parts, a third interrupt.
SPECIFICATION FairSpec
CONSTANTS
    Backends = {"rabbit", "local"}
    MaxAudio = 2
    MaxInterrupts = 3
INVARIANTS
    TypeOK
    TeardownInOrder
PROPERTIES
    ShutdownEnds
\* The system stops.
CHECK_DEADLOCK FALSE
