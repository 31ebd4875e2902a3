\* A reply in two parts on a local device.
SPECIFICATION FairSpec
CONSTANTS
    Backends = {"local"}
    MaxAudio = 2
    MaxInterrupts = 2
PROPERTIES
    InterruptAgainQuits
CHECK_DEADLOCK FALSE
