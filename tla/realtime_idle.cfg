\* The idle timeout during the playback of a reply that is complete.
SPECIFICATION Spec
CONSTANTS
    Items <- MCItems
    Sizes <- MCSizes
    Block = 2
    Latency = 2
    AssumedBuffer = 1
    Debounce = 1
    IdleTimeout = 2
    Faults = {}
    MaxFrames = 10
PROPERTIES
    IdleMeansSilence
CHECK_DEADLOCK FALSE
