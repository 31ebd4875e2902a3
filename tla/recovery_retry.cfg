\* How often the watchdog tries again after giving up, with nothing going wrong.
SPECIFICATION RetrySpec
CONSTANTS
    HttpStale = 2
    Cooldown = 2
    MaxRestarts = 2
    Hold = 7
    Faults = {}
PROPERTIES
    RetriesOncePerHold
