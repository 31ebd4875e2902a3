\* Readings and restarts fail and the watchdog crashes: the rates of restarts.
SPECIFICATION FairSpec
CONSTANTS
    HttpStale <- MCHttpStale
    Cooldown <- MCCooldown
    MaxRestarts <- MCMaxRestarts
    Hold <- MCHold
    Faults = {"iw", "log", "ss", "restart", "crash"}
INVARIANTS
    TypeOK
    HourlyBudget
PROPERTIES
    NeverDisturbs
    CooldownKept
    Heals
