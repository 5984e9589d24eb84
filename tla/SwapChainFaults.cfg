\* Spurious wakeups and engine timeouts happen; parameters are set all the time.
CONSTANTS
    MaxFrame = 5
    Outputs = {0, 1}
    SpuriousWakeups = TRUE
    VeTimeouts = TRUE
SPECIFICATION ParamSpec
INVARIANTS BuffersConserved OnScreenOwned GetNeverFails NoChangeForgotten
CHECK_DEADLOCK FALSE
