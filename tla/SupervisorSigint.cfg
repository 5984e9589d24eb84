\* SIGINT may arrive between any two statements.
CONSTANTS
    SilentCamera = FALSE
    QbufFaults = FALSE
SPECIFICATION FairSpec
PROPERTY SigintTerminates
CHECK_DEADLOCK FALSE
