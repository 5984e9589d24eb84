\* The platform behaves: signalled wakeups only, decodes end before the timeout.
CONSTANTS
    MaxFrame = 6
    Outputs = {0, 1}
    SpuriousWakeups = FALSE
    VeTimeouts = FALSE
SPECIFICATION FairSpec
INVARIANTS TypeOK NoTearing
PROPERTIES ShownInOrder ImplementsChannel EveryFrameShown CaptureResumes StopReturns
CHECK_DEADLOCK FALSE
