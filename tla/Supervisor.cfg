\* A camera that delivers frames or fails, but never just falls silent.
CONSTANTS
    SilentCamera = FALSE
    QbufFaults = FALSE
SPECIFICATION FairSpec
INVARIANTS TypeOK CleanStart NoUseAfterTeardown NeverStarves
PROPERTY CameraReopened
CHECK_DEADLOCK FALSE
