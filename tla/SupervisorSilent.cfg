\* A camera that may fall silent, and a driver that may refuse buffers.
CONSTANTS
    SilentCamera = TRUE
    QbufFaults = TRUE
SPECIFICATION DescriptorSpec
INVARIANTS StrayOnlyAtExit DescriptorsOwned
PROPERTY StopsWhenPolling
CHECK_DEADLOCK FALSE
