CONSTANTS
    Legal = {"low", "high"}
    Illegal = {"excess"}
    Display = {"plain", "vivid"}
    Debounce = 2
    MaxEdits = 2
    MaxMessages = 1
    MaxSessions = 2
SPECIFICATION FairSpec
INVARIANTS TypeOK EditSignalled SavedAtEnd
PROPERTY Converges
CHECK_DEADLOCK FALSE
