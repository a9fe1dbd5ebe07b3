SPECIFICATION FairSpec
CONSTANTS
    Unset = Unset
    Timeout = 3
    Horizon = 9
    Grace = 2
    MaxBuffer = 3
    MaxChunk = 2
CHECK_DEADLOCK FALSE
INVARIANTS WithinBound OrdinaryExitExact
PROPERTIES OneLadder Settles
