SPECIFICATION FairSpec
CONSTANTS
    None = None
    Client = {c1, c2}
    Item = {i1}
    Isolate = {e1}
    Limit = 1
    Window = 2
    MaxTime = 2
CHECK_DEADLOCK FALSE
INVARIANTS AcceptedIsStored RejectedIsDecided RateBound
PROPERTIES CloseEnds
