SPECIFICATION Spec
CONSTANTS
    linux = linux
    win32 = win32
    tAll = tAll
    tAny = tAny
    None = None
    Torn = Torn
    Unknown = Unknown
    Host = {linux, win32}
    Required = {linux, win32}
    Reporter = linux
    Commit = {c1, c2}
    File = {f1, f2}
    AllTests = {tAll}
    AnyTests = {tAny}
    Pinned = "pinned"
    Digest = {"pinned", "drifted"}
    Collects <- OneFault
    Measures <- Own
    Older <- Leftover
    MaxMoves = 1
SYMMETRY Interchangeable
VIEW Relevant
CHECK_DEADLOCK FALSE
INVARIANTS PassIsObserved PassIsOneTree UnusableIsIgnored AbsenceNeverFails
