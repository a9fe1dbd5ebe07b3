SPECIFICATION Spec
CONSTANTS
    p = p
    h = h
    r1 = r1
    r2 = r2
    None = None
    Torn = Torn
    Rule = {r1, r2}
    WallClock = 1
    ToolCalls = 2
    Cost = 1
    Model = {"asked", "other"}
    Primary = {p}
    Hard = {h}
    MinTasks = 1
    MinPerTask = 1
    Repeats = 1
    Trials <- Matrix
    Expected = "linux-namespace-v1"
    Commit = {c1, c2}
    Digest = {d1, d2}
    Shows <- OneFault
    Usual = "usual"
    MaxOdd = 1
    MaxMoves = 2
SYMMETRY Interchangeable
CONSTRAINT Bounded
VIEW Relevant
CHECK_DEADLOCK FALSE
INVARIANTS PassedIsComplete PassedIsOneExperiment EscapeIsNotEvidence ProvenIsObserved
