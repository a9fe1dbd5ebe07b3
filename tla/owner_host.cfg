SPECIFICATION HostSpec
CONSTANTS
    i1 = i1
    i2 = i2
    i0 = i0
    here = here
    moved = moved
    stop = stop
    None = None
    Nobody = Nobody
    Command = {i1, i2}
    Minted = {i0}
    drive = drive
    Checkout = {here, moved, drive}
    Slashed = {here, moved}
    Event = {stop}
    Project <- Projects
    MaxEdits = 1
    a1 = a1
    a2 = a2
    a3 = a3
    c1 = c1
    AuthCommand = {a1, a2, a3}
    Canary = {c1}
    MaxApplied = 1
    MaxMoves = 2
    main = main
    other = other
    Commit = {main, other}
VIEW Relevant
CONSTRAINT Bounded
CHECK_DEADLOCK FALSE
INVARIANT RerunRepairs
INVARIANT TheirsSurvives
INVARIANT NeverStacks
INVARIANT PassedIsObserved
INVARIANT TidyIsInStep
INVARIANT RotationRepairs
