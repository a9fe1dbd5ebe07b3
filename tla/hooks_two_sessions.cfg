SPECIFICATION Spec
CONSTANTS
    r1 = r1
    r2 = r2
    s1 = s1
    s2 = s2
    h1 = h1
    h2 = h2
    h3 = h3
    d1 = d1
    legacyEmitter = legacyEmitter
    None = None
    Run = {r1, r2}
    Session = {s1, s2}
    Hook = {h1, h2}
    Emitter <- MCEmitter
    Sequence <- MCSequence
    DocId = {d1}
    Legacy <- OneLegacy
    BatchSize = 2
    MaxAttribution = 1
    MaxAttempts = 1
VIEW Relevant
SYMMETRY Interchangeable
CHECK_DEADLOCK FALSE
INVARIANTS NothingLost OneRunPerSession CompleteWasDrained
