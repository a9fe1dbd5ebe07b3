SPECIFICATION FairSpec
CONSTANTS
    t1 = t1
    t2 = t2
    t3 = t3
    r1 = r1
    r2 = r2
    i1 = i1
    i2 = i2
    inst1 = inst1
    inst2 = inst2
    svc = svc
    ownerA = ownerA
    ownerB = ownerB
    None = None
    Tx = {t1, t2}
    Installation = {inst1, inst2}
    Service = {svc}
    OwnerOf <- TwoOwners
    Ingest = {"event", "snapshot"}
    PositionOf <- OnePlace
    Run = {r1, r2}
    Class = {"operational", "qualification"}
    Id = {i1, i2}
    MaxTime = 1
VIEW Relevant
CONSTRAINT Bounded
CHECK_DEADLOCK FALSE
INVARIANTS StampIsRunClass OwnerBoundary AnswerIsExact
PROPERTIES RunsSettled CallsEnd
