SPECIFICATION Spec
CONSTANTS
    None = None
    Torn = Torn
    Host = {h1, h2, h3}
    Campaign = {c1}
    TrialId = {t1, t2}
    Revision = {v1, v2}
SYMMETRY Interchangeable
CHECK_DEADLOCK FALSE
INVARIANTS RecordsTruthful OneAgentPerRun
PROPERTIES RecordsFinal
