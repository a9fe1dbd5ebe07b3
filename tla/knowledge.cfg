SPECIFICATION Spec
CONSTANTS
    set1 = set1
    v1 = v1
    v2 = v2
    b1 = b1
    b2 = b2
    s1 = s1
    c1 = c1
    c2 = c2
    failed = failed
    member = member
    near = near
    far = far
    nearNew = nearNew
    pinned1 = pinned1
    unresolved = unresolved
    None = None
    NumAssets = 4
    SetId = {set1}
    Version = {v1}
    Record = {failed, member, near, far}
    Says <- Contents
    SolutionSet = {pinned1, unresolved}
    Holds <- SetContents
    Start <- SomeTrees
    Builder = {b1, b2}
    Server = {s1}
    Commit = {c1, c2}
    Pinned <- Unpinned
    Ask <- ResolveAndExpand
    DefaultLimit = 1
    MaxLimit = 4
    Overfetch = 2
    MaxChanges = 1
    MaxAnswers = 2
CONSTRAINT Bounded
VIEW Relevant
SYMMETRY Interchangeable
CHECK_DEADLOCK FALSE
INVARIANTS AnswersAreOneTree OnlyChampionsAreProposed ExpandWidens CitedIsInspectable AloneItServes
