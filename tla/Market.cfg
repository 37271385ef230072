SPECIFICATION FairSpec
CONSTANTS
    w1 = w1
    w2 = w2
    w3 = w3
    w4 = w4
    b1 = b1
    b2 = b2
    i1 = i1
    i2 = i2
    i3 = i3
    Starts = {w1, w2, w3, w4}
    Builds = {b1, b2}
    CallOf <- Repeated
    Plannable = {b1}
    Inventories = {i1, i2, i3}
    Reviewed = i1
    Shaped = {i1, i2, i3}
    Progressing = {i1, i2}
    Moving = {i1, i3}
    Nothing = Nothing
    PageSize = 1
    Others = {0, 1}
    Packages = {}
    Contents = {}
    MaxEntries = 1
CHECK_DEADLOCK FALSE
INVARIANTS TypeOK FirstBriefIsItsBuilds AnsweredShowsOwnBrief
PROPERTIES LedgerSpec RetryCompletes
