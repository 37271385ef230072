SPECIFICATION Spec
CONSTANTS
    b1 = b1
    i1 = i1
    p1 = p1
    p2 = p2
    Starts = {}
    Builds = {b1}
    CallOf <- NoCalls
    Plannable = {b1}
    Inventories = {i1}
    Reviewed = i1
    Shaped = {i1}
    Progressing = {i1}
    Moving = {i1}
    PageSize = 1
    Others = {0}
    Nothing = Nothing
    Packages = {p1, p2}
    Contents <- MCContents
    MaxEntries = 2
INVARIANTS DeliveredIsExactDirection
