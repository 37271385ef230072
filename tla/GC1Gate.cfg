SPECIFICATION Spec
CONSTANTS
    None = None
    k1 = k1
    k2 = k2
    s1 = s1
    s2 = s2
    s3 = s3
    p1 = p1
    p2 = p2
    r1 = r1
    r2 = r2
    Keys = {k1, k2}
    Scenarios = {s1, s2, s3}
    KeyOf <- MCKeyOf
    ScenarioOf <- SameScenario
    Overlap = FALSE
    Revisions = {q1}
    MaxGeneration = 3
    Preparers = {p1}
    Resumers = {r1}
CHECK_DEADLOCK FALSE
PROPERTIES GateSeesIneligibility
