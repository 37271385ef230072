SPECIFICATION Spec
CONSTANTS
    w1 = w1
    w2 = w2
    w3 = w3
    w4 = w4
    w5 = w5
    p3 = p3
    p4 = p4
    k1 = k1
    k2 = k2
    t1 = t1
    t2 = t2
    d1 = d1
    Packs = {p3, p4}
    FirstPack = p3
    AttemptKeys = {t1, t2}
    Nothing = Nothing
    Runs = {w1, w2, w3, w4, w5}
    SynthesisKeys = {k1, k2}
    Derivations = {d1}
    Prebuilt = {}
    RequestOf <- OwnRequest
    ServicePack <- ConfiguredPack
    Archive <- WrongResolver
    Provider <- Reviewed
    Administrators = {a1, a2}
    MaxRevisions = 2
CHECK_DEADLOCK FALSE
INVARIANTS BriefRestsOnItsRevision BriefFromOneCall
PROPERTIES LedgerSpec
SYMMETRY Interchangeable
