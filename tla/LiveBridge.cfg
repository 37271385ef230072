SPECIFICATION BridgeSpec
CONSTANTS
    x1 = x1
    x2 = x2
    x3 = x3
    w1 = w1
    w2 = w2
    w3 = w3
    p4 = p4
    k1 = k1
    k2 = k2
    t1 = t1
    t2 = t2
    d1 = d1
    s1 = s1
    s2 = s2
    Bridges = {x1, x2, x3}
    Snapshots = {s1, s2}
    DeriveRequest <- MCDeriveRequest
    Forged = {x3}
    BridgePack <- MCBridgePack
    Promoted = {w3}
    Packs = {p4}
    FirstPack = p4
    AttemptKeys = {t1, t2}
    Nothing = Nothing
    Runs = {w1, w2, w3}
    SynthesisKeys = {k1, k2}
    Derivations = {d1}
    Prebuilt = {}
    RequestOf <- MCRequest
    ServicePack <- MCServicePack
    Archive <- MCArchive
    Provider <- MCProvider
    Administrators = {a1}
    MaxRevisions = 2
CHECK_DEADLOCK FALSE
INVARIANTS BridgeTypeOK LiveBriefFromAdmissions ReplayedDerivationIsHeld
PROPERTIES SynthesisSpec
