SPECIFICATION LoopSpec
CONSTANTS
    w1 = w1
    w2 = w2
    w3 = w3
    p3 = p3
    p4 = p4
    k1 = k1
    k2 = k2
    t1 = t1
    t2 = t2
    d1 = d1
    d2 = d2
    an = an
    accepted = accepted
    useful = useful
    Packs = {p3, p4}
    FirstPack = p3
    AttemptKeys = {t1, t2}
    Nothing = Nothing
    Runs = {w1, w2, w3}
    SynthesisKeys = {k1, k2}
    Derivations = {d1, d2}
    Prebuilt = {}
    RequestOf <- History
    ServicePack <- HistoryPack
    Archive <- HistoryArchive
    Provider <- HistoryProvider
    Administrators = {a1}
    MaxRevisions = 3
    Analysts = {an}
    Reviewed <- MCReviewed
    DecidedBy <- MCDecidedBy
    Proposers = {m}
    Approvers = {v}
    Decisions = {accepted}
    Outcomes = {useful}
    DecisionOf <- MCDecisionOf
    Eligible = {accepted, useful}
    Adjustment <- MCAdjustment
    Moments = {t1}
    Initial = 50
    Minimum = 0
    Maximum = 100
CHECK_DEADLOCK FALSE
INVARIANTS LoopTypeOK BriefRestsOnItsRevision ReplaySurvivesRollback LoopIsClosed CaseRestsOnItsBrief
PROPERTIES CaseUnderAuthorizedHead
