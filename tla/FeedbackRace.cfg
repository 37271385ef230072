SPECIFICATION Spec
CONSTANTS
    accepted = accepted
    other = other
    useful = useful
    unuseful = unuseful
    neutral = neutral
    unrelated = unrelated
    Decisions = {accepted, other}
    Outcomes <- MCOutcomes
    DecisionOf <- MCDecisionOf
    Adjustment <- MCAdjustment
    Eligible = {accepted, useful, unuseful, neutral}
    Nothing = Nothing
    Minimum = 0
    Maximum = 10
    Proposers = {w1, w2, w3}
    Approvers = {v1, v2, v3}
    Moments = {m1, m2}
    Initial = 5
CHECK_DEADLOCK FALSE
INVARIANTS TypeOK NoUpdateLost RevisionsAreEvidenced
PROPERTIES CalibrationSpec
SYMMETRY Interchangeable
