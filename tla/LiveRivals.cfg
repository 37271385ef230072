SPECIFICATION Spec
CONSTANTS
    w1 = w1
    w2 = w2
    w3 = w3
    w4 = w4
    w5 = w5
    q1 = q1
    q2 = q2
    q3 = q3
    q4 = q4
    k1 = k1
    Workers = {w1, w2, w3, w4, w5}
    Requests <- MCRequests
    RequestOf <- Rivals
    Keys = {k1}
    KeyOf <- OneKey
    InScope = {q1, q2, q3}
    Adaptable = {q1, q2, q4}
    Governed = {"activation", "capability"}
    Operators = {}
    Founder = Founder
    MaxSequence = 1
    Expiry = 1
    Horizon = 0
    Nothing = Nothing
CHECK_DEADLOCK FALSE
INVARIANTS ReturnedIsStored
PROPERTIES LedgerSpec
