SPECIFICATION Spec
CONSTANTS
    Kinds <- MCKinds
    People = {p1, p2}
    Nobody = nobody
    Requests = {q1, q2}
    Workers = {w1, w2}
    MaxRechecks = 2
SYMMETRY Symmetry
CONSTRAINT ReviewBound
INVARIANTS NoGapFrozenUnseen ApproverIsSomebodyElse
PROPERTIES OneReport AgreedDecisionsSurvive
CHECK_DEADLOCK FALSE
