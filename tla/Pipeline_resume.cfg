SPECIFICATION Spec
CONSTANTS
    Requirements = {q1, q2}
    Elements = {e1, e2}
    NoElement = none
    MaxAttempts = 2
SYMMETRY Symmetry
CHECK_DEADLOCK FALSE
INVARIANTS ReviewedIsComplete
