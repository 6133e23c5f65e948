SPECIFICATION Spec
CONSTANTS
    Kinds <- MCSerious
    People = {p1}
    Nobody = nobody
    Requests = {q1}
    Workers = {w1}
    MaxRechecks = 1
SYMMETRY Symmetry
ACTION_CONSTRAINT Serial
PROPERTIES FrozenFindingsStay
CHECK_DEADLOCK FALSE
