SPECIFICATION Spec
CONSTANTS
    Requests = {q1, q2, q3}
    Models = {m1}
    Versions = {v1, v2}
    Replicas = {r1}
    Quantities = {c1}
    Numbers = {n1}
    None = none
    MaxEdits = 2
SYMMETRY Symmetry
INVARIANTS TypeOK ImageIsRegistered
PROPERTIES RollbackKeepsTheRest NothingStolen
CHECK_DEADLOCK FALSE
