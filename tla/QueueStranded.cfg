SPECIFICATION Spec
CONSTANTS
    Jobs = {j1}
    Payloads = {p1}
    None = None
    Workers = {w1, w2}
    Concurrency = 1
    Capacity = 1
    Lease = 1
    MaxLag = 0
    Deadline = 1
    Timely = FALSE
    TtlElapses = FALSE
    MaxDisruptions = 1
    MaxLeftovers = 1
SYMMETRY Symmetry
INVARIANTS NothingForgotten
