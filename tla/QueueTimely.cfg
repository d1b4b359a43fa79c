SPECIFICATION Spec
CONSTANTS
    Jobs = {j1, j2}
    Payloads = {p1, p2}
    None = None
    Workers = {w1, w2}
    Concurrency = 1
    Capacity = 1
    Lease = 3
    MaxLag = 1
    Deadline = 1
    Timely = TRUE
    TtlElapses = FALSE
    MaxDisruptions = 1
    MaxLeftovers = 1
SYMMETRY Symmetry
INVARIANTS TypeOK TimelyInv SingleEntry ClaimIsExclusive NothingStranded OutcomeIsWhole
PROPERTIES OutcomeIsFinal ImplementsLifecycle
