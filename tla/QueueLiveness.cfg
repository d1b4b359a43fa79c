SPECIFICATION FairSpec
CONSTANTS
    Jobs = {j1}
    Payloads = {p1}
    None = None
    Workers = {w1, w2}
    Concurrency = 1
    Capacity = 1
    Lease = 2
    MaxLag = 0
    Deadline = 1
    Timely = TRUE
    TtlElapses = FALSE
    MaxDisruptions = 2
    MaxLeftovers = 1
PROPERTIES EveryJobSettles ProcessingDrains StopCompletes
