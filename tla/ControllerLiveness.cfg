SPECIFICATION FairSpec
CONSTANTS
    Specs = {s1, bad, big}
    Invalid = {bad}
    Unfit = {big}
    ServiceSpec = service
    Drifted = drifted
    None = none
    MaxEdits = 2
    MaxFaults = 0
PROPERTIES EventuallySettles DeletionCompletes
CHECK_DEADLOCK FALSE
