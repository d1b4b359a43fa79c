SPECIFICATION Spec
CONSTANTS
    Specs = {s1, s2, bad, big}
    Invalid = {bad}
    Unfit = {big}
    ServiceSpec = service
    Drifted = drifted
    None = none
    MaxEdits = 2
    MaxFaults = 2
SYMMETRY Symmetry
INVARIANTS TypeOK SettledIsConverged
PROPERTIES ForeignIsUntouched StatusIsOfThisGeneration
CHECK_DEADLOCK FALSE
