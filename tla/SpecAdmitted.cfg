SPECIFICATION Spec
CONSTANTS
    CPU = cpu
    Memory = memory
    Resources = {cpu, memory}
    Counted = {}
    HugePages = {}
    Unknown = {}
    Amounts = {1, 2, 4}
    Unit = 2
    DefaultRequest = 1
    DefaultLimit = 2
    Replicas = {0, 1, 100, 101}
    Ports = {0, 1, 65535, 65536}
    MaxNamed = 2
    None = none
INVARIANTS ValidIsAdmitted
