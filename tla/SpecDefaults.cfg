SPECIFICATION Spec
CONSTANTS
    CPU = cpu
    Memory = memory
    Resources = {cpu, memory, gpu, hugepages, gadgets}
    Counted = {gpu, hugepages}
    HugePages = {hugepages}
    Unknown = {gadgets}
    Amounts = {1, 2, 4}
    Unit = 2
    DefaultRequest = 2
    DefaultLimit = 3
    Replicas = {0, 100, 101}
    Ports = {0, 65535, 65536}
    MaxNamed = 2
    None = none
INVARIANTS RefusedExactlyFor
