CONSTANTS
    Versions <- MCVersions
    Baked <- MCBaked
    Replicas = 1
    MaxEdits = 2
    MaxCrashes = 1
    MaxPods = 3
SPECIFICATION Spec
PROPERTIES OnlyStartedIsAvailable CapacityKept EventuallyFresh EventuallyAvailable
