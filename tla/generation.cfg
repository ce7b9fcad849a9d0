SPECIFICATION Spec
CONSTANTS
    MaxGen = 1
    Replicas = {1, 2}
    Plans = {{1, 2}}
    MaxImage = 2
    MaxConfig = 2
    Resizes = {2}
    Attempts = {a1}
    MaxFaults = 1
    MaxTimeouts = 1
    MaxCrashes = 0
INVARIANTS
    RunningIsDeclared
    SuccessServes
PROPERTIES
    AttestedIsFixed
CHECK_DEADLOCK FALSE
