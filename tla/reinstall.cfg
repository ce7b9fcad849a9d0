SPECIFICATION FairSpec
CONSTANTS
    MaxGen = 2
    Replicas = {1, 2}
    Plans = {{1}, {2}}
    MaxImage = 1
    MaxConfig = 1
    Resizes = {}
    Attempts = {a1}
    MaxFaults = 1
    MaxTimeouts = 0
    MaxCrashes = 1
INVARIANTS
    CompletedIsGone
PROPERTIES
    UninstallIsOneWay
    UninstallCompletes
CHECK_DEADLOCK FALSE
