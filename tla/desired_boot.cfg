SPECIFICATION FairSpec
CONSTANTS
    Containers = {c1}
    Mcp = {c1}
    AutoRestart = {}
    Handlers = {h1}
    PoolSize = 1
    MaxFails = 2
    MaxBoots = 3
    MaxCrashes = 2
    DockerFaults = TRUE
    StoreFaults = FALSE
INVARIANTS
    StampedMeansHandled
    RunningIsRecorded
    AckedStopHolds
PROPERTIES
    RebootHandled
