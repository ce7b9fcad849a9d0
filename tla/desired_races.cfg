SPECIFICATION Spec
CONSTANTS
    Containers = {c1}
    Mcp = {}
    AutoRestart = {c1}
    Handlers = {h1, h2}
    PoolSize = 1
    MaxFails = 1
    MaxBoots = 2
    MaxCrashes = 1
    DockerFaults = TRUE
    StoreFaults = TRUE
SYMMETRY HandlerSymmetry
INVARIANTS
    StopHonoured
