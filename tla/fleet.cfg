SPECIFICATION Spec
CONSTANTS
    Apps = {"raw", "mcp"}
    McpApps = {"mcp"}
    Nodes = {"n1", "n2", "n3"}
    Domain <- MCDomain
    Capacity <- MCCapacity
    MaxApps = 2
    MaxReplicas = 2
    Clients = {c1, c2}
    MaxContainers = 3
    MaxRequests = 4
    MaxMishaps = 1
CHECK_DEADLOCK FALSE
SYMMETRY MCSymmetry
INVARIANTS
    ContainersAccounted
    BilledIsInstalled
    QuotaHeld
    OperatorStopHolds
PROPERTIES
    ReapIsDue
