SPECIFICATION FairSpec
CONSTANTS
    Apps <- MCApps
    MaxVer = 2
    MaxEpoch = 2
    MaxMade = 5
    MaxRequests = 2
    MaxMishaps = 2
CHECK_DEADLOCK FALSE
INVARIANTS
    OneContainer
    AnswerHolds
    RevertNotBlocked
    RollingServes
    AnsweredAttests
PROPERTIES
    RedeployEnds
