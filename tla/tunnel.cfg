SPECIFICATION FairSpec
CONSTANTS
    Requests = {q1, q2, q3}
    Forwards = {q3}
    Streams = {s1}
    Last = 2
    Limit = 1
    Nobody = Nobody
    MaxConns = 2
    MaxCrashes = 1
INVARIANTS AnswersTrue FilesAccounted
PROPERTIES StageAnswered
CHECK_DEADLOCK FALSE
