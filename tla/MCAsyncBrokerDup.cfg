CONSTANTS
    Calls = {c1}
    Projects = {"p1", "p2"}
    EvTypes = {"resp.v1", "resp.v2"}
    MaxRetry = 2
    MaxFaults = 1
SPECIFICATION Spec
INVARIANT AtMostOneSyntheticEvent
CHECK_DEADLOCK FALSE
