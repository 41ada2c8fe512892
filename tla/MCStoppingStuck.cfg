SPECIFICATION FairHandlerSpec
CONSTANTS
    Sessions = {s1}
    Devices = {d1}
    None = none
    TTL = 1
    Legacy = 0
    Purgeable = {}
    MaxTime = 2
    MaxLeases = 1
    Requests = {r1}
    MaxFaults = 1
PROPERTIES
    StoppingResolves
CHECK_DEADLOCK FALSE
