SPECIFICATION HandlerSpec
CONSTANTS
    Sessions = {s1}
    Devices = {d1, d2}
    None = none
    TTL = 1
    Legacy = 0
    Purgeable = {}
    MaxTime = 2
    MaxLeases = 2
    Requests = {r1, r2}
    MaxFaults = 0
PROPERTIES
    NoWriteAfterTakeover
CHECK_DEADLOCK FALSE
