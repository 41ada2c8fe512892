SPECIFICATION HandlerSpec
CONSTANTS
    Sessions = {s1, s2}
    Devices = {d1}
    None = none
    TTL = 1
    Legacy = 0
    Purgeable = {s2}
    MaxTime = 3
    MaxLeases = 4
    Requests = {r1}
    MaxFaults = 0
INVARIANTS
    SourceNeverReused
CHECK_DEADLOCK FALSE
