CONSTANTS
    p1 = p1
    p2 = p2
    Prefixes <- MCPrefixes
    d1 = d1
    d2 = d2
    Devices <- MCDevices
    NoWill = NoWill
    Tls = TRUE
    Wrap = 5
    Wait = 2
    Slow = 2
    MaxMishaps = 2
SPECIFICATION FairSpec
INVARIANTS TypeOK StatusTrue
PROPERTIES WaitsBetween Reconnects
