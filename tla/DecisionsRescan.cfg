SPECIFICATION Spec
CONSTANTS
    MaxItems = 4
    RefCap = 2
    MaxFindings = 4
    Policy <- MCPolicy
    Pool <- MCPool
    Inventory <- MCInventory
    AirGapped = FALSE
    Handlers = {h1, h2}
    MaxRequests = 2
    MaxScans = 3
    Threads = {t1, t2}
    Incoming <- MCRequests
    Cost = 3
    Burst <- MCBurst
    Rate <- MCRate
    MaxKeys = 1
    TrustForwarded = TRUE
    MaxClock = 2
SYMMETRY Symmetry
INVARIANT RescanReplaces
CHECK_DEADLOCK FALSE
