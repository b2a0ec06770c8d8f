SPECIFICATION Spec
CONSTANTS
    AssetCounts = {1}
    Parts = {"findings"}
    Keys = {k1, k2}
    Endpoints = {{k1, k2}}
    Severe = {k1}
    Jobs = {j1, j2}
    Modes = {TRUE}
    Origins = {"single"}
    MaxOps = 3
    MaxOverlap = 2
    MaxChanges = 1
    MaxCrashes = 0
    Tenants = {"default", "org"}
    Default = "default"
    Own = {"org"}
    Scores = {0, 2}
    Drop = 2
    Floor = 1
    Channels = 1
    AirGaps = {TRUE, FALSE}
    TurnModes = {TRUE, FALSE}
    MaxRounds = 3
    MaxInterleaved = 2
    Targets = {1, 2}
    DemoTargets = {2}
    Ports = {443}
    Addrs = {1, 2, 3}
    ConfigAddr = 1
    RouteModes = {"pqc-only"}
    SweepStatuses = {"classical_weak", "hybrid"}
    Handlers = {j1, j2}
    Conns = {c1}
    OverlapModes = {TRUE, FALSE}
    MaxRequests = 3
    MaxRestarts = 1
    MaxCerts = 2
SYMMETRY Symmetry
INVARIANTS
    OneRowPerFinding
CHECK_DEADLOCK FALSE
