SPECIFICATION FairSpec
CONSTANTS
    Hosts = {h1}
    Assets = {a1}
    Keys = {k1}
    Conns = {c1}
    Pages = {"Overview", "Estate", "Settings"}
    Foci <- MCFoci
    TermCap = 3
    MaxCerts = 2
    MaxEvents = 4
    MaxForeign = 1
    MaxQuits = 1
INVARIANTS
    WindowIsTrue
PROPERTIES
    WorkEnds
CHECK_DEADLOCK FALSE
