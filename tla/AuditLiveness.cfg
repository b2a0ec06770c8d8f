SPECIFICATION FairSpec
CONSTANTS
    Writers = {w1, w2}
    Backend = "pg"
    Faults = {}
    ChannelCap = 2
    BatchSize = 2
    MaxEvents = 2
    MaxControl = 1
    MaxCrashes = 0
PROPERTIES
    AcceptedIsStored
