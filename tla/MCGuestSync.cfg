CONSTANTS
    g1 = g1
    g2 = g2
    ann = ann
    bob = bob
    Guest = {g1}
    Name = {ann, bob}
    FirstId = 10000
    Capacity = 1
    DiskFaults = TRUE
    SlowLink = TRUE
    MaxMappings = 1
    MaxBreaks = 2
    MaxStops = 1
SPECIFICATION FairSpec
INVARIANTS
    TypeOK
    UpdateOnTheWay
    FlushOnTheWay
PROPERTIES
    CacheNeverGoesBack
    EventuallySynced
CHECK_DEADLOCK FALSE
