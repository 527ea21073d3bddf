CONSTANTS
    g1 = g1
    g2 = g2
    ann = ann
    bob = bob
    Guest = {g1}
    Name = {ann}
    FirstId = 10000
    Capacity = 1
    DiskFaults = FALSE
    SlowLink = FALSE
    MaxMappings = 1
    MaxBreaks = 0
    MaxStops = 0
SPECIFICATION FairSpec
PROPERTIES
    GuestsLearnOfUsers
CHECK_DEADLOCK FALSE
