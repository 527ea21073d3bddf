CONSTANTS
    c1 = c1
    c2 = c2
    ann = ann
    bob = bob
    Conn = {c1, c2}
    Name = {ann, bob}
    ShortName = {}
    FirstId = 10000
    DiskFaults = TRUE
    MaxCrashes = 0
SPECIFICATION Spec
INVARIANTS
    SuccessMeansPersisted
