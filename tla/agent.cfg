SPECIFICATION FairSpec
CONSTANTS
    w1 = w1
    Writers <- OneWriter
    None = None
    MaxKeys = 3
    MaxCAs = 2
    MaxServers = 2
    MaxFaults = 1
    MaxBackoff = 2
INVARIANTS IdentityIsWhole ConfigHasIdentity DiskFollowsMemory CAIsStable
PROPERTY ServedOrStranded
CHECK_DEADLOCK FALSE
