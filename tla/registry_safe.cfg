SPECIFICATION Spec
CONSTANTS
    NoStream = NoStream
    NoServer = NoServer
    Servers = {s1, s2}
    Enrolled = {s1}
    Streams = {t1, t2}
    MaxRestarts = 1
SYMMETRY StreamSymmetry
INVARIANTS RegisteredIsLive RegisteredIsAuthenticated
PROPERTY KeepsOneSlot
