CONSTANTS
    u1 = u1
    q1 = q1
    q2 = q2
    Users <- OneUser
    Kinds = {"filter"}
    Reqs <- TwoReqs
    None = None
    Heap = Heap
    HoursPerDay = 2
    Retention = 2
    MaxTime = 4
    MaxRequests = 3
SYMMETRY RequestSymmetry
SPECIFICATION Spec
INVARIANTS ChainIsLinear ObserversKnow NoSilentLoss RetentionKeepsRecent
CHECK_DEADLOCK FALSE
