CONSTANTS
    u1 = u1
    u2 = u2
    u3 = u3
    n1 = n1
    n2 = n2
    q1 = q1
    q2 = q2
    Ids <- ThreeIds
    Names <- TwoNames
    Reqs <- TwoReqs
    ApiIds <- OneApi
    Founder = u1
    Second = u2
    NoRow = NoRow
    Idle = Idle
    MaxRequests = 3
SYMMETRY RequestSymmetry
SPECIFICATION Spec
INVARIANT AcceptedRoleIsCurrent
CHECK_DEADLOCK FALSE
