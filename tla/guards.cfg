CONSTANTS
    i1 = i1
    i2 = i2
    i3 = i3
    t1 = t1
    Ips <- ThreeIps
    Tokens <- OneToken
    NoTime = NoTime
    Limit = 2
    Window = 2
    MaxTracked = 2
    Period = 1
    Lifetime = 3
    MaxTime = 6
    MaxCalls = 5
SYMMETRY IpSymmetry
SPECIFICATION Spec
INVARIANTS LimitHolds CodeAcceptedOnce LoggedOutStaysRefused
CHECK_DEADLOCK FALSE
