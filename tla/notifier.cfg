CONSTANTS
    s1 = s1
    s2 = s2
    t1 = t1
    t2 = t2
    NoTimer = none
    NoJob = nojob
    Servers <- TwoServers
    Timers <- TwoTimers
    QCap = 2
    MaxConnects = 2
    MaxHttp = 3
SPECIFICATION NotifierFairSpec
INVARIANTS DrainedAtClose EntryIsPending
PROPERTY CloseReturns
CHECK_DEADLOCK FALSE
