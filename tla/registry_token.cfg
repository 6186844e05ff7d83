SPECIFICATION Spec
CONSTANTS
    NoStream = NoStream
    NoServer = NoServer
    Servers = {s1}
    Enrolled = {}
    Streams = {t1, t2}
    MaxRestarts = 0
INVARIANT TokenIsSingleUse
