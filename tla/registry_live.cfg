SPECIFICATION FairSpec
CONSTANTS
    NoStream = NoStream
    NoServer = NoServer
    Servers = {s1}
    Enrolled = {s1}
    Streams = {t1, t2}
    MaxRestarts = 1
PROPERTY GoneIsNotOnline
PROPERTY BrokenLeavesRegistry
