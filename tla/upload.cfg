CONSTANTS
  None = None
  Empty = Empty
  u1 = u1
  u2 = u2
  a1 = a1
  Uploads <- MCUploads
  Asks <- MCAsks
  Names <- MCNames
  NameOf <- MCNameOf
  MaxUploadSize = 2
  MaxConcurrentUploads = 1
  MaxConn = 2
  MaxRequests = 2
  Window = 1
  MaxFaults = 1
SPECIFICATION Spec
INVARIANTS TypeOK FinalIsWhole SuccessMeansStored TempHasOwner
CHECK_DEADLOCK FALSE
