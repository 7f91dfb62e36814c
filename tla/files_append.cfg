SPECIFICATION Spec
CONSTANTS
  s1 = s1
  s2 = s2
  s3 = s3
  None = None
  Root = 0
  Node <- MCNode
  Name <- MCName
  Sess <- MCSess
  Upload <- MCUpload
  MetaKey <- MCKey
  RootOf <- OneRoot
  Files0 <- OneFile
  Uploads0 <- TwoAppends
  Calls <- AppendCalls
  Ttl = 0
  Clock0 = 1
  MaxClock = 1
  MaxCalls = 3
  MaxOthers = 1
  MaxFaults = 1
SYMMETRY Sessions
INVARIANTS PublishedConsistent PublishedOnce
PROPERTIES AtomicFiles
