SPECIFICATION Spec
CONSTANTS
  s1 = s1
  s2 = s2
  s3 = s3
  None = None
  Root = 0
  Node <- MCNode
  Name <- MCName
  Sess <- MCSess
  Upload <- MCUpload
  MetaKey <- MCKey
  RootOf <- OneRoot
  Files0 <- OneDir
  Uploads0 <- TwoUploads
  Calls <- FileCalls
  Ttl = 0
  Clock0 = 0
  MaxClock = 0
  MaxCalls = 3
  MaxOthers = 1
  MaxFaults = 0
SYMMETRY Sessions
INVARIANTS TypeOK PublishedConsistent
PROPERTIES AtomicFiles
