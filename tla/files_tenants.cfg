SPECIFICATION FairSpec
CONSTANTS
  s1 = s1
  s2 = s2
  s3 = s3
  None = None
  Root = 0
  Node <- MCNode
  Name <- MCName
  Sess <- TwoTenants
  Upload <- TenantUpload
  MetaKey <- MCKey
  RootOf <- TwoRoots
  Files0 <- TwoTrees
  Uploads0 <- TenantUploads
  Calls <- TenantCalls
  Ttl = 0
  Clock0 = 0
  MaxClock = 1
  MaxCalls = 2
  MaxOthers = 1
  MaxFaults = 0
PROPERTIES Isolated AtomicFiles CallsReturn
