SPECIFICATION Spec
CONSTANTS
  p = p
  j = j
  a = a
  Conn <- MCConn
  Mode <- MCMode
  Name <- MCName
  Calls <- MCCalls
  Dbs0 <- MCDbs0
  MaxSteps = 4
  MaxFaults = 1
INVARIANTS TypeOK ReadySeesRoot InitNeverCollides
PROPERTIES Together FalseKeepsTxUsable
