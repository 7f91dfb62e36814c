SPECIFICATION FairSpec
CONSTANTS
  s1 = s1
  s2 = s2
  None = None
  Root = 0
  Node <- MCNode13
  Name <- MCName
  Sess <- MCSess
  Tree0 <- RacedTree
  Calls <- MeetingCalls
  MaxCalls = 3
  MaxFaults = 1
INVARIANTS TypeOK UniqueSiblings NoOrphans NoDirCycles
PROPERTIES FalseHasNoEffect DirsDieEmpty AtomicTree CallsReturn
