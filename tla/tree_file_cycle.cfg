SPECIFICATION Spec
CONSTANTS
  s1 = s1
  s2 = s2
  None = None
  Root = 0
  Node <- MCNode13
  Name <- MCName
  Sess <- MCSess
  Tree0 <- DirTree
  Calls <- CycleCalls
  MaxCalls = 4
  MaxFaults = 0
SYMMETRY Sessions
INVARIANTS NoCycles
