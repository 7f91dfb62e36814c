SPECIFICATION Spec
CONSTANTS
  Client = {c1, c2, c3}
  Path <- MCPath
  Tree0 <- MCTree0
  Calls <- MCCalls
  MaxCalls = 3
SYMMETRY Clients
INVARIANT TypeOK
PROPERTY FailsForAReason TrueMeansDone ExportExact MoveLosesOnlyRaced
