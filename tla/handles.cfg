SPECIFICATION Spec
CONSTANTS
  h1 = h1
  h2 = h2
  None = None
  Handle <- MCHandle
  Modes <- AllModes
  Text = {TRUE, FALSE}
  InTrans = TRUE
  MaxBlocks = 2
  MaxFaults = 2
  MaxOthers = 1
SYMMETRY Handles
INVARIANTS TypeOK NothingStaged InOrderOfOpening
PROPERTIES WholeOrNothing DeferredUntilEnd
CHECK_DEADLOCK FALSE
