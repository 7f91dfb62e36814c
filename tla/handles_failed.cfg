SPECIFICATION Spec
CONSTANTS
  h1 = h1
  h2 = h2
  None = None
  Handle <- MCHandle
  Modes <- AllModes
  Text = {FALSE}
  InTrans = TRUE
  MaxBlocks = 1
  MaxFaults = 0
  MaxOthers = 0
SYMMETRY Handles
PROPERTIES FailedPublishesNothing
CHECK_DEADLOCK FALSE
