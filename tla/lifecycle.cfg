SPECIFICATION FairSpec
CONSTANTS
  t1 = t1
  t2 = t2
  t3 = t3
  None = None
  Task <- MCTask
  Pool <- MCPool
  MaxCalls = 4
  MaxErrors = 1
  MaxCancels = 1
INVARIANTS TypeOK ReadyHasPool NoPoolLost
PROPERTIES LifecycleReturns
