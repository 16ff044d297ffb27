SPECIFICATION FairSpec
CONSTANTS
  t1 = t1
  t2 = t2
  NoThread = NoThread
  Threads <- MCThreads
  Uses = {"dies", "createFails"}
INVARIANTS AssertionsHold NoThreadLost
PROPERTIES KeepsPromises CallsReturn
CHECK_DEADLOCK FALSE
