SPECIFICATION Spec
CONSTANTS
  t1 = t1
  t2 = t2
  t3 = t3
  f1 = f1
  f2 = f2
  f3 = f3
  NoThread = NoThread
  Quit = Quit
  Threads <- MCThreads
  Files <- MCFiles
INVARIANTS AssertionsHold
CHECK_DEADLOCK FALSE
