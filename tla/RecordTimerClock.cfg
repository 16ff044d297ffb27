SPECIFICATION Spec
CONSTANTS
  e1 = e1
  e2 = e2
  NoTimer = NoTimer
  Timers <- MCTimers
  TicksPerSecond = 1
  PrepareTime = 1
  MaxWaitTime = 3
  BackoffMin = 1
  BackoffMax = 3
  AutoIncreaseTime = 4
  AutoIncreaseGap = 1
  ShutdownGuard = 4
  Day = 8
  Week = 2
  Schedules <- RepeatsAndZap
  Faults = {}
  Edits = {"retype", "conflict", "open"}
  ClockSteps <- Steps
  MaxClock = 7
  MaxRequests = 3
SYMMETRY Symmetric
INVARIANTS  PollsAgain
PROPERTIES TimewarpRestoresTimers
CHECK_DEADLOCK FALSE
