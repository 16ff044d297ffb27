SPECIFICATION Spec
CONSTANTS
  e1 = e1
  e2 = e2
  NoTimer = NoTimer
  Timers <- MCTimers
  TicksPerSecond = 1
  PrepareTime = 1
  MaxWaitTime = 3
  BackoffMin = 1
  BackoffMax = 3
  AutoIncreaseTime = 4
  AutoIncreaseGap = 1
  ShutdownGuard = 4
  Day = 4
  Week = 2
  Schedules <- Mixed
  Faults = {"noService"}
  Edits = {"late", "dialog"}
  ClockSteps = {}
  MaxClock = 8
  MaxRequests = 4
SYMMETRY Symmetric
INVARIANTS Sorted NeverOversleeps RemovedTimerHasEnded
PROPERTIES DisabledTakesNoTuner
CHECK_DEADLOCK FALSE
