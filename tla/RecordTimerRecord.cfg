SPECIFICATION FairSpec
CONSTANTS
  e1 = e1
  e2 = e2
  NoTimer = NoTimer
  Timers <- MCTimers
  TicksPerSecond = 2
  PrepareTime = 2
  MaxWaitTime = 4
  BackoffMin = 2
  BackoffMax = 3
  AutoIncreaseTime = 4
  AutoIncreaseGap = 1
  ShutdownGuard = 6
  Day = 8
  Week = 2
  Schedules <- BackToBack
  Faults = {"prepare", "start"}
  Edits = {}
  ClockSteps = {}
  MaxClock = 7
  MaxRequests = 2
INVARIANTS TypeOK TunerHeld
PROPERTIES RejectedIsDelayed NeverStartsEarly ShutdownSparesRecordings HandlersReturn RecordingsEnd
CHECK_DEADLOCK FALSE
