SPECIFICATION Spec
CONSTANTS
  NoTimer = NoTimer
  Timers = {t1, t2}
  Begins = {1, 4}
  Lengths = {2}
  Day = 3
  LastTime = 4
SYMMETRY Symmetric
INVARIANTS TypeOK WantedSurvive RemovedStaysAway
