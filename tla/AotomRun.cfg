SPECIFICATION FairSpec
CONSTANTS
  Callers = {p1, p2}
  Tasks = {k1, k2}
  NoTask = NoTask
  NoCaller = NoCaller
  Short = {blank}
  Long = {l1, l2}
  Blank = blank
  Faults = {"copy", "kthread"}
INVARIANTS TypeOK ShowsLast ArgumentStays
PROPERTIES CallsReturn
