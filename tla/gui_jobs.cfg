SPECIFICATION Spec
CONSTANTS
  Archives = {a1, a2}
  None = None
  AutoOpen = TRUE
  MaxJobs = 2
INVARIANTS OneLossPerPeriod ShownIsCurrent
PROPERTY BusyEnds
