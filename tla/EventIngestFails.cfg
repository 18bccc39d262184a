SPECIFICATION Spec
CONSTANTS
  PageSize = 2
  MaxPages = 4
  Retention = 3
  MaxClock = 4
  MaxEvents = 6
  MaxFaults = 1
INVARIANTS NoGap
