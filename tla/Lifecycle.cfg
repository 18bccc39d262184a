SPECIFICATION FairSpec
CONSTANTS
  Sample = 2
  HighLimit = 2
  ProbeLimit = 2
  WaitLimit = 3
  TermLimit = 2
  Grace = 8
  HaltMax = 2
  MountMin = 2
  MaxFaults = 2
INVARIANTS TypeInv NothingLeft WithinGrace HealthyMeansReady
PROPERTIES OrderlyThawed StopEnds StartedAgain SpinEnds
