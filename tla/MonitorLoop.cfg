SPECIFICATION FairSpec
CONSTANTS
  MinInterval = 2
  MaxInterval = 8
  Poll = 3
  Intervals = {1, 2, 8}
  Initial = 2
  MaxRun = 3
  MaxSaves = 2
  MaxFaults = 1
  Faults = {"power", "sync", "rotate"}
  Absent = Absent
INVARIANTS TypeInv Timely Prompt
PROPERTIES Spaced NeverReverts PreferenceApplied KeepsCollecting
