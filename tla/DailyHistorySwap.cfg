SPECIFICATION Spec
CONSTANTS
  MaxDay = 3
  MaxRounds = 1
  Retention = 2
  MaxFaults = 1
  Faults = {"swap"}
  NoFile = NoFile
  NoDay = NoDay
PROPERTY ImmutableDays
