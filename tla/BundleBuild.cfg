SPECIFICATION Spec
CONSTANTS
  WordLen = 2
  KeyStart <- MCKeyStart
  KeyFlip <- MCKeyFlip
  HeaderSize = 1
  PageSize = 3
  Refused = Refused
  Gzip <- MCGzip
  Worlds <- MCWorlds
  SoundWorlds <- MCSoundWorlds
  SoundImages <- MCSoundImages
  Inputs <- MCInputs
  Options <- MCOptions
  Validated = {"r600"}
  Experimental = {"r500", "t300"}
  Artifacts = {"kernel"}
  MaxFaults = 1
  Partial = Partial
  None = None
INVARIANTS TypeInv ImageSound BundleSound GenuineAccepted
CHECK_DEADLOCK FALSE
