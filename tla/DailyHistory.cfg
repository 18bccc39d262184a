SPECIFICATION FairSpec
CONSTANTS
  MaxDay = 3
  MaxRounds = 2
  Retention = 2
  MaxFaults = 2
  Faults = {"power", "export", "backfill"}
  NoFile = NoFile
  NoDay = NoDay
INVARIANTS TypeInv FileHoldsItsDay ManifestSound
PROPERTIES ImmutableDays ArchiveSpec RoundGetsShown
