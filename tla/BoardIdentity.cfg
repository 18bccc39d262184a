SPECIFICATION FairSpec
CONSTANTS
  RestTop = 2
  Serials = {"s1"}
  RootfsSizes = {292864, 356352, 3600000}
  Pids = {1, 2}
  MaxKills = 3
  Unset = Unset
  Hole = Hole
  Junk = Junk
  None = None
  Overrides <- MCOverrides
INVARIANTS TypeInv SameMac IdentityKept
 
