SPECIFICATION Spec
CONSTANTS
  Base = 3
  DispLen = 1
  Jump = 2
  Wild = Wild
  Bad = Bad
  NoRep = NoRep
  PayloadLen = 5
  Catalogs <- MCCatalogs
  Sources <- MCSources
  Unlucky <- MCUnlucky
INVARIANTS TypeInv FindsEveryMatch PatchedAsAsked AgainSame
CHECK_DEADLOCK FALSE
