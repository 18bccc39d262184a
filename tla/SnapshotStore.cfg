SPECIFICATION Spec
CONSTANTS
  MaxTime = 8
  Slots = 2
  Retention = 3
  Legacy = {1, 2}
  MaxFaults = 2
  Faults = {"power", "collect", "unlink", "migrate"}
INVARIANTS TypeInv BodiesKept BundleHoldsDay IndexServes ManifestMatches
