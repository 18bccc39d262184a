SPECIFICATION Spec
CONSTANTS
  MaxTime = 8
  Slots = 2
  Retention = 3
  Legacy = {1, 2}
  MaxFaults = 1
  Faults = {"bundle"}
INVARIANTS IndexServes
