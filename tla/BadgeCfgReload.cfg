CONSTANTS
  RawOdrs = {0, 10}
  Periods = {1}
  MaxWrites = 2
  MaxLoads = 1
  MaxFaults = 0
  MaxCrashes = 0
SPECIFICATION Spec
INVARIANTS
  AcceptedStays
