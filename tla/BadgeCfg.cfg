CONSTANTS
  RawOdrs = {17, 75, 201}
  Periods = {2, 0}
  MaxWrites = 3
  MaxLoads = 1
  MaxFaults = 1
  MaxCrashes = 1
SPECIFICATION FairSpec
INVARIANTS
  TypeOK
  Settled
PROPERTIES
  NvsMovesOn
  AcceptedIsApplied
