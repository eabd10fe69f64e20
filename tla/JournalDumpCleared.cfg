\* One client that dumps and clears; one failing flash operation.
CONSTANTS
  NumSectors = 2
  SlotsPerSector = 2
  MtuCount = 2
  QueueDepth = 2
  Recovered = {3}
  MaxRecords = 4
  MaxConns = 1
  MaxClears = 1
  MaxPresses = 0
  MaxFaults = 1
SPECIFICATION Spec
INVARIANTS
  ClearedIsTrue
