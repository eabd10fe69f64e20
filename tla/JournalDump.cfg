\* A ring of two sectors: rotations between chunks; three connections.
CONSTANTS
  NumSectors = 2
  SlotsPerSector = 2
  MtuCount = 2
  QueueDepth = 2
  Recovered = {3}
  MaxRecords = 5
  MaxConns = 3
  MaxClears = 1
  MaxPresses = 1
  MaxFaults = 1
SPECIFICATION FairSpec
INVARIANTS
  TypeOK
  CopyIsRun
  NothingMissed
  AnswerGoesToAsker
PROPERTIES
  DumpEnds
