\* One dump beside writers, clears, rotations and one flash fault.
CONSTANTS
  Threads = {"workq", "shell"}
  WorkQ = "workq"
  Clearers = {"workq", "shell"}
  Preemptible = {"shell"}
  Shell = "shell"
  QueueDepth = 1
  NumSectors = 2
  SlotsPerSector = 1
  MaxEvents = 3
  MaxDrops = 0
  MaxFaults = 1
  MaxCrashes = 0
  Ns = {1}
  MaxDumps = 1
SPECIFICATION DumpFairSpec
INVARIANTS
  DumpTypeOK
  PrintedInOrder
  DumpIsRight
PROPERTIES
  EventuallyHandled
  DumpEnds
