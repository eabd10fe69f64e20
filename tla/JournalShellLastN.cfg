\* One dump of a journal with a record whose CRC is wrong.
CONSTANTS
  Threads = {"workq", "shell"}
  WorkQ = "workq"
  Clearers = {"workq"}
  Preemptible = {"shell"}
  Shell = "shell"
  QueueDepth = 1
  NumSectors = 2
  SlotsPerSector = 2
  MaxEvents = 3
  MaxDrops = 0
  MaxFaults = 1
  MaxCrashes = 0
  Ns = {1}
  MaxDumps = 1
SPECIFICATION DumpSpec
INVARIANTS
  LastNPrinted
