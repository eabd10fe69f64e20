\* Two sectors of two records, five events: the ring fills, rotates and is
\* cleared, with one power loss and one flash fault anywhere.
CONSTANTS
  Threads <- MCThreads
  WorkQ <- MCWorkQ
  Clearers <- MCClearers
  Preemptible <- MCPreemptible
  QueueDepth = 2
  NumSectors = 2
  SlotsPerSector = 2
  MaxEvents = 5
  MaxDrops = 1
  MaxFaults = 1
  MaxCrashes = 1
SPECIFICATION Spec
INVARIANTS
  TypeOK
  OpenSlotIntact
  NoStrandedEvent
  FifoOrder
  ToldTruth
  OneFate
PROPERTIES
  EraseOnlyWhenFull
  ImplementsJournal
