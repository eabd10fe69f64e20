CONSTANTS
  ChunkMax = 2
  MaxLen = 3
  MaxOps = 4
  MaxKeys = 4
  MaxFaults = 2
  MaxCrashes = 1
SPECIFICATION Spec
INVARIANTS
  TypeOK
  RoundTrip
  KeyOutlivesData
PROPERTIES
  AppendKeepsPrefix
