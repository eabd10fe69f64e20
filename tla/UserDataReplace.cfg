CONSTANTS
  ChunkMax = 2
  MaxLen = 3
  MaxOps = 3
  MaxKeys = 2
  MaxFaults = 0
  MaxCrashes = 1
SPECIFICATION Spec
INVARIANTS
  WriteReplaces
