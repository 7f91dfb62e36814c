SPECIFICATION Spec
CONSTANTS
  ChunkSizes <- MCChunkSizes
  DefaultSize = 4
  Byte = {0, 1}
  MaxLen = 5
INVARIANTS LaidOutAsWritten ReadsExact HashesExact NeverCorrupt
