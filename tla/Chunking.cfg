SPECIFICATION FairSpec
CONSTANTS
  MaxLength = 7
  MaxChunkSize = 3
  Text <- MCText
CHECK_DEADLOCK FALSE
INVARIANTS
  ChunksFit
  TextIsKept
PROPERTIES
  ChunkingEnds
  EveryTurnGetsOn
