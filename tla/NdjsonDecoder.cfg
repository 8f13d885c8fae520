CONSTANTS
  MaxFrameBytes = 3
  BlockBytes = 2
  MaxChunk = 5
  MaxStream = 8

SPECIFICATION DecoderSpec

INVARIANT
  ChunkingIsIrrelevant
