CONSTANTS
  BATCH = 2
  BATCHES = 2
  OTHER_BYTES <- MCOtherBytes
  RESIZED <- MCResized
CHECK_DEADLOCK FALSE
SPECIFICATION Spec
INVARIANTS
  HonestBatchPasses
  OnlyHeadersDecide
  EveryHeaderByteCounts
  ResumesOnlyFromProof
