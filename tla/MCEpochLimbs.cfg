CONSTANTS
  BYTE = 4
  NBYTES = 6
  BytePow <- MCBytePow
  POW_LIMIT = 240
  EPOCH_LENGTH = 4
  TARGET_BLOCK_TIME = 1
  TIMESTAMPS <- MCTimestamps
  WIDTH = 3
  BITS = 12
  Pow2 <- MCPow2
  ROW_TARGETS <- MCRowTargets
SPECIFICATION Spec
INVARIANTS
  RetargetIsExact
  NbitsAndTargetAgree
  WorkNeverBelowMinimum
  WorkIsQuotient
PROPERTIES
  RefinesRetarget
  LoopDivides
