CONSTANTS
  BYTE = 4
  NBYTES = 5
  BytePow <- MCBytePow
  POW_LIMIT = 60
  EPOCH_LENGTH = 4
  TARGET_BLOCK_TIME = 1
  WINDOW_SIZE = 3
  TIMESTAMPS <- MCTimestamps
  HASHES <- MCHashes
  GENESIS_TIME = 1
  GENESIS_WORK = 16
  MAX_HEIGHT = 8
  MAX_BATCH = 3
SPECIFICATION DbSpec
\* A failed or panicked call is the end of the program.
CHECK_DEADLOCK FALSE
INVARIANTS
  TypeOK
  WorkConserved
  RingHoldsWindow
  HintIsMedian
  EpochStartIsBoundary
  DifficultyCoherent
  RebuiltIsReplayed
PROPERTY
  RefinesConsensus
