CONSTANTS
  NUM_HEADERS = 1
  BATCH_COUNT = 3
  MODES <- MCModes
  MAX_HEIGHT = 5
  SESSIONS = {0, 1, 2, 3, 4, 5, 6, 7}
  GIVEN = {NoProof}
  NoProof = NoProof
  NoHeight = NoHeight
  NoProver = NoProver
  RADIX = 3
  RadixPow <- MCRadixPow
  MAX_FAULTS = 2
SPECIFICATION LoopSpec
INVARIANTS
  ResumeNeverFallsBack
  ProofsHavePast
PROPERTY TipIsProven
