CONSTANTS
  NUM_HEADERS = 2
  BATCH_COUNT = 3
  MODES <- Modes
  MAX_HEIGHT = 5
  SESSIONS = {0, 1}
  GIVEN <- MCGiven
  NoProof = NoProof
  NoHeight = NoHeight
  NoProver = NoProver
SPECIFICATION Spec
\* A session that ended takes no step.
CHECK_DEADLOCK FALSE
INVARIANT NextBatchIsAccepted
