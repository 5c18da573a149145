CONSTANTS
  Threads = {t1, t2, t3}
  Blocks = {b1, b2}
  Sizes = {1, 3}
  Idle = Idle
SPECIFICATION TrackerSpec
SYMMETRY ThreadSymmetry
INVARIANTS
  LiveIsUsed
  PeakIsHighest
  LiveNeverNegative
