CONSTANTS
  SUBMISSIONS <- MCSubmissions
  PROVEN <- MCProven
  GENESIS_BLOCK_HASH = "g"
  RECENT_HEADER_CAPACITY = 3
  NO_RECORD <- MCNoRecord
  NO_PROOF = "none"
SPECIFICATION RelaySpec
INVARIANTS
  RelayTypeOK
  RingHoldsRecent
  HistoryIsChain
