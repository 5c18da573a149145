CONSTANTS
  KEYS = {"self", "other"}
  SELF = "self"
  ANCHORS <- MCAnchors
  HEADERS = {"fast", "weak", "old"}
  CONTS = {"easy", "hard"}
  FOREIGN <- MCForeign
  Outcome <- MCOutcome
  NextCont <- MCNextCont
  HashOf <- MCHashOf
  BlockWork <- MCBlockWork
  MAX_HEIGHT = 2
  MAX_PROOFS = 3
SPECIFICATION Spec
INVARIANTS
  TypeOK
  ClaimsHaveLineage
  FailureBlamesInvalidHeader
  TipDeterminesClaim
  ResumeIsExact
