CONSTANTS
  MAX_HEADERS = 7
  HEX = {"00", "5a"}
  WIDE = 2
  NARROW = 3
\* A search that ended takes no step.
CHECK_DEADLOCK FALSE
SPECIFICATION ReportSpec
INVARIANTS
  DifferenceInside
  ReportShowsDifference
PROPERTY SearchEnds
