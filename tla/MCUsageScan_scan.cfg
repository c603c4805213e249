\* Every stream of up to 8 bytes, cut in every way.
CONSTANTS
  Bytes = {"a", "b", "n", "r"}
  NewLine = "n"
  Return = "r"
  Marker <- MarkerOverlapping
  Usage <- TwoUsages
  MaxStream = 8
  MaxChunk = 6
SPECIFICATION UsageSpec
INVARIANTS
  TailIsRecent
  DoneIsExact
  UsageIsExact
CHECK_DEADLOCK FALSE
