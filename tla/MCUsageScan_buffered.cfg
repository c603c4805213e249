\* Every stream of up to 6 bytes, events that end in returns and new lines.
CONSTANTS
  Bytes = {"a", "b", "n", "r"}
  NewLine = "n"
  Return = "r"
  Marker <- MarkerOverlapping
  Usage <- TwoUsages
  MaxStream = 6
  MaxChunk = 6
SPECIFICATION UsageSpec
INVARIANT NeverBufferedWhole
CHECK_DEADLOCK FALSE
