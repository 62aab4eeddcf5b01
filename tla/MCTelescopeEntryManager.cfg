CONSTANTS
  TrackAt = 3
  MaxNodes = 5
  Scores = {0, 1, 2, 3}
  TieBelow = 2
  Lengths = {1, 2}
SPECIFICATION Spec
INVARIANTS BestFirst StableOrder BoundSound RowsMatch
\* all entries may have been added
CHECK_DEADLOCK FALSE
