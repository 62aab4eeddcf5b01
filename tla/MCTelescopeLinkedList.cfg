CONSTANTS
  TrackAt = 3
  MaxNodes = 6
SPECIFICATION ListSpec
INVARIANTS WellFormed TrackedNeverEarly
PROPERTY SequenceSpec
\* all nodes may have been made
CHECK_DEADLOCK FALSE
