CONSTANTS
  Prompts = {p1, p2}
  EmptyPrompt = p1
  Batches = 2
  MaxInputs = 3
  MaxRefinders <- Refinders
SPECIFICATION Spec
INVARIANTS WaitsUpToDate NothingDropped OneStep NoJobLeft
 
\* a closed picker stops
CHECK_DEADLOCK FALSE
