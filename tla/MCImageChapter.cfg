SPECIFICATION Spec
CONSTANTS
  Images = 2
  Revisions = 2
  MaxRuns = 2
  MaxEvents = 1
  MaxConcurrent = 1
  Processors = 3
INVARIANTS NoStuckImage
PROPERTIES  EndedRunReleased ImageSettles
CHECK_DEADLOCK FALSE
