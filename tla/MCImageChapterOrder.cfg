SPECIFICATION Spec
CONSTANTS
  Images = 2
  Revisions = 1
  MaxRuns = 1
  MaxEvents = 1
  MaxConcurrent = 1
  Processors = 3
INVARIANTS SubmissionAccepted
CHECK_DEADLOCK FALSE
