SPECIFICATION Spec
CONSTANTS
  r1 = r1
  r2 = r2
  r3 = r3
  c1 = c1
  c2 = c2
  Requests = {r1, r2, r3}
  Clients = {c1, c2}
  ClientOf <- MCClientOf
  Payloads = {p1, p2}
  SourceBytes <- MCSourceBytes
  LedgerLimit = 1
  MaxJobs = 2
  MaxBytes = 2
  MaxPatches = 1
SYMMETRY MCSymmetry
INVARIANTS OneJobPerEntry NoConcurrentCreation AnswersMatch WithinLimits RunningJobsKept
CHECK_DEADLOCK FALSE
