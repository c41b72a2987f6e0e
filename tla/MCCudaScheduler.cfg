SPECIFICATION PollSpec
CONSTANTS
  r1 = r1
  r2 = r2
  r3 = r3
  r4 = r4
  j1 = j1
  j2 = j2
  Requests = {r1, r2, r3, r4}
  Jobs = {j1, j2}
  JobOf <- MCJobOf
  Arguments <- MCArguments
  Capacity = 2
INVARIANTS LaneExclusive NoOrphanWaiter
PROPERTIES GrantsInOrder RefusedOnlyWhenFull CancelObserved EveryAcquireReturns
