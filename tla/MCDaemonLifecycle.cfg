SPECIFICATION Spec
CONSTANTS
  Calls = {c1, c2}
  MaxDaemons = 2
  MaxFaults = 1
CHECK_DEADLOCK FALSE
INVARIANTS NoWorkAtShutdown Discoverable
PROPERTIES  CallReturns
