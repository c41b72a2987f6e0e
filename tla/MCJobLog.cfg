SPECIFICATION LiveSpec
CONSTANTS
  Items = {i1}
  Levels = {0}
  Handlers = {h1, h2}
  Readers = {r1}
  MaxUpdates = 3
  Page = 2
INVARIANTS ActivityCountedOnce NoLostWakeup
PROPERTIES ImplementsUpdateLog CancelledIsFinal CancelReleasesActivity JobEnds ReaderSeesEnd
CHECK_DEADLOCK FALSE
