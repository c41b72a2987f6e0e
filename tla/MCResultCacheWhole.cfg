SPECIFICATION CacheSpec
CONSTANTS
  image = image
  heavy = heavy
  document = document
  Jobs = {j1, j2, j3}
  Keys = {image, heavy, document}
  DocumentKeys = {document}
  Items = {i1, i2}
  Weight <- MCWeight
  MaxCacheBytes = 3
  MaxEntryBytes = 3
  MaxFaults = 1
SYMMETRY MCSymmetry
INVARIANT CachedAnswersAreWhole
CHECK_DEADLOCK FALSE
