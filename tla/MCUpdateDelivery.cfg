CONSTANTS
  Items = 2
  Documents = 2
  Overlap = FALSE
SPECIFICATION Spec
CHECK_DEADLOCK FALSE
   
PROPERTIES  StreamSettles
