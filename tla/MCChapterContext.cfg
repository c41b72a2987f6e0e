SPECIFICATION Spec
CONSTANTS
  p1 = p1
  p2 = p2
  a = a
  b = b
  c = c
  j1 = j1
  j2 = j2
  j3 = j3
  j4 = j4
  Pages = {p1, p2}
  Orders = {1, 2}
  Revisions = {a, b, c}
  RegionsOf <- MCRegionsOf
  Jobs = {j1, j2, j3, j4}
  PageOf <- MCPageOf
  RevisionOf <- MCRevisionOf
  Replays = {j3, j4}
INVARIANTS SessionCoherent PagesSealed TranslationsBelong
 
CHECK_DEADLOCK FALSE
