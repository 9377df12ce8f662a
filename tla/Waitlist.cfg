SPECIFICATION Spec
CONSTANTS
  w1 = w1
  w2 = w2
  s1 = s1
  s2 = s2
  s3 = s3
  a1 = a1
  a2 = a2
  c1 = c1
  None = None
  Lists = {w1, w2}
  Addresses = {a1, a2}
  Signups = {s1, s2, s3}
  Posted <- MCPosted
  Casts = {c1}
  CastOn <- MCCastOn
  pageSize = 1
  maxRemoved = 1
  maxTasks = 1
  Edited = {w1}
INVARIANTS
  OneConfirmation
  PositionStands
  ReachesTheList
  PagingMissesNobody
CHECK_DEADLOCK FALSE
