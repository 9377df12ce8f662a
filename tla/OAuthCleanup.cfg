SPECIFICATION FairSpec
CONSTANTS
  Clients = {a, b}
  Refreshers = {a, b}
  Users = {u}
  Codes = {c1}
  Grants = {g1}
  Pairs = {p1, p2}
  None = None
  MaxPending = 2
  CodeTTL = 1
  SpentRetention = 1
  AccessTTL = 1
  RefreshTTL = 2
  ClientTTL = 1
PROPERTIES
  NothingLingers
