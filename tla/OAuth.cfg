SPECIFICATION Spec
CONSTANTS
  Clients = {a, b}
  Refreshers = {a}
  Users = {u, v}
  Codes = {c1, c2}
  Grants = {g1, g2}
  Pairs = {p1, p2, p3}
  None = None
  MaxPending = 2
  CodeTTL = 1
  SpentRetention = 1
  AccessTTL = 1
  RefreshTTL = 2
  ClientTTL = 1
SYMMETRY Symmetry
INVARIANTS
  NothingOutlivesItsGrant
  ReplayEndsTheGrant
PROPERTIES
  SpentIsRemembered
  KeepsConnections
