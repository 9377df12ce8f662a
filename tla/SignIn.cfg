SPECIFICATION Spec
CONSTANTS
  Users = {u, v}
  Sessions = {k, l}
  Requests = {q, r}
  Ips = {a}
  None = None
  MaxFails = 2
  Lockout = 2
  GuardAge = 2
  SessionTTL = 1
  MaxChanges = 2
SYMMETRY Symmetry
INVARIANTS
  AlwaysAnOperator
  GuessesCapped
  ChangeEndsEarlierSessions
