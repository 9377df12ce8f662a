SPECIFICATION FairSpec
CONSTANTS
  f1 = f1
  f2 = f2
  s1 = s1
  s2 = s2
  Ids = {s1, s2}
  Forms = {f1, f2}
  FormOf <- TwoForms
  Channel = {}
  Workers = {w1}
  Retention = 1
  MaxHolds = 1
PROPERTIES
  NoEarlyPurge
  QuarantineNeverTakesInbox
  ClearDeletesWhatWasCounted
  HeldEventuallyLeaves
