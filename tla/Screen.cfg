SPECIFICATION Spec
CONSTANTS
  f1 = f1
  f2 = f2
  s1 = s1
  s2 = s2
  s3 = s3
  s4 = s4
  ip1 = ip1
  ip2 = ip2
  None = None
  NoBucket = NoBucket
  Forms = {f1, f2}
  Subs = {s1, s2, s3, s4}
  Ips = {ip1, ip2}
  RuleIds = {r1}
  Mailboxes = {"bob", "ann"}
  Hosts = {"mail.example.org", "example.org", "org", "localhost"}
  Networks = {"net1"}
  Words = {"lamp", "casino"}
  BuiltIn = {"casino"}
  NameFields = {"name"}
  Dotted = {"mail.example.org", "example.org"}
  Numeric = {ip1}
  HostOf <- MCHostOf
  Above <- MCAbove
  Around <- MCAround
  Contents <- MCContents
  Values <- MCValues
  Posted <- MCPosted
  Offers <- MCOffers
  Askable <- MCAskable
  Legacy <- MCLegacy
  Found <- MCFound
  Thresholds = {0, 100}
  Configured = {0}
  maxTracked = 1
  maxBusy = 2
  burst = 1
  cost = 1
  maxAge = 1
  maxNow = 2
INVARIANTS
  StoredAddsUp
  ThirdIsHeld
  NeverMoreThanItsRate
  OnlyTheSenderExcuses
  ProblemsAreInert
CHECK_DEADLOCK FALSE
