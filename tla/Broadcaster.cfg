SPECIFICATION Spec
CONSTANTS
  l1 = l1
  l2 = l2
  Broadcasts = {1, 2}
  Deliveries = {1, 2, 3}
  Of <- TwoAndOne
  Waitlists = {l1, l2}
  ListOf <- OwnList
  BatchSize = 2
  MaxAttempts = 2
  MaxFaults = 2
INVARIANTS
  DoneMeansSettled
  OneMailPerFault
  DuplicatesCapped
  NoLostWakeup
PROPERTIES
  KeepsPromise
