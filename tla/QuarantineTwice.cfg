SPECIFICATION Spec
CONSTANTS
  f1 = f1
  f2 = f2
  s1 = s1
  s2 = s2
  Ids = {s1}
  Forms = {f1}
  FormOf <- OneForm
  Channel = {"webhook"}
  Workers = {w1}
  Retention = 1
  MaxHolds = 2
SYMMETRY WorkerSymmetry
INVARIANTS
  WithheldIsDeliveredOnce
