CONSTANTS
  Run = {r1, r2}
  NoRun = NoRun
  Lease = {l1, l2, l3}
  NoLease = NoLease
  Account = {a1}
  NoAccount = NoAccount
  Releaser = {x1}
  Reconciler = Reconciler
  MaxPoolSize = 1
  MaxStops = 0
SPECIFICATION Spec
INVARIANT OneRunEach
CHECK_DEADLOCK FALSE
