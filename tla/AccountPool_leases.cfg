CONSTANTS
  Run = {r1}
  NoRun = NoRun
  Lease = {l1, l2}
  NoLease = NoLease
  Account = {a1}
  NoAccount = NoAccount
  Releaser = {x1}
  Reconciler = Reconciler
  MaxPoolSize = 1
  MaxStops = 1
SPECIFICATION FairSpec
INVARIANTS TypeOK AccountExclusive ReleasedIsDead
PROPERTY LeaseReturned
CHECK_DEADLOCK FALSE
