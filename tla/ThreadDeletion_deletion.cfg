CONSTANTS
  Thread = {t1, t2}
  NoThread = NoThread
  Deletion = {d1}
  MaxOps = 2
SYMMETRY ThreadSymmetry
SPECIFICATION Spec
INVARIANTS TypeOK DeletedIsQuiet TargetsClosed AwaitedWillEnd
