SPECIFICATION Spec
CONSTANTS
  Run = {r1, r2}
  Thread = {t1}
  threadOf <- OneThread
  External = {}
  NextStep = {}
  NoRun = NoRun
  HardStepCap = 1
  MaxContinues = 1
  MaxBackground = 1
  MaxStops = 1
SYMMETRY RunSymmetry
INVARIANTS
  TypeOK
  LiveRunHoldsSlot
\* A finite set of runs comes to rest, and users owe the system nothing.
CHECK_DEADLOCK FALSE
