SPECIFICATION Spec
CONSTANTS
  Run = {r1, r2}
  Thread = {t1}
  threadOf <- OneThread
  External = {r1, r2}
  NextStep = {r1, r2}
  NoRun = NoRun
  HardStepCap = 2
  MaxContinues = 1
  MaxBackground = 1
  MaxStops = 2
SYMMETRY RunSymmetry
INVARIANTS
  SlotOwnerLive
  CancelNeedsRequest
\* A finite set of runs comes to rest, and users owe the system nothing.
CHECK_DEADLOCK FALSE
