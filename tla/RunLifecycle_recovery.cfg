SPECIFICATION FairSpec
CONSTANTS
  Run = {r1}
  Thread = {t1}
  threadOf <- OneThread
  External = {}
  NextStep = {}
  NoRun = NoRun
  HardStepCap = 2
  MaxContinues = 2
  MaxBackground = 1
  MaxStops = 2
INVARIANTS
  RecoveryExclusive
PROPERTIES
  RunProgress
  ShutdownCompletes
  CancelingSettlesAfterRestart
\* A finite set of runs comes to rest, and users owe the system nothing.
CHECK_DEADLOCK FALSE
