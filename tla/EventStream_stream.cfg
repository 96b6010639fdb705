CONSTANTS
  MaxStep = 2
  MaxEvents = 2
  MaxLate = 1
  MaxFrames = 2
  MaxFaults = 1
SPECIFICATION FairSpec
INVARIANTS TypeOK LiveStepExact StepsDelivered
PROPERTY EndIsShown
CHECK_DEADLOCK FALSE
