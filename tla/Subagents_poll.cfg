SPECIFICATION FairSpec
CONSTANTS
  Subagent = {s1}
  NoSubagent = NoSubagent
  MaxRuns = 2
  MaxInputs = 2
  MaxLost = 1
  MaxStops = 2
INVARIANTS
  TypeOK
  LiveIsRunning
  ToldIsTrue
  NoLostWakeup
PROPERTIES
  OutcomeFinal
  PollWakes
\* The thread comes to rest when its runs have ended.
CHECK_DEADLOCK FALSE
