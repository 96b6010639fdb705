SPECIFICATION FairSpec
CONSTANTS
  Input = {i1, i2, i3}
  MaxStops = 2
INVARIANTS
  TypeOK
  RequestSeesInputs
  NoPendingAfterEnd
PROPERTIES
  DeliversInputs
  InputSettles
\* A run that has ended comes to rest.
CHECK_DEADLOCK FALSE
