CONSTANTS
  Command = {c1, c2}
  NoCommand = NoCommand
  Killer = {k1}
  Waiter = {w1}
  MaxStops = 2
SYMMETRY CommandSymmetry
SPECIFICATION Spec
INVARIANTS TypeOK OrphanHasNoProcess LiveRowHasOwner ShutdownLeavesNothing
