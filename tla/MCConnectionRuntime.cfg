SPECIFICATION Spec
CONSTANTS
  Conns = {a, b}
SYMMETRY Symmetry
INVARIANTS
  NoOrphanTunnel
  StopIsFinal
  StoppedIsNotRetried
PROPERTIES
  ImplementsOneTunnel
