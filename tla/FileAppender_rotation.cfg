SPECIFICATION Spec
CONSTANTS
  a = a  b = b  c = c
  Threads <- ThreeThreads
  MaxTime = 3
SYMMETRY Renamings
INVARIANTS TypeOK RotationNoticed OpenRetried
PROPERTIES FailedWriteFinal
