SPECIFICATION Spec
CONSTANTS
  x = x  y = y  a = a  b = b  a1 = a1  u = u  w = w  NoFrame = NoFrame
  Vars = {x, y}
  Values = {u, w}
  Frames = {a, b}
  Default <- TwoDefaults
  Parent <- TwoThreads
  MaxId = 2
  WriterBlocksReaders = FALSE
INVARIANTS KeyFindsListener 
CHECK_DEADLOCK FALSE
