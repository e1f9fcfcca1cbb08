SPECIFICATION StrongSpec
CONSTANTS
  x = x  y = y  a = a  b = b  a1 = a1  u = u  w = w  NoFrame = NoFrame
  Vars = {x}
  Values = {u, w}
  Frames = {a, b}
  Default <- OneDefault
  Parent <- TwoThreads
  MaxId = 1
  WriterBlocksReaders = TRUE
PROPERTIES SetValueReturns
CHECK_DEADLOCK FALSE
