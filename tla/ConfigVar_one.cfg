SPECIFICATION FairSpec
CONSTANTS
  x = x  y = y  a = a  b = b  a1 = a1  u = u  w = w  NoFrame = NoFrame
  Vars = {x}
  Values = {u, w}
  Frames = {a, b, a1}
  Default <- OneDefault
  Parent <- Nested
  MaxId = 2
  WriterBlocksReaders = FALSE
INVARIANTS TypeOK KeyFindsListener ValueFrozen LockDiscipline
PROPERTIES StableWhileNotifying SetValueWedges WedgeIsFinal RefinesTable
CHECK_DEADLOCK FALSE
