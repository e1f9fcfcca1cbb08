SPECIFICATION FairSpec
CONSTANTS
  e1 = e1  e2 = e2  NoThread = NoThread  NoFormatter = NoFormatter
  Threads = {t1, t2}
  Loggers = {l1, l2}
  StdoutAppenders = {a1}
  FileAppenders = {a2}
  Events = {e1, e2}
  InitFormatter = f0
  Formatters = {f0}
  Levels = {1, 2}
  DEBUG = 1
  Level <- TwoLevels
  MaxCalls = 4
INVARIANTS TypeOK SameOrder Delivered NoCrash AttachedNeverFollows
PROPERTIES WritesToAttached CallsReturn
CHECK_DEADLOCK FALSE
