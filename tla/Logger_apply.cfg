SPECIFICATION Spec
CONSTANTS
  e1 = e1  e2 = e2  NoThread = NoThread  NoFormatter = NoFormatter
  Threads = {t1, t2}
  Loggers = {l1}
  StdoutAppenders = {a1}
  FileAppenders = {}
  Events = {e1}
  InitFormatter = f0
  Formatters = {f0, f1}
  Levels = {1, 2}
  DEBUG = 1
  Level <- OneEvent
  MaxCalls = 3
INVARIANTS LoggerFormatterApplies
CHECK_DEADLOCK FALSE
