SPECIFICATION FairReloadSpec
CONSTANTS
  logs = logs  start = start  l1 = l1  l2 = l2  t = t  f0 = f0  f1 = f1  f2 = f2
  NoFrame = NoFrame
  Vars = {logs}
  Values <- MCValues
  Default <- MCDefault
  Frames = {start, l1, l2}
  Parent <- MCParent
  MaxId = 1
  WriterBlocksReaders = FALSE
  Starter = start
  Loaders = {l1, l2}
  Clients = {t}
  Names <- MCNames
  RootName = 2
  RootObject = 0
  Formatters = {f0, f1, f2}
  InitFormatter = f0
  NoPattern = ""
  BadPattern = "%d{"
INVARIANTS ReloadTypeOK NoNullLogger LastClearerComplete ReloadMatches
PROPERTY ReloadFinishes
