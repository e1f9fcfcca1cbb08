SPECIFICATION Spec
CONSTANTS
  t1 = t1  t2 = t2  v1 = v1  v2 = v2  v3 = v3  int = int  set_log = set_log
  Tokens <- MCTokens
  Empty = ""
  ValidTokens <- MCValidTokens
  LowerCase <- MCLowerCase
  Threads = {t1, t2}  NoThread = NoThread
  Vars = {v1, v2, v3}  NoVar = NoVar
  Types = {int, set_log}  NoType = NoType
  Asked <- MCAsked
  Documents <- Both
INVARIANTS TypeOK OneVariable LoadComplete IInv
SYMMETRY Symmetry
CHECK_DEADLOCK FALSE
