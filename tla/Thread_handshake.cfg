SPECIFICATION FairSpec
CONSTANTS
  m = m  o1 = o1  o2 = o2  NoObject = NoObject
  Mains = {m}
  Objects = {o1, o2}
  Holds <- Downwards
INVARIANTS TypeOK HandshakeDone RunUsesObject JoinedEnded HandleValid
PROPERTIES ConstructorReturns JoinCompletes
CHECK_DEADLOCK FALSE
