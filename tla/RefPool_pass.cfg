SPECIFICATION Spec
CONSTANTS
  Obj = {o1, o2, o3, o4}
  NoObj = NoObj
  Expand = 2
  SizeMod = 8
  MaxPool = 4
  MaxNested = 2
INVARIANT TypeOK
INVARIANT IndexDenotesObject
INVARIANT FreeChainExact
INVARIANT HookNotRunAgain
PROPERTY ImplementsRefSet
CHECK_DEADLOCK FALSE
