SPECIFICATION Spec
CONSTANTS
  Conn = {c1, c2, c3}
  Nil = Nil
  Packets <- SmallPackets
  HeadSize = 2
  MaxPackets = 2
  MaxStarts = 2
INVARIANT InOrder
INVARIANT MemoryExact
SYMMETRY Perms
CHECK_DEADLOCK FALSE
