SPECIFICATION Spec
CONSTANTS
  Thread = {t1, t2}
  Server = {s1, s2}
  Name = {manager, n1, n2}
  Manager = manager
  Static = Static
  Req = {r1, r2, r3}
  Nil = Nil
  MaxConn = 2
INVARIANT ConnectionsHanded
INVARIANT RegistryExact
INVARIANT StartExact
CHECK_DEADLOCK FALSE
