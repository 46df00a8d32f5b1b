SPECIFICATION Spec
CONSTANTS
  Sessions = {s1, s2}
  s1 = s1
  s2 = s2
  Slices = {a}
  a = a
  Ids = {i, j}
  i = i
  j = j
  NoConn = NoConn
  PoolSize = 1
  Sent = {"write", "begin", "ac0", "commit", "rollback"}
  Allowed = {"break", "timeout"}
VIEW WithoutHistory
SYMMETRY Symmetry
INVARIANT OneUser
INVARIANT PoolClean
INVARIANT TokensKept
INVARIANT GoneHoldsNothing
CHECK_DEADLOCK FALSE
