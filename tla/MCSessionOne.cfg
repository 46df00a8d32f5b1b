SPECIFICATION Spec
CONSTANTS
  Sessions = {s1}
  s1 = s1
  Slices = {a, b}
  a = a
  b = b
  Ids = {i}
  i = i
  NoConn = NoConn
  PoolSize = 1
  Sent = {"read", "write", "show", "begin", "commit", "rollback", "ac0", "ac1", "quit"}
  Allowed = {"timeout"}
SYMMETRY Symmetry
INVARIANT CommitDurable
INVARIANT RollbackClean
CHECK_DEADLOCK FALSE
