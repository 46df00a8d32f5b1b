SPECIFICATION Spec
CONSTANTS
  Sessions = {s1}
  s1 = s1
  Slices = {a}
  a = a
  Ids = {i}
  i = i
  NoConn = NoConn
  PoolSize = 1
  Sent = {"write", "begin"}
  Allowed = {"break", "noReconnect"}
INVARIANT ProxySurvives
CHECK_DEADLOCK FALSE
