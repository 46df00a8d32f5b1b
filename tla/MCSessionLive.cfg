SPECIFICATION FairSpec
CONSTANTS
  Sessions = {s1, s2}
  s1 = s1
  s2 = s2
  Slices = {a, b}
  a = a
  b = b
  Ids = {i}
  i = i
  NoConn = NoConn
  PoolSize = 1
  Sent = {"read", "begin"}
  Allowed = {}
PROPERTY CommandAnswered
CHECK_DEADLOCK FALSE
