SPECIFICATION Spec
CONSTANTS
  Sessions = {s1, s2}
  s1 = s1
  s2 = s2
  SequenceNumbers = {k1, k2}
  k1 = k1
  k2 = k2
  None = None
  BucketsNum = 3
  Delay = 7
  QueueLen = 2
INVARIANT Exact
INVARIANT Armed
