SPECIFICATION Spec
CONSTANTS
  PoolUsers = {"u1", "u2"}
  Closers = {"c1"}
  Capacity = 1
  MaxCap = 2
  MaxOpens = 2
  Keys = {"a", "b", "c"}
  Sizes = {0, 1, 2}
  Capacities = {0, 2, 3}
  MaxUses = 4
  SeqProxies = {"p", "q"}
  SeqWorkers = {"a", "b"}
  Step = 2
  MaxValue = 4
  ParamCounts = {2}
  Values = {"x", "y"}
  MaxStmts = 1
  MaxChunks = 2
  SettingSessions = {"s"}
  Conns = {"c"}
  DBs = {"d1", "d2"}
  Variables = {"sql_mode", "time_zone"}
  Valid = {"v"}
  Invalid = {"bad"}
  CharsetIds <- DefaultCollations
  CollationNameToCharset <- CharsetOfCollation
  DefaultCharset = "utf8"
  Tables = {"a", "b"}
  Sharded = {"a"}
  writeElapsedInterval = 1
  Weights <- SlaveWeights
  MaxGets = 6
  Proxies = {"p1", "p2"}
  NameList <- TwoNames
  Home <- DataCentres
  FirstDocument <- TwoCentres
  MaxOps = 2
  MaxFaults = 1
  LoopSessions = {"s1", "s2"}
  MaxCommands = 2
  MaxReloads = 1
  MaxClears = 1
  StoreNames = {"n1", "n2"}
  StoreProxies = {"p1", "p2"}
  StoreWorkers = {"w1", "w2"}
  MaxChanges = 1
  MaxStarts = 2
  MaxStoreFaults = 1
  Writers = {"w1", "w2"}
  LogLevel = 2
  Levels = {2, 3}
  CleanHours = 2
  MaxLines = 2
  MaxHours = 2
  MaxFailures = 1
  TimedSessions = {"s1", "s2"}
  TimingNames = {"a", "b"}
  Elapsed = {1, 2, 4}
  Cutoffs <- TwoCutoffs
  MaxAdds = 3
INVARIANT RecycledWhereTaken
INVARIANT CacheAgrees
INVARIANT NumbersUnique
INVARIANT RunAsBound
INVARIANT MetAsAsked
INVARIANT ReadYourWrites
INVARIANT WeightedRotation
INVARIANT DCsApart
INVARIANT SessionsCounted
INVARIANT ChangeReaches
INVARIANT StartComplete
INVARIANT LinesKept
INVARIANT TimingsAgree
CHECK_DEADLOCK FALSE
