CONSTANTS
  Foci = {"session", "lockstep", "kernel", "vm", "coin", "dispatch", "world", "link", "om", "game"}
  Holders = {1, 2}
  Genesis = {1}
  Amounts = {1, 5}
  U64 = 6
  MAX_SUPPLY = 4
  GENESIS_REWARD = 2
  BLOCK_REWARD = 2
  HALVING_INTERVAL = 1
  MAX_ACCOUNTS = 1
  MaxHeight = 1
  MaxNonce = 1
  Peers = {1, 2}
  MaxData = 1
  Inputs = {1}
  MAX_ROLLBACK = 2
  HashInterval = 1
  CheckpointFrames = 2
  LkRetention = 1
  Committee = {1}
  LkMaxFrame = 3
  MaxQueue = 1
  MaxRestores = 2
  Nodes = {1, 2, 3}
  Keys = {"k1"}
  Values = {1}
  MaxPayload = 1
  MaxWrites = 2
  MaxFull = 2
  Own = 1
  Others = {2}
  JobKinds = {"cpu", "gpu", "map0", "map2"}
  Outputs = {1, 2}
  MaxJobs = 2
  MaxResults = 3
  MaxReports = 1
  Players = {"p", "q"}
  Strangers = {"s"}
  Stake = 240
  ResourceNodes <- Fields
  Spots = {2, 20}
  UnitKinds = {"worker", "tank", "building"}
  MaxUnits = 2
  MaxTurns = 2
  MaxCommands = 2
  Bridges = {1, 2}
  MaxWall = 2
  CounterMax = 20
  Capacity = 2
  MaxEpochs = 3
SPECIFICATION Spec
CHECK_DEADLOCK FALSE
INVARIANTS
  DivergenceSeen SnapshotsTrue KernelAccounted CoinsSound WorldsConverge LinkSound WorkAccounted TurnsAccounted
PROPERTIES
  PriorityFirst
