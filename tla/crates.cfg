CONSTANTS
  Foci = {"journal", "wal", "rounds", "heights", "tcp", "gossip", "views", "books",
          "codec", "trust", "saga", "vmm", "stores", "parity", "tokens", "billing",
          "causal", "editor", "editors", "crdts", "seal"}
  a1 = a1
  a2 = a2
  a3 = a3
  b1 = b1
  A = A
  B = B
  C = C
  Authorities = {a1, a2, a3, b1}
  Faulty = {b1}
  Orders = {A, B, C}
  Rounds = {0}
  Events = {"e1", "e2", "e3"}
  SegmentSize = 2
  MaxCrashes = 2
  Accts = {1, 2}
  Amounts = {2}
  MaxAmount = 2
  Callers = {1, 2}
  InitialReward = 2
  HalvingInterval = 1
  TopK = 2
  Fractions <- Slashes
  MaxEpoch = 1
  Unlocks = {1}
  MaxScore = 2
  MaxIssued = 4
  MaxRecords = 1
  Opening = 3
  Chunks = {1, 2}
  Rate = 1
  MaxTrace = 9
SPECIFICATION CratesSpec
CHECK_DEADLOCK FALSE
INVARIANTS
  VoidSound Agreement JournalSound CertificationSound OverlaySound
  MessagesTrusted WorkflowsSound StorageSound  ReplicasAgree
PROPERTIES
  ImplementsLog
