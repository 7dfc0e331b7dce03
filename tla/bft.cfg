CONSTANTS
  Deployments = {"harness", "pair", "solo", "duo", "four"}
  Validators <- FourValidators
  Silent = {4}
  Driver = "harness"
  Txs <- HarnessTxs
  InitBalance = 2
  MaxPool = 2
  MaxView = 2
SPECIFICATION Spec
CHECK_DEADLOCK FALSE
INVARIANTS
  CertifiedCommit DriversSound
