SPECIFICATION RnSpec
CONSTANTS
    Nodes = {1, 2, 3}
    Seqs = {0}
    MaxLoss = 1
    REBROADCAST_IDLE_ROUNDS = 2
    Deployments <- PassDeployments
PROPERTIES CertConverges EpochConverges
CHECK_DEADLOCK FALSE
