SPECIFICATION RnSpec
CONSTANTS
    Nodes = {1, 2, 3}
    Seqs = {0}
    MaxLoss = 0
    REBROADCAST_IDLE_ROUNDS = 2
    Deployments <- LoadDeployments
PROPERTIES ReconfigCompletes
CHECK_DEADLOCK FALSE
