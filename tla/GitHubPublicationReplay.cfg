SPECIFICATION FairSpec
CONSTANTS
    Sessions = {a1}
    ProofReplayable = FALSE
    MaxFaults = 0
    MaxActs = 0
CHECK_DEADLOCK FALSE
PROPERTY Converges
