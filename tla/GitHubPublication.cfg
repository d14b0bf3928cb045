SPECIFICATION FairSpec
CONSTANTS
    Sessions = {a1, a2}
    ProofReplayable = TRUE
    MaxFaults = 2
    MaxActs = 2
CHECK_DEADLOCK FALSE
INVARIANT OnlyApproved
 
 
 
