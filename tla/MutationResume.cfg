SPECIFICATION FairSpec
CONSTANTS
    Approvers = {a1, a2}
    Rejecters = {r1}
    EarlyDecisions = TRUE
    MaxCrashes = 1
    MaxEdits = 1
    MaxRules = 1
CHECK_DEADLOCK FALSE
INVARIANT ContinuedOnce
INVARIANT CompletedIsApplied
 
