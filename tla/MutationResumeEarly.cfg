SPECIFICATION FairSpec
CONSTANTS
    Approvers = {a1}
    Rejecters = {}
    EarlyDecisions = TRUE
    MaxCrashes = 0
    MaxEdits = 0
    MaxRules = 0
CHECK_DEADLOCK FALSE
PROPERTY DecisionAlwaysSettles
