SPECIFICATION FairSpec
CONSTANTS
    Actions = {c1, c2}
    Sessions = {a1, a2}
    UserCommits = {u1}
    NoAction = none
    MaxFaults = 1
CHECK_DEADLOCK FALSE
INVARIANT OneCommit
INVARIANT AppliedIsCommitted
INVARIANT IndexFollowsHead
PROPERTY CommitIsReviewed
