SPECIFICATION Spec
CONSTANTS
    Peer = {p1, p2}
    Run = {r1, r2}
    MaxInvocations = 2
SYMMETRY Symmetry
INVARIANTS
    SnapshotIsOwned
    PassedIsEarned
    AcceptedIsAnswerable
    ServiceRunsInstalled
PROPERTIES
    BlockedFailsClosed
    PredecessorIsKept
CHECK_DEADLOCK FALSE
