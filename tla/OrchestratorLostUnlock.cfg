SPECIFICATION Spec
CONSTANTS
    Steps <- JoinSteps
    DependsOn <- JoinDependsOn
    Position <- JoinPosition
    StepType <- JoinType
    Role <- JoinRole
    Advancers = {a1, a2}
    Humans = {h1}
    NoStep = NoStep
    MaxCrashes = 0
INVARIANTS
    NoLostUnlock
