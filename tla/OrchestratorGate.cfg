SPECIFICATION Spec
CONSTANTS
    Steps <- GateSteps
    DependsOn <- GateDependsOn
    Position <- GatePosition
    StepType <- GateType
    Role <- GateRole
    Advancers = {a1, a2}
    Humans = {h1, h2}
    NoStep = NoStep
    MaxCrashes = 1
INVARIANTS
    DependencyOrder
    ExecutedOnce
    ResolutionIsAtomic
