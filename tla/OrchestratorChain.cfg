SPECIFICATION FairSpec
CONSTANTS
    Steps <- ChainSteps
    DependsOn <- ChainDependsOn
    Position <- ChainPosition
    StepType <- ChainType
    Role <- ChainRole
    Advancers = {a1, a2}
    Humans = {h1}
    NoStep = NoStep
    MaxCrashes = 1
INVARIANTS
    BlockNeverAccepted
    HandoffBeforeUnlock
    EventsAreTrue
PROPERTIES
    ImplementsLifecycle
    SettlesUnlessAbandoned
    
