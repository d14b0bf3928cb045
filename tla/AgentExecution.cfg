SPECIFICATION Spec
INVARIANTS
    OutcomeIsTrue
    ToolRoundIsClosed
PROPERTIES
    ImplementsLedger
    EndsUnlessLost
