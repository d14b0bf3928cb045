\* Preparing an execution may end, and a deployment may have nothing left to do.
CHECK_DEADLOCK FALSE
SPECIFICATION Spec
CONSTANTS
    Identities <- MCIdentities
    ProviderOf <- MCProviderOf
    Routes <- MCRoutes
    Qualifications <- MCQualifications
    Forced = 0
    Refreshers = {r1, r2}
    RefreshedProvider = "remote"
    InitialCatalogs <- MCInitialCatalogs
    Listings <- MCListings
    FreeAllowlist = {2}
    Memories <- MCMemories
    Requests <- MCRequests
    MaxItems = 2
    MaxBytes = 12
    MaxReferencesPerItem = 2
    MaxReferences = 3
    PackageHeader = 2
    ProviderHeader = 3
    Paths = {"handoffs", "actions"}
    NodeOf <- MCNodeOf
    BaseMaximum = 3
    MaxConstraints = 2
    SafetyCeiling = 7
    ContextOverhead = 1
    ExpectedOutput = 3
    Queries <- MCQueries
SYMMETRY MCSymmetry
INVARIANTS NoDisclosure ContextIsBounded PlanIsConsistent RouteIsGuaranteed
PROPERTIES RefreshIsSnapshot
