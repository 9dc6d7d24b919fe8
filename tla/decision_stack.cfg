\* The replay: two market timelines, one reload of the lookups, two versions of
\* the stack.  The gate: two events, one kill switch, two importing callers.
SPECIFICATION MCSpec
CONSTANTS
    None = None
    Timelines <- MCTimelines
    BatchSets <- MCBatchSets
    Descriptors <- MCDescriptors
    BindingSets <- MCBindingSets
    MaxFrames = 2
    Stacks <- MCStacks
    Decides <- MCDecides
    MaxReloads = 2
    NoSlice = NoSlice
    NoSwitch = NoSwitch
    Absent = Absent
    MaxEvents = 2
    Freshness <- MCFreshness
    SwitchIds = {k1}
    Scopes <- MCScopes
    OwnScope <- MCOwnScope
    Callers = {c1, c2}
    ImportRequests <- MCImportRequests
    LooseSnapshots <- MCLooseSnapshots
    Resolutions <- MCResolutions
    StitchPolicies <- MCStitchPolicies
    StitchPolicy <- MCStitchPolicy
    WarmupPolicy <- MCWarmupPolicy
    Exposures <- MCExposures
    Unknowns <- MCUnknowns
    SafetyPolicies <- MCSafetyPolicies
INVARIANTS
    DecisionSeesThePast
    RunDecidedOnOneView
    DecisionsJournaledOnce
    TradableViewsAreTheStream
    PermissionIsSound
    CapabilitiesHold
SYMMETRY CallerSymmetry
\* A run that is over, a full stream and callers whose imports are all refused
\* are the end of their scopes.
CHECK_DEADLOCK FALSE
