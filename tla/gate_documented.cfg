\* The control plane by itself, with one kill switch; its warm-ups succeed.
CONSTANTS
    NoSwitch = NoSwitch
    SwitchIds = {k1}
    Scopes <- MCScopes
    OwnScope <- MCOwnScope
    Exposures <- MCExposures
    SafetyPolicies <- MCSafetyPolicies
SPECIFICATION ControlSpec
INVARIANT EntriesBlockedAsDocumented
