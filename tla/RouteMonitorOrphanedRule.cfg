SPECIFICATION Spec
CONSTANTS
    NoObj = NoObj
    NoURL = NoURL
    NoSlo = NoSlo
    Specs <- MCRuleSpecs
    Routes <- MCOneRoute
    InitialFinalizers <- MCNoFinalizer
    Meddled = {}
    MaxEdits = 2
    MaxFaults = 0
CHECK_DEADLOCK FALSE
INVARIANT NoOrphanedRule
