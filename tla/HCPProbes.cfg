SPECIFICATION Spec
CONSTANTS
    NoObj = NoObj
    p1 = p1
    p2 = p2
    d1 = d1
    d2 = d2
    ProbeIds = {p1, p2}
    DynatraceIds = {d1}
    LeftOver = {}
    DynatraceRegions <- MCRegions
    Unreliable = {"rhobs", "dynatrace"}
    HCPSpecs <- MCIncomplete
    Flags <- MCURLFlags
    ConfigMaps <- MCSwitched
    Conflicting = {"active", "failed"}
    HealthInformerLags = TRUE
    consecutiveSuccessfulHealthchecks = 2
    MaxEdits = 4
    MaxFaults = 0
CHECK_DEADLOCK FALSE
SYMMETRY MCSymmetry
INVARIANT TypeOK
INVARIANT OnlyOverlookedProbesLeft
INVARIANT HealthyAfterPasses
