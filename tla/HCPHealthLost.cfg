SPECIFICATION Spec
CONSTANTS
    NoObj = NoObj
    p1 = p1
    p2 = p2
    d1 = d1
    d2 = d2
    ProbeIds = {p1, p2}
    DynatraceIds = {d1, d2}
    LeftOver = {}
    DynatraceRegions <- MCRegions
    Unreliable = {"rhobs"}
    HCPSpecs <- MCOneSpec
    Flags <- MCFlags
    ConfigMaps <- MCPlain
    Conflicting = {"active", "failed"}
    HealthInformerLags = FALSE
    consecutiveSuccessfulHealthchecks = 3
    MaxEdits = 3
    MaxFaults = 1
CHECK_DEADLOCK FALSE
SYMMETRY MCSymmetry
INVARIANT HealthyInARow
