SPECIFICATION Spec
CONSTANTS
    NoObj = NoObj
    p1 = p1
    p2 = p2
    d1 = d1
    d2 = d2
    ProbeIds = {p1, p2}
    DynatraceIds = {d1, d2}
    LeftOver = {}
    DynatraceRegions <- MCRegions
    Unreliable = {}
    HCPSpecs <- MCAccess
    Flags <- MCFlags
    ConfigMaps <- MCPlain
    Conflicting = {"active", "failed"}
    HealthInformerLags = FALSE
    consecutiveSuccessfulHealthchecks = 1
    MaxEdits = 4
    MaxFaults = 0
CHECK_DEADLOCK FALSE
SYMMETRY MCSymmetry
INVARIANT NoOrphanedProbe
