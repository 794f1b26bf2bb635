SPECIFICATION FairSpec
CONSTANTS
    NoObj = NoObj
    p1 = p1
    p2 = p2
    d1 = d1
    d2 = d2
    ProbeIds = {p1, p2}
    DynatraceIds = {d1, d2}
    LeftOver = {d1, d2}
    DynatraceRegions <- MCRegions
    Unreliable = {"dynatrace"}
    HCPSpecs <- MCLocated
    Flags <- MCFlags
    ConfigMaps <- MCDynatrace
    Conflicting = {"active", "failed"}
    HealthInformerLags = FALSE
    consecutiveSuccessfulHealthchecks = 2
    MaxEdits = 4
    MaxFaults = 0
CHECK_DEADLOCK FALSE
INVARIANT NoOrphanedDynatrace
PROPERTY EventuallyOneMonitor
