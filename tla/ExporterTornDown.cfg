SPECIFICATION Spec
CONSTANTS
    m1 = m1
    m2 = m2
    m3 = m3
    None = None
    Monitors = {m1, m2}
    KindOf <- MCBothKinds
    ExporterInformersLag = FALSE
    MaxEdits = 4
    MaxFaults = 0
CHECK_DEADLOCK FALSE
INVARIANT ExporterServesMonitors
