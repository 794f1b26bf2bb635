SPECIFICATION Spec
CONSTANTS
    m1 = m1
    m2 = m2
    m3 = m3
    None = None
    Monitors = {m1, m2, m3}
    KindOf <- MCThree
    ExporterInformersLag = TRUE
    MaxEdits = 5
    MaxFaults = 1
CHECK_DEADLOCK FALSE
INVARIANTS TypeOK OnlyCrossedPartsMissing OnlyCrossedServiceEmpty
