SPECIFICATION FairSpec
CONSTANTS
    m1 = m1
    m2 = m2
    m3 = m3
    None = None
    Monitors = {m1, m2}
    KindOf <- MCBothKinds
    ExporterInformersLag = TRUE
    MaxEdits = 4
    MaxFaults = 1
CHECK_DEADLOCK FALSE
PROPERTIES DeletionCompletes ComesToRest
