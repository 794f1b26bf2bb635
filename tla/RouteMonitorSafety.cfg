SPECIFICATION Spec
CONSTANTS
    NoObj = NoObj
    NoURL = NoURL
    NoSlo = NoSlo
    Specs <- MCSloSpecs
    Routes <- MCRoutes
    InitialFinalizers <- MCAnyFinalizer
    Meddled = {"coreos"}
    MaxEdits = 3
    MaxFaults = 1
CHECK_DEADLOCK FALSE
INVARIANTS TypeOK DeployUnderFinalizer QuietServiceMonitor QuietPrometheusRule QuietErrorStatus
PROPERTIES KeepsUserIntent ImplementsLife
