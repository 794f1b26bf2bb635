SPECIFICATION FairSpec
CONSTANTS
    NoObj = NoObj
    NoURL = NoURL
    NoSlo = NoSlo
    Specs <- MCSkipSpecs
    Routes <- MCLiveRoutes
    InitialFinalizers <- MCNoFinalizer
    Meddled = {"coreos"}
    MaxEdits = 3
    MaxFaults = 1
CHECK_DEADLOCK FALSE
PROPERTIES DeletionCompletes ComesToRest
