SPECIFICATION FairSpec
CONSTANTS
    NoObj = NoObj
    NoURL = NoURL
    NoSlo = NoSlo
    Specs <- MCSpecs
    Clusters <- MCClusters
    InitialFinalizers <- MCForeign
    MaxEdits = 3
    MaxFaults = 1
CHECK_DEADLOCK FALSE
INVARIANTS TypeOK QuietServiceMonitor QuietPrometheusRule RuleHasErrorBudget
PROPERTIES ImplementsLife DeletionCompletes EventuallyServed
