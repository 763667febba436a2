SPECIFICATION InspectionSpec
CONSTANTS
    pA = pA
    pB = pB
    pC = pC
    Products = {pC}
    NoProduct = NoProduct
    sShared = sShared
    sA = sA
    sInit = sInit
    Secrets = {sShared, sA, sInit}
    ConfigMaps = {}
    StateMap = StateMap
    NoObject = NoObject
    Bootstraps = {b1}
    Unbootstraps = {u1}
    InitJobs = {j1}
    MaxEdits = 0
    Serial = TRUE
    BootstrapSecrets <- MCBootstrapSecrets
    InitResources <- MCInitResources
SYMMETRY MCSymmetry
CHECK_DEADLOCK FALSE
PROPERTIES
    FailedCleanupIsDiscoverable
