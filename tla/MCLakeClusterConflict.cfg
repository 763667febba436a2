SPECIFICATION Spec
CONSTANTS
    pA = pA
    pB = pB
    Products = {pA}
    NoProduct = NoProduct
    sShared = sShared
    sA = sA
    sB = sB
    sInit = sInit
    cInit = cInit
    Secrets = {sShared, sA, sB, sInit}
    ConfigMaps = {cInit}
    StateMap = StateMap
    NoObject = NoObject
    Bootstraps = {b1, b2}
    Unbootstraps = {}
    InitJobs = {}
    MaxEdits = 0
    Serial = FALSE
    BootstrapSecrets <- MCBootstrapSecrets
    InitResources <- MCInitResources
SYMMETRY MCSymmetry
CHECK_DEADLOCK FALSE
PROPERTIES
    ConflictStopsBootstrap
