SPECIFICATION Spec
CONSTANTS
    pA = pA
    pB = pB
    Products = {pA, pB}
    NoProduct = NoProduct
    sShared = sShared
    sA = sA
    sB = sB
    sInit = sInit
    cInit = cInit
    Secrets = {sShared, sA, sB, sInit}
    ConfigMaps = {cInit}
    StateMap = StateMap
    NoObject = NoObject
    Bootstraps = {b1, b2}
    Unbootstraps = {u1, u2}
    InitJobs = {}
    MaxEdits = 0
    Serial = TRUE
    BootstrapSecrets <- MCBootstrapSecrets
    InitResources <- MCInitResources
SYMMETRY MCSymmetry
CHECK_DEADLOCK FALSE
INVARIANTS
    SerialRecordIsOwn
    SerialLakeIsErasedWhole
PROPERTIES
    SerialCleanupIsComplete
