SPECIFICATION InspectionSpec
CONSTANTS
    pA = pA
    pB = pB
    pC = pC
    Products = {pA, pB, pC}
    NoProduct = NoProduct
    sShared = sShared
    sA = sA
    sInit = sInit
    Secrets = {sShared, sA, sInit}
    ConfigMaps = {}
    StateMap = StateMap
    NoObject = NoObject
    Bootstraps = {b1, b2}
    Unbootstraps = {u1, u2}
    InitJobs = {j1}
    MaxEdits = 1
    Serial = FALSE
    BootstrapSecrets <- MCBootstrapSecrets
    InitResources <- MCInitResources
SYMMETRY MCSymmetry
CONSTRAINT MCScenario
CHECK_DEADLOCK FALSE
INVARIANTS
    TypeOK
    RecordedLakeIsComplete
    BlindRecordIsOwn
    SuccessIsRecorded
    MissingSecretsWereDeleted
    BootstrappedIsASnapshot
    MarkerDeletedLast
PROPERTIES
    ImplementsLakeRecord
    OnlyInspectedObjectsGo
