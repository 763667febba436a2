SPECIFICATION Spec
CONSTANTS
    pLake = pLake
    pFullspec = pFullspec
    pSpec = pSpec
    i1 = i1
    iDual = iDual
    f1 = f1
    f2 = f2
    t1 = t1
    t2 = t2
    nFullspec = nFullspec
    nSpec = nSpec
    addT = addT
    addU = addU
    createP = createP
    createD = createD
    createOther = createOther
    createSpec = createSpec
    switchP = switchP
    boot = boot
    unboot = unboot
    remove = remove
    forcedRemove = forcedRemove
    Commands = {addT, addU, createP, createD, createOther, createSpec, switchP, boot, unboot, remove, forcedRemove}
    Products = {pLake, pFullspec, pSpec}
    Inputs = {i1, iDual}
    Fullspecs = {f1, f2, iDual}
    Targets = {t1, t2}
    SpecName = pSpec
    FullName <- MCFullName
    NoProduct = NoProduct
    NoInput = NoInput
    NoFullspec = NoFullspec
    NoTarget = NoTarget
    Managed = Managed
    Foreign = Foreign
    NoFile = NoFile
    Empty = Empty
    Garbled = Garbled
    FullspecOf <- MCFullspecOf
    Job <- MCJob
CONSTRAINT MCScenario
CHECK_DEADLOCK FALSE
INVARIANTS
    TypeOK
    SelectionWasWritten
    RecordNamesItsFullspec
PROPERTIES
    ForeignIsUntouched
    SerialImplementsSettings
    SerialSuccessIsEffective
