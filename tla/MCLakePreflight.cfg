SPECIFICATION PreflightSpec
CHECK_DEADLOCK FALSE
CONSTANTS
    s1 = s1
    s2 = s2
    pod1 = pod1
    pod2 = pod2
    pod3 = pod3
    crd = crd
    deployment = deployment
    issuer = issuer
    standard = standard
    vendor = vendor
    NoValue = NoValue
    NoContext = NoContext
    StorageClasses = {s1, s2}
    Issuers = {issuer}
    Pods = {pod1, pod2, pod3}
    NameOrder <- MCNameOrder
    PreferredOrder <- MCPreferred
    Defaults <- MCDefaults
    Crds <- MCCrds
    Deployments <- MCDeployments
    Labels <- MCLabels
    Named <- MCNamed
    Selectors <- MCSelectors
    Contexts = {k1, k2}
    k1 = k1
    k2 = k2
    InitialConfigs <- MCWritten
    Creating = {"typed", "inferred"}
    Settled = {}
    Deniable = {"controller", "crd"}
    MaxChanges = 2
CONSTRAINT MCFocus
INVARIANTS
    PreflightTypeOK
    GeneratedIsAccepted
    InferredIsServed
    PassedWasMet
    RefusalIsFounded
