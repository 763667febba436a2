SPECIFICATION WorkloadsFairSpec
CONSTANTS
    wDeployment = wDeployment
    wStatefulSet = wStatefulSet
    wJob = wJob
    Workloads = {wStatefulSet, wDeployment, wJob}
    Expected <- MCMixed
    KindOf <- MCKindOf
    Unchecked = {"system"}
    Absent = Absent
    JobTimeout = 2
    PollInterval = 2
    MaxReplicas = 1
    Disruptive = TRUE
CHECK_DEADLOCK FALSE
INVARIANTS
    WorkloadsTypeOK
    ReadingsAreBounded
    VerdictIsBounded
PROPERTIES
    JobsGetTheirWindow
    InspectionEnds
