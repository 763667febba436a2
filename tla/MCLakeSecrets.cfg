\* Default and colliding names, manual TLS good and bad, optional components;
\* bootstraps that fail anywhere, init jobs at any time, cleanup at any time.
SPECIFICATION SecretsSpec
CONSTANTS
    NoName = NoName
    Lakes <- MCLakes
INVARIANTS
    SecretsTypeOK
    RecordedIsComplete
    StatusFindsAll
    InputErrorsCreateNothing
    DeployedIsInspected
PROPERTIES
    CleanupLeavesNothing
