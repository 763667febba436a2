SPECIFICATION ValidatorSpec
CONSTANTS
    fRoot = fRoot
    fA = fA
    fB = fB
    fC = fC
    fD = fD
    fE = fE
    fF = fF
    gTop = gTop
    gAlt = gAlt
    gAll = gAll
    gSome = gSome
    gEmpty = gEmpty
    kFree = kFree
    kNeeded = kNeeded
    Features = {fRoot, fA, fB, fC, fD, fE, fF}
    Root = fRoot
    Parent <- MCParent
    Groups = {gTop, gAlt, gAll, gSome, gEmpty}
    GroupOf <- MCGroupOf
    Owner <- MCOwner
    Rel <- MCRel
    Default <- MCDefault
    NoDefault = NoDefault
    Attributes = {kFree, kNeeded}
    AttributeOf <- MCAttributeOf
    Fallback <- MCFallback
    Products <- MCProducts
    Later <- MCListed
CHECK_DEADLOCK FALSE
INVARIANTS
    EmptyGroupNeedsNoSelection
