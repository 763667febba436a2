\* One command after another, edits between them, any command may die.
SPECIFICATION WorkspaceSpec
CHECK_DEADLOCK FALSE
CONSTANTS
    klms = klms
    libs = libs
    other = other
    main = main
    pinned = pinned
    Sources = {klms, libs, other}
    Versions = {main, pinned}
    Template <- MCTemplate
    Inits = {i1, i2, i3}
    MayForce = TRUE
    MayDie = TRUE
    Racing = FALSE
    MaxEdits = 3
SYMMETRY MCSymmetry
PROPERTIES
    PinsAreKept
