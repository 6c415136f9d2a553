CONSTANTS
    Main = "main"
    NoPackage = "toplevel"
    Changes = 1
    Debug = TRUE
    Names <- MCNames
    Roots <- MCRoots
    Package <- MCPackage
    Follow <- MCFollow
    Kind <- KindFakeBytecode
    Imports <- MCImports
    Stdlib <- MCStdlib
    Implicit <- MCImplicit
    AutoFollow <- MCAutoFollow
    Triggers <- MCTriggers
    Fakes <- MCFakes
SPECIFICATION Spec
INVARIANT GivesUpForChangesOnly
