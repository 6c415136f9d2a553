CONSTANTS
    Main = "main"
    NoPackage = "toplevel"
    Changes = 2
    Debug = FALSE
    Names <- MCNames
    Roots <- MCRoots
    Package <- MCPackage
    Follow <- MCFollow
    Kind <- MCKind
    Imports <- MCImports
    Stdlib <- MCStdlib
    Implicit <- MCImplicit
    AutoFollow <- MCAutoFollow
    Triggers <- MCTriggers
    Fakes <- MCFakes
SPECIFICATION FairSpec
INVARIANT TypeOK
INVARIANT OneObjectPerName
INVARIANT NoUseAfterFinalize
INVARIANT FinalSetUsable
INVARIANT FinalSetExact
PROPERTY IsTraversal
PROPERTY Terminates
