SPECIFICATION Spec
CONSTANTS
    Compilations = {c1, c2, c3}
    p = p
    s = s
    k1 = k1
    k2 = k2
    Lengths = {1, 2}
    Names <- MCNames
    Packages <- MCPackages
    Installations <- SubmoduleChanges
    Keys <- MCKeys
    Asserted <- MCAsserted
    Imports <- FromImport
    Synthetic <- MCSynthetic
SYMMETRY Symmetry
CHECK_DEADLOCK FALSE
INVARIANT TypeOK
INVARIANT HitAsCompiled
PROPERTY WrittenIsHit
PROPERTY IsSharedCache
