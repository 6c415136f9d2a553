CONSTANTS
    Generators = {g1, g2, g3}
    Threads = {t1, t2}
    None = None
    ReentrantThrow = FALSE
SYMMETRY Symmetry
SPECIFICATION Spec
INVARIANT TypeOK
INVARIANT NoRecursion
INVARIANT DelegateKept
INVARIANT CloseEnds
PROPERTY ResumedAfterDelegate
PROPERTY IsCoroutine
