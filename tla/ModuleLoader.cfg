CONSTANTS
    t1 = t1
    t2 = t2
    p = p
    c = c
    g = g
    q = q
    x = x
    y = y
    f = f
    None = None
    Error = Error
    Threads = {t1, t2}
    Names <- MCNames
    Parent <- MCParent
    Bytecode = {q}
    PreLoad <- MCPreLoad
    PostLoad <- MCPostLoad
    Program = {p, c, f}
    Uses <- MCUses
    Fixed = {f}
    Failing = {p, c, q, x, g, f}
    Copies = {1, 2, 3}
SPECIFICATION Spec
SYMMETRY Symmetric
CHECK_DEADLOCK FALSE
INVARIANT TypeOK
INVARIANT ImportsFinished
INVARIANT OneExecution
PROPERTY IsImporting
