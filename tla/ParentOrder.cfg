CONSTANTS
    t1 = t1
    t2 = t2
    p = p
    c = c
    g = g
    q = q
    x = x
    y = y
    f = f
    None = None
    Error = Error
    Threads = {t1}
    Names <- MCNames
    Parent <- DeepParent
    Bytecode = {}
    PreLoad <- Nowhere
    PostLoad <- Nowhere
    Program = {c}
    Uses <- NoUses
    Fixed = {c}
    Failing = {}
    Copies = {1, 2, 3}
SPECIFICATION Spec
CHECK_DEADLOCK FALSE
INVARIANT ParentsFirst
