CONSTANTS
    Coroutines = {t1, t2, c1}
    Tasks = {t1, t2}
    Asyncgens = {g1}
    Ops = {o1, o2}
    Future = Future
    None = None
    BadArguments = FALSE
SYMMETRY Symmetry
SPECIFICATION Spec
INVARIANT TypeOK
INVARIANT AwaitKept
INVARIANT LockFreed
PROPERTY ResumedAfterAwait
PROPERTY AcloseEndsBody
PROPERTY IsCoroutine
PROPERTY IsAsyncIteration
