CONSTANTS
    Coroutines = {t1, c1}
    Tasks = {t1}
    Asyncgens = {g1}
    Ops = {o1, o2}
    Future = Future
    None = None
    BadArguments = FALSE
SPECIFICATION Spec
INVARIANT PicksUpNewOne
