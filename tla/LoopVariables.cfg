SPECIFICATION Spec
CONSTANTS
    Cases <- LoopsOfCalls
    Interrupts = FALSE
INVARIANT SameBehaviour
