SPECIFICATION Spec
CONSTANTS
    Cases <- Sound
    Interrupts = FALSE
INVARIANT ClaimsHold
INVARIANT SameBehaviour
INVARIANT ExitsAnnotated
PROPERTY Settles
