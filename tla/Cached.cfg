CONSTANTS
    Payload <- FilesAndLink
    LinkTo <- OneLink
    Temporary = FALSE
    GraceTime = FALSE
    Signals = {"SIGINT", "SIGTERM"}
    Faults = TRUE
SPECIFICATION Spec
INVARIANT StartsComplete
