CONSTANTS
    Payload <- Files
    LinkTo <- NoLinks
    Temporary = TRUE
    GraceTime = TRUE
    Signals = {"SIGINT", "SIGTERM"}
    Faults = TRUE
SPECIFICATION FairSpec
INVARIANT TypeOK
INVARIANT PayloadRemoved
INVARIANT OneInterrupt
INVARIANT FailurePassedOn
PROPERTY FilesKept
PROPERTY ProcessesEnd
