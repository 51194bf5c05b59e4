CONSTANTS
    OS_MAX_TASKS = 64
    NULL = NULL
    Adds <- MCAdds
SPECIFICATION Spec
INVARIANTS TypeOK BitsAgree
PROPERTIES ImplementsReadyQueue
