CONSTANTS
    OS_MAX_TASKS = 5
    USR_START_ADDR = 1
    USR_END_ADDR = 3
    WORD = 4
    NumTasks = {0, 1, 2, 3, 4}
    Descriptor <- MCDescriptor
SPECIFICATION Spec
CHECK_DEADLOCK FALSE
INVARIANTS TypeOK NothingLost Sorted OutsiderStaysOut
PROPERTIES RefusedOverloaded
