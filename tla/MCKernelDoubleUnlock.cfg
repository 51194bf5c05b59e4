CONSTANTS
    OS_MAX_TASKS = 5
    NULL = NULL
    OS_NUM_MUTEX = 2
    MaxHolds = 2
    Disciplined = FALSE
    NUM_DEVICES = 1
    dev_freq <- MCDevFreq
    OSTMR_COUNT = 2
    Oscr = {2}
    WORD = 2
    WaitArg = {0, 1}
    TaskCounts = {3}
    Recreate = FALSE
SPECIFICATION Spec
INVARIANTS HoldsLockIfOwning
