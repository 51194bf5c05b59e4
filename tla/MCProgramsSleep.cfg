CONSTANTS
    OS_MAX_TASKS = 6
    NULL = NULL
    OS_NUM_MUTEX = 3
    MaxHolds = 1
    Disciplined = FALSE
    NUM_DEVICES = 4
    dev_freq <- MCDevFreq
    OSTMR_COUNT = 1
    Oscr = {1}
    WORD = 16
    WaitArg = {0, 1, 2, 3}
    TaskCounts = {1, 2, 3, 4}
    Recreate = TRUE
    TestPrograms = {"stress"}
    MUTEX_NUM = 3
    NUM_TASK = 4
    ITE = 3
    MaxTicks <- MCMaxTicks
SPECIFICATION PSpec
PROPERTIES SleepKeepsPromise
