CONSTANTS
    OS_MAX_TASKS = 5
    NULL = NULL
    OS_NUM_MUTEX = 2
    MaxHolds = 2
    Disciplined = TRUE
    NUM_DEVICES = 2
    dev_freq <- MCDevFreq
    OSTMR_COUNT = 2
    Oscr = {3}
    WORD = 4
    WaitArg = {0, 1, 3}
    TaskCounts = {3}
    Recreate = TRUE
SPECIFICATION FairSpec
INVARIANTS TypeOK OnePlace HighestRuns IdleReady HolderRuns NoContention RecordsAgree
PROPERTIES EventSignalled TopTaskServed
