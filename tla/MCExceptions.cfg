CONSTANTS
    Task = {t1, t2}
    Main = main
    MaxFrames = 3
SPECIFICATION Spec
INVARIANTS TypeOK StackBalanced InterruptsOnInTask KernelResumed ModeLostIfStruck
