SPECIFICATION LockFairSpec
CONSTANTS
    demod = demod
    main = main
    handler = handler
    NoThread = NoThread
    Thread <- ThreeThreads
    Uses <- AllUses
    MaxPush = 3
INVARIANT TypeOK
INVARIANT Fifo
PROPERTY ImplementsFifo
PROPERTY ExitFreesSleepers
PROPERTY ClearFreesOnlySleeper
