SPECIFICATION LockFairSpec
CONSTANTS
    demod = demod
    main = main
    handler = handler
    NoThread = NoThread
    Thread <- ThreeThreads
    Uses <- RemoverUses
    MaxPush = 3
INVARIANT WakeupsCoverQueue
INVARIANT NoSleeperWithData
PROPERTY DataReachesSleepers
PROPERTY TimedWaitsReturn
