SPECIFICATION Spec
CONSTANTS
    demod = demod
    main = main
    handler = handler
    NoThread = NoThread
    Thread <- ThreeThreads
    Uses <- StopUses
    MaxPush = 0
INVARIANT NoSleeperAfterExit
