SPECIFICATION FairSpec
CONSTANTS
    listener = listener
    sampler = sampler
    demod = demod
    main = main
    handler = handler
    NoThread = NoThread
    first = first
    Client <- OneClient
    NoClient = NoClient
    MaxFd = 1
    ChunkSize = 1
    MaxInbox = 1
    MaxPush = 1
CHECK_DEADLOCK FALSE
 
 
PROPERTY EndsOrHangs
